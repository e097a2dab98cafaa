------------------------- MODULE RuntimeChange_proofs --------------------------
(***************************************************************************)
(* Proofs about the commands that change the runtime, and their recovery,  *)
(* for any set of models, commands, processes and transactions.            *)
(***************************************************************************)
EXTENDS RuntimeChange, SequenceTheorems, TLAPS

Live(c) == cmd[c].at \notin {"idle", "captured"}
Busy(r) == rec[r].at \notin {"idle", "fenced"}

\* No reconciler goes on with a transaction that another one has closed.
NobodyOvertaken ==
  \A r \in Reconciler : Busy(r) => rec[r].id = slot.id /\ IsActive(slot)

--------------------------------------------------------------------------------
(* The plans                                                               *)

TargetOperations == {"deploy", "upgrade", "rollback"}

\* How many actions come before activate-target, and how many there are.
ActivateStep(op) ==
  CASE op = "upgrade" -> Fetches + 2 [] op = "deploy" -> Fetches [] OTHER -> 1

LenOf(op) ==
  CASE op = "release" -> 2 [] op = "profile" -> 1
    [] op = "deploy" -> Fetches + 3 [] OTHER -> ActivateStep(op) + 4

\* The action of a plan after n others.
KindAt(op, n) ==
  CASE op = "release" -> IF n = 0 THEN "release" ELSE "verify-restored"
    [] op = "profile" -> "switch-profile"
    [] op \in TargetOperations /\ n = ActivateStep(op) -> "activate-target"
    [] op \in TargetOperations /\ n = ActivateStep(op) + 1 -> "start-target"
    [] op \in TargetOperations /\ n = ActivateStep(op) + 2 -> "target-quick"
    [] op = "upgrade" /\ n = ActivateStep(op) + 3 -> "publish-rollback"
    [] op = "rollback" /\ n = ActivateStep(op) + 3 -> "clear-rollback"
    [] op \in RolloutOperations /\ n + 1 = ActivateStep(op) -> "stop-source"
    [] op = "upgrade" /\ n = 0 -> "source-quick"
    [] OTHER -> "fetch-target-artifact"

PlanFor(op) ==
  CASE op = "deploy" -> DeployPlan
    [] op = "release" -> ReleasePlan
    [] op = "profile" -> <<"switch-profile">>
    [] OTHER -> Plan(op, "quick")

Kinds == ActionKinds \union {"release", "verify-restored", "switch-profile"}

\* PlansAre: what a plan has at each place.
LEMMA PlansAre ==
  ASSUME NEW op \in Operations
  PROVE  /\ Len(PlanFor(op)) = LenOf(op)
         /\ \A n \in 0 .. LenOf(op) - 1 : PlanFor(op)[n + 1] = KindAt(op, n)
<1> DEFINE tail == <<"activate-target", "start-target", "target-quick">>
           four == <<"stop-source", "activate-target", "start-target", "target-quick">>
<1>0. \A s, t \in Seq(Kinds) :
        /\ s \o t \in Seq(Kinds)
        /\ Len(s \o t) = Len(s) + Len(t)
        /\ \A i \in 1 .. Len(s) + Len(t) :
             (s \o t)[i] = IF i <= Len(s) THEN s[i] ELSE t[i - Len(s)]
  BY ConcatProperties
<1>1. /\ FetchActions \in Seq(Kinds) /\ Len(FetchActions) = Fetches
      /\ \A i \in 1 .. Fetches : FetchActions[i] = "fetch-target-artifact"
  BY FetchesAssumption DEF FetchActions, Kinds, ActionKinds
<1>2. /\ tail \in Seq(Kinds) /\ Len(tail) = 3
      /\ tail[1] = "activate-target" /\ tail[2] = "start-target" /\ tail[3] = "target-quick"
  BY DEF Kinds, ActionKinds
<1>3. /\ four \in Seq(Kinds) /\ Len(four) = 4
      /\ four[1] = "stop-source" /\ four[2] = "activate-target"
      /\ four[3] = "start-target" /\ four[4] = "target-quick"
  BY DEF Kinds, ActionKinds
<1>4. CASE op = "deploy"
  <2> HIDE DEF tail
  <2>1. DeployPlan = FetchActions \o tail
    BY DEF DeployPlan, tail
  <2>2. /\ Len(FetchActions \o tail) = Fetches + 3
        /\ \A i \in 1 .. Fetches + 3 :
             (FetchActions \o tail)[i] = IF i <= Fetches THEN FetchActions[i]
                                                         ELSE tail[i - Fetches]
    <3>1. /\ Len(FetchActions \o tail) = Len(FetchActions) + Len(tail)
          /\ \A i \in 1 .. Len(FetchActions) + Len(tail) :
               (FetchActions \o tail)[i] = IF i <= Len(FetchActions) THEN FetchActions[i]
                                           ELSE tail[i - Len(FetchActions)]
      BY <1>0, <1>1, <1>2
    <3> QED
      BY <1>1, <1>2, <3>1
  <2>3. ASSUME NEW n \in 0 .. Fetches + 2
        PROVE  DeployPlan[n + 1] = KindAt("deploy", n)
    <3>1. n + 1 \in 1 .. Fetches + 3 /\ n \in Nat
      BY FetchesAssumption
    <3>2. CASE n < Fetches
      <4>1. DeployPlan[n + 1] = "fetch-target-artifact"
        BY <1>1, <2>1, <2>2, <3>1, <3>2, FetchesAssumption
      <4> QED
        BY <3>1, <3>2, <4>1, FetchesAssumption
        DEF KindAt, ActivateStep, TargetOperations, RolloutOperations
    <3>3. CASE n >= Fetches
      <4>1. DeployPlan[n + 1] = tail[n + 1 - Fetches] /\ n \in {Fetches, Fetches + 1, Fetches + 2}
        BY <2>1, <2>2, <3>1, <3>3, FetchesAssumption
      <4> QED
        BY <1>2, <4>1, FetchesAssumption DEF KindAt, ActivateStep, TargetOperations
    <3> QED
      BY <3>1, <3>2, <3>3, FetchesAssumption
  <2> QED
    BY <1>4, <2>1, <2>2, <2>3, FetchesAssumption DEF PlanFor, LenOf
<1>5. CASE op = "upgrade"
  <2> DEFINE source == <<"source-quick">>
             last == <<"publish-rollback">>
  <2>1. /\ source \in Seq(Kinds) /\ Len(source) = 1 /\ source[1] = "source-quick"
        /\ last \in Seq(Kinds) /\ Len(last) = 1 /\ last[1] = "publish-rollback"
        /\ <<>> \in Seq(Kinds) /\ Len(<<>>) = 0
    BY DEF Kinds, ActionKinds
  <2> DEFINE s1 == source \o FetchActions
             s2 == s1 \o four
             s3 == s2 \o <<>>
             s4 == s3 \o last
  <2>2. UpgradePlan("quick") = s4
    BY DEF UpgradePlan
  <2> HIDE DEF four, source, last
  <2>3. /\ s1 \in Seq(Kinds) /\ Len(s1) = Fetches + 1
        /\ \A i \in 1 .. Fetches + 1 :
             s1[i] = IF i <= 1 THEN source[i] ELSE FetchActions[i - 1]
    <3>1. /\ s1 \in Seq(Kinds) /\ Len(s1) = Len(source) + Len(FetchActions)
          /\ \A i \in 1 .. Len(source) + Len(FetchActions) :
               s1[i] = IF i <= Len(source) THEN source[i] ELSE FetchActions[i - Len(source)]
      BY <1>0, <1>1, <2>1
    <3> QED
      BY <1>1, <2>1, <3>1, FetchesAssumption
  <2> HIDE DEF s1
  <2>4. /\ s2 \in Seq(Kinds) /\ Len(s2) = Fetches + 5
        /\ \A i \in 1 .. Fetches + 5 :
             s2[i] = IF i <= Fetches + 1 THEN s1[i] ELSE four[i - (Fetches + 1)]
    <3>1. /\ s2 \in Seq(Kinds) /\ Len(s2) = Len(s1) + Len(four)
          /\ \A i \in 1 .. Len(s1) + Len(four) :
               s2[i] = IF i <= Len(s1) THEN s1[i] ELSE four[i - Len(s1)]
      BY <1>0, <1>3, <2>3
    <3> QED
      BY <1>3, <2>3, <3>1, FetchesAssumption
  <2> HIDE DEF s2
  <2>5. s3 \in Seq(Kinds) /\ s3 = s2
    BY <2>1, <2>4, ConcatEmptySeq
  <2> HIDE DEF s3
  <2>6. /\ Len(s4) = Fetches + 6
        /\ \A i \in 1 .. Fetches + 6 :
             s4[i] = IF i <= Fetches + 5 THEN s2[i] ELSE last[i - (Fetches + 5)]
    <3>1. /\ s4 \in Seq(Kinds) /\ Len(s4) = Len(s3) + Len(last)
          /\ \A i \in 1 .. Len(s3) + Len(last) :
               s4[i] = IF i <= Len(s3) THEN s3[i] ELSE last[i - Len(s3)]
      BY <1>0, <2>1, <2>4, <2>5
    <3> QED
      BY <2>1, <2>4, <2>5, <3>1, FetchesAssumption
  <2> HIDE DEF s4
  <2>7. ASSUME NEW n \in 0 .. Fetches + 5
        PROVE  s4[n + 1] = KindAt("upgrade", n)
    <3>1. n \in Nat /\ n + 1 \in 1 .. Fetches + 6
      BY FetchesAssumption
    <3> USE DEF KindAt, ActivateStep, TargetOperations, RolloutOperations
    <3>2. CASE n = 0
      <4>1. s4[1] = "source-quick"
        BY <2>1, <2>3, <2>4, <2>6, FetchesAssumption
      <4> QED BY <3>2, <4>1, FetchesAssumption
    <3>3. CASE n \in 1 .. Fetches
      <4>1. s4[n + 1] = "fetch-target-artifact"
        BY <1>1, <2>3, <2>4, <2>6, <3>3, FetchesAssumption
      <4> QED BY <3>3, <4>1, FetchesAssumption
    <3>4. CASE n \in {Fetches + 1, Fetches + 2, Fetches + 3, Fetches + 4}
      <4>1. s4[n + 1] = four[n - Fetches]
        BY <2>4, <2>6, <3>1, <3>4, FetchesAssumption
      <4>2. CASE n = Fetches + 1
        <5>1. n - Fetches = 1
          BY <4>2, FetchesAssumption
        <5> QED BY <1>3, <4>1, <4>2, <5>1, FetchesAssumption
      <4>3. CASE n = Fetches + 2
        <5>1. n - Fetches = 2
          BY <4>3, FetchesAssumption
        <5> QED BY <1>3, <4>1, <4>3, <5>1, FetchesAssumption
      <4>4. CASE n = Fetches + 3
        <5>1. n - Fetches = 3
          BY <4>4, FetchesAssumption
        <5> QED BY <1>3, <4>1, <4>4, <5>1, FetchesAssumption
      <4>5. CASE n = Fetches + 4
        <5>1. n - Fetches = 4
          BY <4>5, FetchesAssumption
        <5> QED BY <1>3, <4>1, <4>5, <5>1, FetchesAssumption
      <4> QED BY <3>4, <4>2, <4>3, <4>4, <4>5
    <3>5. CASE n = Fetches + 5
      <4>1. s4[n + 1] = "publish-rollback"
        BY <2>1, <2>6, <3>1, <3>5, FetchesAssumption
      <4> QED BY <3>5, <4>1, FetchesAssumption
    <3> QED
      BY <3>1, <3>2, <3>3, <3>4, <3>5, FetchesAssumption
  <2> QED
    <3>1. PlanFor(op) = s4 /\ LenOf(op) = Fetches + 6
      BY <1>5, <2>2, FetchesAssumption DEF PlanFor, LenOf, Plan, ActivateStep
    <3> QED
      BY <1>5, <2>6, <2>7, <3>1, FetchesAssumption
<1>6. CASE op = "rollback"
  <2>1. /\ PlanFor(op) = <<"stop-source", "activate-target", "start-target",
                            "target-quick", "clear-rollback">>
        /\ LenOf(op) = 5
    BY <1>6 DEF PlanFor, Plan, RollbackPlan, LenOf, ActivateStep
  <2>2. /\ KindAt(op, 0) = "stop-source" /\ KindAt(op, 1) = "activate-target"
        /\ KindAt(op, 2) = "start-target" /\ KindAt(op, 3) = "target-quick"
        /\ KindAt(op, 4) = "clear-rollback"
    BY <1>6 DEF KindAt, ActivateStep, TargetOperations, RolloutOperations
  <2> QED
    BY <2>1, <2>2
<1>7. CASE op = "release"
  <2>1. PlanFor(op) = <<"release", "verify-restored">> /\ LenOf(op) = 2
    BY <1>7 DEF PlanFor, ReleasePlan, LenOf
  <2>2. KindAt(op, 0) = "release" /\ KindAt(op, 1) = "verify-restored"
    BY <1>7 DEF KindAt, TargetOperations, RolloutOperations
  <2> QED
    BY <2>1, <2>2
<1>8. CASE op = "profile"
  <2>1. PlanFor(op) = <<"switch-profile">> /\ LenOf(op) = 1
    BY <1>8 DEF PlanFor, LenOf
  <2>2. KindAt(op, 0) = "switch-profile"
    BY <1>8 DEF KindAt, TargetOperations, RolloutOperations
  <2> QED
    BY <2>1, <2>2
<1> QED
  BY <1>4, <1>5, <1>6, <1>7, <1>8 DEF Operations
--------------------------------------------------------------------------------
(* The invariant                                                           *)

Docs ==
  [id : 0 .. MaxTx, schema : {2}, op : Operations \union {"none"}, tier : {"quick"},
   state : States \union {"none"}, owner : SUBSET Commander, ordinal : Nat,
   results : Seq(ActionKinds), fenced : BOOLEAN]

Intents ==
  [op : Operations \union {"none"}, original : Originals,
   target : Model \union {NoModel}, spec : 0 .. MaxTx, previous : PointerDocs(Ids, Nat)]

Cmds ==
  [at : {"idle", "captured", "act", "publish", "wait", "journal", "failing"},
   id : 0 .. MaxTx, state : States \union {"none"}, step : Nat, original : Originals]

Recs ==
  [at : {"idle", "fenced", "planned", "confirm", "restore", "profile", "spawn", "wait",
         "verify", "pointer", "cas", "resolve", "reopen", "close", "failing"},
   id : 0 .. MaxTx, name : Model \union {NoModel}]

VarsOK ==
  /\ slot \in Docs
  /\ intent \in [Ids -> Intents]
  /\ objects \subseteq Ids
  /\ pointer \in PointerDocs(Ids, Nat)
  /\ selection \in Model
  /\ container \in Model \union {NoModel}
  /\ healthy \in BOOLEAN
  /\ candidate \in {"none", "up", "stuck"}
  /\ cmd \in [Commander -> Cmds]
  /\ rec \in [Reconciler -> Recs]
  /\ work \in [Process -> SUBSET Works]

\* The slot has the operation its intent froze.
SlotOK ==
  /\ slot.id = 0 <=> slot.state = "none"
  /\ slot.op = IF slot.id = 0 THEN "none" ELSE intent[slot.id].op
  /\ slot.state # "superseded-verified"

\* An original names the container it found only after the selection.
Found(original) ==
  original.selection \in Model /\ original.model \in {NoModel, original.selection}

\* What transaction id froze: an upgrade its own anchor, a rollback the anchor
\* that was active, and both a runtime they can go back to.
IntentOK(id) ==
  LET it == intent[id]
  IN  /\ it.op = "none" <=> id > slot.id
      /\ it.op # "none" => Found(it.original)
      /\ it.op \in TargetOperations => it.target \in Model
      /\ it.op \in RolloutOperations =>
           /\ it.original.healthy /\ it.original.model \in Model
           /\ it.spec \in objects
           /\ {it.previous.active, it.previous.previous} \subseteq objects \union {0}
           /\ it.previous.active < id
      /\ it.op = "upgrade" => it.spec = id
      /\ it.op = "rollback" =>
           /\ it.spec = it.previous.active
           /\ it.original = intent[it.spec].original
           /\ it.target = it.original.selection

IntentsOK ==
  /\ \A id \in Ids : IntentOK(id)
  /\ \A id \in objects : id <= slot.id /\ intent[id].op = "upgrade"
  /\ {pointer.active, pointer.previous} \subseteq objects \union {0}

\* A command that goes on owns the transaction in the slot, which nobody recovers.
CommandOK(c) ==
  Live(c) =>
    /\ cmd[c].id = slot.id /\ IsActive(slot) /\ slot.owner = {c}
    /\ cmd[c].state = slot.state /\ slot.state # "recovery_required"
    /\ IsRollout(slot) => slot.ordinal = cmd[c].step /\ slot.state \notin RecoveryStates
    /\ slot.op = "release" /\ cmd[c].step = 0 => slot.state \in DOMAIN ReleaseStates
    /\ cmd[c].step <= LenOf(slot.op)
    /\ cmd[c].at \in {"publish", "wait", "journal"} => cmd[c].step < LenOf(slot.op)
    /\ cmd[c].at = "publish" => IsRollout(slot) /\ cmd[c].step + 1 = LenOf(slot.op)
    /\ cmd[c].at = "journal" => IsRollout(slot)
    /\ \A r \in Reconciler : Busy(r) => rec[r].id # slot.id

ReconcilerOK(r) ==
  Busy(r) =>
    /\ rec[r].id \in 1 .. slot.id
    /\ rec[r].id = slot.id /\ IsActive(slot) => slot.state \in RecoveryStates

ControlOK ==
  /\ \A c \in Commander : CommandOK(c)
  /\ \A c \in Commander :
       cmd[c].at = "captured" => cmd[c].id = 0 /\ Found(cmd[c].original)
  /\ \A r \in Reconciler : ReconcilerOK(r)

--------------------------------------------------------------------------------
(* Facts about the actions                                                 *)

\* ProcessesDiffer: no process is both a commander and a reconciler.
LEMMA ProcessesDiffer ==
  /\ Commander \subseteq Process /\ Reconciler \subseteq Process
  /\ \A c \in Commander : c \notin Reconciler
BY RuntimeChangeAssumption DEF Process

\* DoneEffect: an action that is done moves its own command alone.
LEMMA DoneEffect ==
  ASSUME VarsOK, NEW c \in Commander, Done(c)
  PROVE  /\ cmd' \in [Commander -> Cmds]
         /\ \A d \in Commander \ {c} : cmd'[d] = cmd[d]
         /\ cmd'[c].id = cmd[c].id /\ cmd'[c].state = cmd[c].state
         /\ cmd'[c].original = cmd[c].original
         /\ IF IsMineRollout(c)
            THEN cmd'[c].at = "journal" /\ cmd'[c].step = cmd[c].step
            ELSE cmd'[c].at = "act" /\ cmd'[c].step = cmd[c].step + 1
<1>1. cmd \in [Commander -> Cmds] /\ cmd[c].step + 1 \in Nat
  BY DEF VarsOK, Cmds
<1>2. CASE IsMineRollout(c)
  BY <1>1, <1>2 DEF Done, Cmds
<1>3. CASE ~IsMineRollout(c)
  <2>1. cmd' = [cmd EXCEPT ![c].at = "act", ![c].step = @ + 1]
    BY <1>3 DEF Done
  <2> QED
    BY <1>1, <1>3, <2>1 DEF Cmds
<1> QED
  BY <1>2, <1>3

\* WorkOverEffect: work that is over is gone, and only a process that waited for it
\* learns how it ended.
LEMMA WorkOverEffect ==
  ASSUME VarsOK, NEW p \in Process, NEW ok \in BOOLEAN, WorkOver(p, ok)
  PROVE  /\ work' = [work EXCEPT ![p] = {}]
         /\ cmd' \in [Commander -> Cmds] /\ rec' \in [Reconciler -> Recs]
         /\ \A d \in Commander : d # p \/ cmd[d].at # "wait" => cmd'[d] = cmd[d]
         /\ \A r \in Reconciler : r # p \/ rec[r].at # "wait" => rec'[r] = rec[r]
         /\ p \in Commander /\ cmd[p].at = "wait" =>
              /\ cmd'[p].id = cmd[p].id /\ cmd'[p].state = cmd[p].state
              /\ cmd'[p].original = cmd[p].original
              /\ ~ok => cmd'[p].at = "failing" /\ cmd'[p].step = cmd[p].step
              /\ ok /\ IsMineRollout(p) =>
                   cmd'[p].at = "journal" /\ cmd'[p].step = cmd[p].step
              /\ ok /\ ~IsMineRollout(p) =>
                   cmd'[p].at = "act" /\ cmd'[p].step = cmd[p].step + 1
         /\ p \in Reconciler /\ rec[p].at = "wait" =>
              /\ rec'[p].id = rec[p].id
              /\ rec'[p].at = IF ok THEN "verify" ELSE "failing"
<1>1. work' = [work EXCEPT ![p] = {}]
  BY DEF WorkOver
<1>2. CASE p \in Commander /\ cmd[p].at = "wait"
  <2>1. UNCHANGED rec
    BY <1>2, ProcessesDiffer DEF WorkOver, RecAfter
  <2>2. CASE ok
    <3>1. Done(p)
      BY <1>2, <2>2 DEF WorkOver, CmdAfter
    <3> QED
      BY <1>1, <1>2, <2>1, <2>2, <3>1, DoneEffect, ProcessesDiffer DEF VarsOK
  <2>3. CASE ~ok
    <3>1. cmd' = [cmd EXCEPT ![p].at = "failing"]
      BY <1>2, <2>3 DEF WorkOver, CmdAfter
    <3> QED
      BY <1>1, <1>2, <2>1, <2>3, <3>1, ProcessesDiffer DEF VarsOK, Cmds
  <2> QED
    BY <2>2, <2>3
<1>3. CASE p \in Reconciler /\ rec[p].at = "wait"
  <2>1. UNCHANGED cmd
    BY <1>3, ProcessesDiffer DEF WorkOver, CmdAfter
  <2>2. rec' = [rec EXCEPT ![p].at = IF ok THEN "verify" ELSE "failing"]
    BY <1>3 DEF WorkOver, RecAfter
  <2> QED
    BY <1>1, <1>3, <2>1, <2>2, ProcessesDiffer DEF VarsOK, Recs
<1>4. CASE ~(p \in Commander /\ cmd[p].at = "wait") /\ ~(p \in Reconciler /\ rec[p].at = "wait")
  BY <1>1, <1>4 DEF WorkOver, CmdAfter, RecAfter, VarsOK
<1> QED
  BY <1>2, <1>3, <1>4

\* How release-candidate.sh goes on after its step.
NextStep(w, next) ==
  /\ next \in Works
  /\ next.at = "running" /\ next.req = w.req
  /\ next.does \in ReleaseSteps
  /\ next.script \in {w.script, "failing"}

\* ReleaseStepEffect: a step of the release script changes the selection never, and
\* either is its last or is followed by another.
LEMMA ReleaseStepEffect ==
  ASSUME VarsOK, NEW p \in Process, NEW w \in work[p], w.at = "running", ReleaseStep(p, w)
  PROVE  /\ w.does \in ReleaseSteps \union {"release"}
         /\ selection' = selection
         /\ container' \in Model \union {NoModel} /\ healthy' \in BOOLEAN
         /\ candidate' \in {"none", "up", "stuck"}
         /\ \/ \E ok \in BOOLEAN : WorkOver(p, ok)
            \/ /\ UNCHANGED <<cmd, rec>>
               /\ w.script # "killed"
               /\ \E next : NextStep(w, next) /\ work' = [work EXCEPT ![p] = {next}]
<1>0. w \in Works
  BY DEF VarsOK
<1>1. \A does \in ReleaseSteps :
        /\ NextStep(w, [w EXCEPT !.does = does])
        /\ NextStep(w, Failing([w EXCEPT !.does = does]))
  BY <1>0 DEF NextStep, Failing, Works
<1>2. \A model \in Model \union {NoModel}, does \in ReleaseSteps :
        /\ NextStep(w, [[w EXCEPT !.model = model] EXCEPT !.does = does])
        /\ NextStep(w, Failing([[w EXCEPT !.model = model] EXCEPT !.does = does]))
  BY <1>0 DEF NextStep, Failing, Works
<1>3. ASSUME NEW next, NextStep(w, next), ScriptGoesOn(p, w, next)
      PROVE  \/ \E ok \in BOOLEAN : WorkOver(p, ok)
             \/ /\ UNCHANGED <<cmd, rec>>
                /\ w.script # "killed"
                /\ \E n : NextStep(w, n) /\ work' = [work EXCEPT ![p] = {n}]
  BY <1>3 DEF ScriptGoesOn
<1>4. CASE ReleaseBegins(p, w)
  <2>1. PICK model \in Model \union {NoModel} :
          \E next \in {[[w EXCEPT !.model = model] EXCEPT !.does = "stop-production"],
                       Failing([[w EXCEPT !.model = model] EXCEPT !.does = "restore-production"])} :
            ScriptGoesOn(p, w, next)
    BY <1>4 DEF ReleaseBegins, VarsOK
  <2>2. \E next : NextStep(w, next) /\ ScriptGoesOn(p, w, next)
    BY <1>2, <2>1 DEF ReleaseSteps
  <2> QED
    BY <1>3, <1>4, <2>1, <2>2 DEF ReleaseBegins, VarsOK, runtime
<1>5. CASE ReleaseStops(p, w)
  <2>1. \E next : NextStep(w, next) /\ ScriptGoesOn(p, w, next)
    BY <1>1, <1>5 DEF ReleaseStops, ReleaseSteps
  <2> QED
    BY <1>3, <1>5, <2>1 DEF ReleaseStops, VarsOK, ReleaseSteps
<1>6. CASE ReleaseStartsCandidate(p, w)
  <2>1. \E next : NextStep(w, next) /\ ScriptGoesOn(p, w, next)
    BY <1>1, <1>6 DEF ReleaseStartsCandidate, ReleaseSteps
  <2> QED
    BY <1>3, <1>6, <2>1 DEF ReleaseStartsCandidate, VarsOK, ReleaseSteps
<1>7. CASE ReleaseAccepts(p, w)
  <2>1. \E next : NextStep(w, next) /\ ScriptGoesOn(p, w, next)
    BY <1>1, <1>7 DEF ReleaseAccepts, ReleaseSteps
  <2> QED
    BY <1>3, <1>7, <2>1 DEF ReleaseAccepts, VarsOK, ReleaseSteps, runtime
<1>8. CASE ReleaseStopsCandidate(p, w)
  <2>1. \E next : NextStep(w, next) /\ ScriptGoesOn(p, w, next)
    BY <1>1, <1>8 DEF ReleaseStopsCandidate, ReleaseSteps
  <2> QED
    BY <1>3, <1>8, <2>1 DEF ReleaseStopsCandidate, VarsOK, ReleaseSteps, StopFailed
<1>9. CASE ReleaseRestores(p, w)
  <2>1. \E ok \in BOOLEAN : WorkOver(p, ok)
    BY <1>9 DEF ReleaseRestores
  <2> QED
    BY <1>9, <2>1 DEF ReleaseRestores, VarsOK, ReleaseSteps
<1> QED
  BY <1>4, <1>5, <1>6, <1>7, <1>8, <1>9 DEF ReleaseStep
--------------------------------------------------------------------------------
(* The work of the processes                                               *)

\* What a command started, and under which authority.
CommandWork(w) ==
  LET op == intent[w.req.id].op
  IN  /\ w.req.id \in 1 .. slot.id
      /\ w.at = "spawned" => w.script = "passing" /\ w.does \notin ReleaseSteps
      /\ op \in RolloutOperations =>
           /\ w.does \in {"stop-source", "activate-target", "start-target"}
           /\ w.req.mode = "action" /\ w.req.kind = w.does
           /\ w.req.ordinal < LenOf(op) /\ KindAt(op, w.req.ordinal) = w.does
      /\ op \notin RolloutOperations => w.req = Presented("bound", w.req.id, 0, "none")
      /\ op = "deploy" => w.does \in {"activate-target", "start-target"}
      /\ op = "release" => w.does \in {"release"} \union ReleaseSteps
      /\ op = "profile" => w.does = "switch-profile"
      /\ op \in TargetOperations => w.model = intent[w.req.id].target

ReconcilerWork(w) ==
  /\ w.req.id \in 1 .. slot.id
  /\ w.does = "restore" /\ w.req = Presented("restore", w.req.id, 0, "none")

\* The step of its plan that this work carries out.
CarriesOut(w, kind) ==
  IF w.does \in ReleaseSteps THEN kind = "release" ELSE w.does = kind

\* A process has one work at most, and one work of all has the locks, under the
\* authority it came with; while a command goes on nothing else works on its
\* transaction.
WorkOK(p) ==
  /\ \A v, w \in work[p] : v = w
  /\ p \in Commander => \A w \in work[p] : CommandWork(w)
  /\ p \in Reconciler => \A w \in work[p] : ReconcilerWork(w)
  /\ \A w \in work[p] : w.at = "running" => Authorized(slot, w.req)

Exclusive ==
  \A p, q \in Process : \A v \in work[p], w \in work[q] :
    v.at = "running" /\ w.at = "running" => p = q

WorkOfLive(c) ==
  Live(c) =>
    /\ \A p \in Process \ {c} : \A w \in work[p] : w.req.id < slot.id
    /\ cmd[c].at = "wait" => \E w \in work[c] :
         /\ w.req.id = slot.id /\ w.script # "killed"
         /\ CarriesOut(w, KindAt(slot.op, cmd[c].step))
    /\ cmd[c].at \in {"act", "publish", "journal"} =>
         \A w \in work[c] : w.req.id < slot.id

WorksOK ==
  /\ \A p \in Process : WorkOK(p)
  /\ Exclusive
  /\ \A c \in Commander : WorkOfLive(c)

BaseInv == VarsOK /\ SlotOK /\ IntentsOK /\ ControlOK /\ WorksOK

\* ActsEffect: what running work may change, whatever it does.
LEMMA ActsEffect ==
  ASSUME BaseInv, NEW p \in Process, WorkActs(p)
  PROVE  /\ UNCHANGED <<slot, intent, objects, pointer>>
         /\ \E w \in work[p] :
              /\ w.at = "running"
              /\ \/ \E ok \in BOOLEAN : WorkOver(p, ok)
                 \/ /\ UNCHANGED <<cmd, rec>>
                    /\ w.does \in ReleaseSteps \union {"release"}
                    /\ w.script # "killed"
                    /\ \E next : NextStep(w, next) /\ work' = [work EXCEPT ![p] = {next}]
              /\ \/ selection' = selection
                 \/ w.does = "activate-target" /\ selection' = w.model /\ w.model \in Model
              /\ container' \in Model \union {NoModel} /\ healthy' \in BOOLEAN
              /\ candidate' \in {"none", "up", "stuck"}
<1>1. UNCHANGED <<slot, intent, objects, pointer>>
  BY DEF WorkActs, store
<1>2. PICK w \in work[p] :
        /\ w.at = "running"
        /\ \/ WorkSelects(p, w) \/ WorkStops(p, w) \/ WorkStarts(p, w)
           \/ WorkRestores(p, w) \/ ReleaseStep(p, w)
  BY DEF WorkActs
<1>3. VarsOK
  BY DEF BaseInv
<1>4. CASE WorkSelects(p, w)
  <2>1. w.model \in Model
    <3>1. p \in Commander
      BY <1>4 DEF BaseInv, WorksOK, WorkOK, ReconcilerWork, WorkSelects, Process
    <3>2. CommandWork(w)
      BY <3>1 DEF BaseInv, WorksOK, WorkOK, Process
    <3>3. w.req.id \in Ids /\ w.req.id <= slot.id
      BY <3>2, RuntimeChangeAssumption DEF BaseInv, VarsOK, Docs, CommandWork, Ids
    <3>4. intent[w.req.id].op \in TargetOperations
      <4>1. intent[w.req.id].op \in Operations \union {"none"}
        BY <1>3, <3>3 DEF VarsOK, Intents
      <4>2. intent[w.req.id].op # "none"
        BY <3>3, <1>3 DEF BaseInv, IntentsOK, IntentOK, VarsOK, Docs, Ids
      <4> QED
        BY <1>4, <3>2, <4>1, <4>2
        DEF CommandWork, WorkSelects, Operations, TargetOperations, ReleaseSteps
    <3> QED
      BY <3>2, <3>3, <3>4 DEF CommandWork, BaseInv, IntentsOK, IntentOK
  <2> QED
    BY <1>1, <1>2, <1>3, <1>4, <2>1 DEF WorkSelects, VarsOK
<1>5. CASE WorkStops(p, w)
  BY <1>1, <1>2, <1>3, <1>5 DEF WorkStops, VarsOK
<1>6. CASE WorkStarts(p, w)
  BY <1>1, <1>2, <1>3, <1>6 DEF WorkStarts, VarsOK
<1>7. CASE WorkRestores(p, w)
  BY <1>1, <1>2, <1>3, <1>7 DEF WorkRestores, VarsOK, StopFailed
<1>8. CASE ReleaseStep(p, w)
  BY <1>1, <1>2, <1>3, <1>8, ReleaseStepEffect
<1> QED
  BY <1>2, <1>4, <1>5, <1>6, <1>7, <1>8
--------------------------------------------------------------------------------
(* What the invariant says of a process that takes a step                  *)

\* MineFacts: the plan of a command, and what it does next.
LEMMA MineFacts ==
  ASSUME BaseInv, NEW c \in Commander, Live(c)
  PROVE  /\ cmd[c].id = slot.id /\ slot.id \in Ids
         /\ Mine(c) = intent[slot.id] /\ Mine(c).op = slot.op
         /\ slot.op \in Operations
         /\ IsMineRollout(c) <=> IsRollout(slot)
         /\ LenOf(slot.op) \in Nat /\ cmd[c].step \in Nat
         /\ HasNext(c) <=> cmd[c].step < LenOf(slot.op)
         /\ HasNext(c) => NextKind(c) = KindAt(slot.op, cmd[c].step)
<1>1. cmd[c].id = slot.id /\ slot.id # 0 /\ cmd[c].step \in Nat
  BY DEF BaseInv, ControlOK, CommandOK, VarsOK, Cmds, IsActive
<1>2. slot.id \in Ids
  BY <1>1, RuntimeChangeAssumption DEF BaseInv, VarsOK, Docs, Ids
<1>3. Mine(c) = intent[slot.id] /\ Mine(c).op = slot.op
  BY <1>1 DEF Mine, BaseInv, SlotOK
<1>4. slot.op \in Operations
  <2>1. intent[slot.id].op # "none"
    BY <1>2 DEF BaseInv, IntentsOK, IntentOK, Ids
  <2> QED
    BY <1>2, <1>3, <2>1 DEF BaseInv, VarsOK, Intents
<1>5. Actions(c) = PlanFor(slot.op)
  BY <1>3, <1>4 DEF Actions, PlanFor, Operations
<1>6. /\ Len(Actions(c)) = LenOf(slot.op)
      /\ \A n \in 0 .. LenOf(slot.op) - 1 : Actions(c)[n + 1] = KindAt(slot.op, n)
  BY <1>4, <1>5, PlansAre
<1>7. LenOf(slot.op) \in Nat
  BY FetchesAssumption DEF LenOf, ActivateStep
<1>8. HasNext(c) <=> cmd[c].step < LenOf(slot.op)
  BY <1>6 DEF HasNext
<1>9. HasNext(c) => NextKind(c) = KindAt(slot.op, cmd[c].step)
  BY <1>1, <1>6, <1>7, <1>8 DEF NextKind
<1> QED
  BY <1>1, <1>2, <1>3, <1>4, <1>7, <1>8, <1>9 DEF IsMineRollout, IsRollout

\* TransitionedFacts: a transition changes the state alone.
LEMMA TransitionedFacts ==
  ASSUME VarsOK, NEW state \in States
  PROVE  /\ Transitioned(slot, state) \in Docs
         /\ Transitioned(slot, state).state = state
         /\ Transitioned(slot, state).id = slot.id
         /\ Transitioned(slot, state).op = slot.op
         /\ Transitioned(slot, state).tier = slot.tier
         /\ Transitioned(slot, state).schema = slot.schema
         /\ Transitioned(slot, state).owner = slot.owner
         /\ Transitioned(slot, state).ordinal = slot.ordinal
BY DEF VarsOK, Docs, Transitioned

\* LegalTargets: a legal transition of a transaction ends in a state, and does not
\* begin in a terminal one.
LEMMA LegalTargets ==
  ASSUME BaseInv, slot.id # 0, NEW state, CanTransition(slot, state)
  PROVE  /\ state \in States /\ state \in AllowedTransitions[slot.state]
         /\ slot.state \in States \ TerminalStates
<1>1. slot.state \in States
  BY DEF BaseInv, SlotOK, VarsOK, Docs
<1>2. state \in AllowedTransitions[slot.state]
  BY DEF CanTransition
<1>3. AllowedTransitions[slot.state] \subseteq States
  BY <1>1 DEF AllowedTransitions, States
<1>4. slot.state \notin TerminalStates
  BY <1>1, <1>2 DEF AllowedTransitions, States, TerminalStates
<1> QED
  BY <1>1, <1>2, <1>3, <1>4

\* RolloutKinds: a rollout plans rollout actions.
LEMMA RolloutKinds ==
  ASSUME NEW op \in RolloutOperations, NEW n PROVE KindAt(op, n) \in ActionKinds
BY DEF KindAt, TargetOperations, RolloutOperations, ActionKinds

Places ==
  {"idle", "fenced", "planned", "confirm", "restore", "profile", "spawn", "wait",
   "verify", "pointer", "cas", "resolve", "reopen", "close", "failing"}

\* GoesEffect: a reconciler that goes to a place moves itself alone.
LEMMA GoesEffect ==
  ASSUME VarsOK, NEW r \in Reconciler, NEW at \in Places, Goes(r, at)
  PROVE  /\ rec' \in [Reconciler -> Recs]
         /\ rec'[r].at = at /\ rec'[r].id = rec[r].id
         /\ \A s \in Reconciler \ {r} : rec'[s] = rec[s]
BY DEF VarsOK, Goes, Recs, Places

\* AwayEffect: so does one that is through, or begins.
LEMMA AwayEffect ==
  ASSUME VarsOK, NEW r \in Reconciler,
         \/ rec' = [rec EXCEPT ![r] = Away]
         \/ rec' = [rec EXCEPT ![r] = [Away EXCEPT !.at = "planned", !.id = slot.id]]
         \/ rec' = [rec EXCEPT ![r].at = "spawn", ![r].name = selection]
  PROVE  /\ rec' \in [Reconciler -> Recs]
         /\ \A s \in Reconciler \ {r} : rec'[s] = rec[s]
<1>1. Away \in Recs /\ slot.id \in 0 .. MaxTx /\ selection \in Model \union {NoModel}
  BY RuntimeChangeAssumption DEF VarsOK, Away, Recs, Docs
<1>2. \A id \in 0 .. MaxTx : [Away EXCEPT !.at = "planned", !.id = id] \in Recs
  BY <1>1 DEF Recs
<1>3. rec \in [Reconciler -> Recs]
  BY DEF VarsOK
<1>4. CASE rec' = [rec EXCEPT ![r] = Away]
  BY <1>1, <1>3, <1>4
<1>5. CASE rec' = [rec EXCEPT ![r] = [Away EXCEPT !.at = "planned", !.id = slot.id]]
  BY <1>1, <1>2, <1>3, <1>5
<1>6. CASE rec' = [rec EXCEPT ![r].at = "spawn", ![r].name = selection]
  BY <1>1, <1>3, <1>6 DEF Recs
<1> QED
  BY <1>4, <1>5, <1>6

\* AtEffect: a command that only goes to another place.
LEMMA AtEffect ==
  ASSUME VarsOK, NEW c \in Commander, NEW at \in {"publish", "wait", "journal", "failing"},
         cmd' = [cmd EXCEPT ![c].at = at]
  PROVE  /\ cmd' \in [Commander -> Cmds]
         /\ cmd'[c].at = at /\ cmd'[c].id = cmd[c].id /\ cmd'[c].state = cmd[c].state
         /\ cmd'[c].step = cmd[c].step /\ cmd'[c].original = cmd[c].original
         /\ \A d \in Commander \ {c} : cmd'[d] = cmd[d]
BY DEF VarsOK, Cmds

\* QuietEffect: a command that is over.
LEMMA QuietEffect ==
  ASSUME VarsOK, NEW c \in Commander, cmd' = [cmd EXCEPT ![c] = Quiet]
  PROVE  /\ cmd' \in [Commander -> Cmds]
         /\ cmd'[c] = Quiet /\ cmd'[c].at = "idle" /\ cmd'[c].id = 0
         /\ \A d \in Commander \ {c} : cmd'[d] = cmd[d]
<1>1. Quiet \in Cmds /\ Quiet.at = "idle" /\ Quiet.id = 0
  BY RuntimeChangeAssumption DEF Quiet, Cmds, Nothing, Originals
<1> QED
  BY <1>1 DEF VarsOK

\* CurrentFacts: the runtime as a command finds it.
LEMMA CurrentFacts ==
  ASSUME VarsOK
  PROVE  Current \in Originals /\ Found(Current)
BY DEF VarsOK, Current, Originals, Found

\* BeginFacts: the transaction after the one in the slot.
LEMMA BeginFacts ==
  ASSUME VarsOK, SlotOK, NEW c \in Commander, NEW frozen \in Intents, frozen.op \in Operations,
         BeginWith(c, frozen)
  PROVE  LET id == slot.id + 1
         IN  /\ id \in Ids /\ ~IsActive(slot) /\ LocksFree
             /\ slot' = NewDoc(id, frozen.op, "quick", {c}) /\ slot' \in Docs
             /\ slot'.id = id /\ slot'.op = frozen.op /\ slot'.state = "planned"
             /\ slot'.ordinal = 0 /\ slot'.owner = {c} /\ slot'.schema = 2
             /\ intent' \in [Ids -> Intents] /\ intent'[id] = frozen
             /\ \A i \in Ids \ {id} : intent'[i] = intent[i]
             /\ cmd' \in [Commander -> Cmds]
             /\ cmd'[c].at = "act" /\ cmd'[c].id = id /\ cmd'[c].state = "planned"
             /\ cmd'[c].step = 0
             /\ \A d \in Commander \ {c} : cmd'[d] = cmd[d]
             /\ UNCHANGED <<pointer, selection, container, healthy, candidate, rec, work>>
<1> DEFINE id == slot.id + 1
<1>1. id \in Ids /\ id \in 0 .. MaxTx
  BY RuntimeChangeAssumption DEF VarsOK, Docs, BeginWith, Ids
<1>2. slot' = NewDoc(id, frozen.op, "quick", {c})
  BY DEF BeginWith
<1>3. /\ slot' \in Docs /\ slot'.id = id /\ slot'.op = frozen.op /\ slot'.state = "planned"
      /\ slot'.ordinal = 0 /\ slot'.owner = {c} /\ slot'.schema = 2
  <2>1. <<>> \in Seq(ActionKinds)
    OBVIOUS
  <2> QED
    BY <1>1, <1>2, <2>1 DEF NewDoc, Docs, States
<1>4. intent' \in [Ids -> Intents] /\ intent'[id] = frozen
      /\ \A i \in Ids \ {id} : intent'[i] = intent[i]
  BY <1>1 DEF BeginWith, VarsOK
<1>5. cmd' = [cmd EXCEPT ![c] = [Quiet EXCEPT !.at = "act", !.id = id, !.state = "planned"]]
  BY DEF BeginWith
<1>6. \A i \in 0 .. MaxTx :
        LET new == [Quiet EXCEPT !.at = "act", !.id = i, !.state = "planned"]
        IN  new \in Cmds /\ new.at = "act" /\ new.id = i /\ new.state = "planned" /\ new.step = 0
  BY DEF Quiet, Cmds, Nothing, Originals, States
<1>7. /\ cmd' \in [Commander -> Cmds]
      /\ cmd'[c].at = "act" /\ cmd'[c].id = id /\ cmd'[c].state = "planned"
      /\ cmd'[c].step = 0
      /\ \A d \in Commander \ {c} : cmd'[d] = cmd[d]
  <2> HIDE DEF id
  <2> QED
    BY <1>1, <1>5, <1>6 DEF VarsOK
<1> QED
  BY <1>1, <1>2, <1>3, <1>4, <1>7 DEF BeginWith, runtime
Begins(c) ==
  \/ \E target \in Model : BeginDeploy(c, target) \/ BeginUpgrade(c, target)
  \/ BeginRollback(c) \/ BeginRelease(c) \/ BeginProfile(c)

\* BeginsEffect: whatever begins freezes what IntentOK asks for.
LEMMA BeginsEffect ==
  ASSUME BaseInv, NEW c \in Commander, Begins(c)
  PROVE  \E frozen \in Intents :
           /\ BeginWith(c, frozen) /\ frozen.op \in Operations
           /\ cmd[c].at \in {"idle", "captured"}
           /\ Found(frozen.original)
           /\ frozen.op \in TargetOperations => frozen.target \in Model
           /\ frozen.op \in RolloutOperations =>
                /\ frozen.original.healthy /\ frozen.original.model \in Model
                /\ frozen.spec \in objects' /\ frozen.previous = pointer
           /\ frozen.op = "upgrade" => frozen.spec = slot.id + 1
           /\ frozen.op = "rollback" =>
                /\ frozen.spec = pointer.active /\ pointer.active \in objects
                /\ frozen.original = intent[frozen.spec].original
                /\ frozen.target = frozen.original.selection
           /\ objects' = IF frozen.op = "upgrade" THEN objects \union {slot.id + 1}
                                                  ELSE objects
<1> USE DEF BaseInv
<1>1. /\ NoIntent \in Intents /\ pointer \in PointerDocs(Ids, Nat)
      /\ cmd[c].original \in Originals /\ Current \in Originals /\ Found(Current)
      /\ pointer.active \in 0 .. MaxTx
  <2>1. NoIntent \in Intents
    BY RuntimeChangeAssumption
    DEF NoIntent, Nothing, Intents, Originals, NoPointer, PointerDocs
  <2> QED
    BY <2>1, CurrentFacts, RuntimeChangeAssumption DEF VarsOK, Cmds, PointerDocs, Ids
<1>2. \A original \in Originals, op \in Operations, target \in Model \union {NoModel} :
        /\ [NoIntent EXCEPT !.op = op, !.original = original] \in Intents
        /\ [NoIntent EXCEPT !.op = op, !.target = target, !.original = original] \in Intents
  BY <1>1 DEF Intents
<1>3. ASSUME NEW target \in Model, BeginDeploy(c, target)
      PROVE  LET frozen == [NoIntent EXCEPT !.op = "deploy", !.target = target,
                                            !.original = cmd[c].original]
             IN  /\ frozen \in Intents /\ BeginWith(c, frozen) /\ frozen.op = "deploy"
                 /\ frozen.target \in Model /\ Found(frozen.original)
                 /\ objects' = objects /\ cmd[c].at = "captured"
  <2>1. [NoIntent EXCEPT !.op = "deploy", !.target = target, !.original = cmd[c].original]
          \in Intents
    BY <1>1, <1>2 DEF Operations
  <2> QED
    BY <1>3, <2>1 DEF BeginDeploy, NoIntent, ControlOK
<1>4. ASSUME NEW op \in {"release", "profile"}, cmd[c].at = "captured",
             BeginWith(c, [NoIntent EXCEPT !.op = op, !.original = cmd[c].original])
      PROVE  LET frozen == [NoIntent EXCEPT !.op = op, !.original = cmd[c].original]
             IN  /\ frozen \in Intents /\ BeginWith(c, frozen) /\ frozen.op = op
                 /\ Found(frozen.original)
  <2>1. [NoIntent EXCEPT !.op = op, !.original = cmd[c].original] \in Intents
    BY <1>1, <1>2 DEF Operations
  <2> QED
    BY <1>4, <2>1 DEF NoIntent, ControlOK
<1>5. \A original \in Originals, op \in RolloutOperations, target \in Model \union {NoModel},
         spec \in 0 .. MaxTx : RolloutIntent(op, original, target, spec) \in Intents
  BY <1>1 DEF RolloutIntent, Intents, Operations, RolloutOperations
<1>6. ASSUME NEW target \in Model, BeginUpgrade(c, target)
      PROVE  LET frozen == RolloutIntent("upgrade", Current, target, slot.id + 1)
             IN  /\ frozen \in Intents /\ BeginWith(c, frozen) /\ frozen.op = "upgrade"
                 /\ frozen.target \in Model /\ frozen.original = Current
                 /\ frozen.original.healthy /\ frozen.original.model \in Model
                 /\ frozen.spec = slot.id + 1 /\ frozen.previous = pointer
                 /\ objects' = objects \union {slot.id + 1} /\ cmd[c].at = "idle"
  <2>1. slot.id + 1 \in 0 .. MaxTx
    BY <1>6, RuntimeChangeAssumption DEF BeginUpgrade, BeginWith, VarsOK, Docs
  <2>2. RolloutIntent("upgrade", Current, target, slot.id + 1) \in Intents
    BY <1>1, <1>5, <2>1 DEF RolloutOperations
  <2>3. Current.healthy /\ Current.model \in Model
    BY <1>6 DEF BeginUpgrade, Current, VarsOK
  <2> QED
    BY <1>6, <2>2, <2>3 DEF BeginUpgrade, RolloutIntent
<1>7. CASE BeginRollback(c)
  <2>1. pointer.active \in objects
    BY <1>7 DEF BeginRollback, AnchorIsVerified
  <2>2. pointer.active \in Ids /\ intent[pointer.active].op = "upgrade"
    BY <2>1 DEF IntentsOK, VarsOK
  <2> DEFINE original == intent[pointer.active].original
             frozen == RolloutIntent("rollback", original, original.selection, pointer.active)
  <2>3. /\ original \in Originals /\ Found(original) /\ original.healthy
        /\ original.model \in Model
    BY <2>2 DEF VarsOK, Intents, IntentsOK, IntentOK, RolloutOperations
  <2>4. frozen \in Intents
    BY <1>1, <1>5, <2>3 DEF Found, RolloutOperations
  <2>5. BeginWith(c, frozen) /\ cmd[c].at = "idle" /\ objects' = objects
    BY <1>7 DEF BeginRollback, AnchorOriginal
  <2>6. /\ frozen.op = "rollback" /\ frozen.original = original
        /\ frozen.target = original.selection /\ frozen.spec = pointer.active
        /\ frozen.previous = pointer
    BY DEF RolloutIntent
  <2>7. original.selection \in Model
    BY <2>3 DEF Found
  <2> HIDE DEF frozen
  <2>8. frozen.op = "rollback" /\ frozen.original = intent[frozen.spec].original
    BY <2>6
  <2> HIDE DEF original
  <2> WITNESS frozen \in Intents
  <2> QED
    BY <2>1, <2>3, <2>5, <2>6, <2>7, <2>8 DEF Operations
<1>8. CASE \E target \in Model : BeginDeploy(c, target)
  BY <1>3, <1>8 DEF Operations, RolloutOperations
<1>9. CASE \E target \in Model : BeginUpgrade(c, target)
  BY <1>1, <1>6, <1>9 DEF Operations
<1>10. CASE BeginRelease(c)
  BY <1>4, <1>10 DEF BeginRelease, Operations, RolloutOperations, TargetOperations
<1>11. CASE BeginProfile(c)
  BY <1>4, <1>11 DEF BeginProfile, Operations, RolloutOperations, TargetOperations
<1> QED
  BY <1>7, <1>8, <1>9, <1>10, <1>11 DEF Begins
\* RecsAreTyped: every step leaves every reconciler at a place of its program.
LEMMA RecsAreTyped == BaseInv /\ [Next]_vars => rec' \in [Reconciler -> Recs]
<1> SUFFICES ASSUME BaseInv, [Next]_vars PROVE rec' \in [Reconciler -> Recs]
  OBVIOUS
<1>0. VarsOK /\ SlotOK /\ IntentsOK /\ ControlOK /\ WorksOK
  BY DEF BaseInv
<1>1. ASSUME NEW c \in Commander, CommandStep(c) PROVE rec' \in [Reconciler -> Recs]
  <2>1. CASE CaptureOriginal(c)
    BY <2>1, <1>0 DEF VarsOK, CaptureOriginal
  <2>2. CASE Begins(c)
    BY <2>2, <1>0, BeginsEffect, BeginFacts DEF VarsOK
  <2>3. CASE Enter(c)
    BY <2>3, <1>0 DEF VarsOK, CommandTransition, Enter
  <2>4. CASE Fetch(c)
    BY <2>4, <1>0 DEF VarsOK, Fetch
  <2>5. CASE QuickPasses(c)
    BY <2>5, <1>0 DEF VarsOK, QuickPasses
  <2>6. CASE SpawnWork(c)
    BY <2>6, <1>0 DEF VarsOK, SpawnWork
  <2>7. CASE ActivateAnchor(c)
    BY <2>7, <1>0 DEF VarsOK, ActivateAnchor
  <2>8. CASE VerifyRelease(c)
    BY <2>8, <1>0 DEF VarsOK, VerifyRelease
  <2>9. CASE AssertPointerAction(c)
    BY <2>9, <1>0 DEF VarsOK, AssertPointerAction
  <2>10. CASE PublishRollback(c)
    BY <2>10, <1>0 DEF VarsOK, PublishRollback
  <2>11. CASE ClearRollback(c)
    BY <2>11, <1>0 DEF VarsOK, ClearRollback
  <2>12. CASE Journal(c)
    BY <2>12, <1>0 DEF VarsOK, Journal
  <2>13. CASE Complete(c)
    BY <2>13, <1>0 DEF VarsOK, CommandTransition, Complete
  <2>14. CASE Raise(c)
    BY <2>14, <1>0 DEF VarsOK, Raise
  <2>15. CASE Mark(c)
    BY <2>15, <1>0 DEF VarsOK, Mark
  <2>16. CASE Die(c)
    BY <2>16, <1>0 DEF VarsOK, Die
  <2> QED
    BY <1>1, <2>1, <2>2, <2>3, <2>4, <2>5, <2>6, <2>7, <2>8, <2>9, <2>10, <2>11,
       <2>12, <2>13, <2>14, <2>15, <2>16 DEF CommandStep, Begins
<1>2. ASSUME NEW p \in Process, WorkStep(p) PROVE rec' \in [Reconciler -> Recs]
  <2>1. CASE WorkEnters(p)
    BY <2>1, <1>0 DEF VarsOK, WorkEnters
  <2>2. CASE WorkFails(p)
    BY <1>0, <2>2, WorkOverEffect DEF WorkFails
  <2>3. CASE WorkActs(p)
    BY <1>0, <2>3, ActsEffect, WorkOverEffect DEF VarsOK
  <2> QED
    BY <1>2, <2>1, <2>2, <2>3 DEF WorkStep
<1>3. ASSUME NEW r \in Reconciler, RecoveryStep(r) PROVE rec' \in [Reconciler -> Recs]
  <2>1. CASE FenceOrphan(r)
    BY <2>1, <1>0, GoesEffect DEF Places, FenceOrphan
  <2>2. CASE ReadPlan(r)
    BY <2>2, <1>0, AwayEffect DEF ReadPlan
  <2>3. CASE Classify(r)
    BY <2>3, <1>0, GoesEffect DEF Places, Classify
  <2>4. CASE Confirm(r)
    BY <2>4, <1>0, GoesEffect DEF Places, Confirm
  <2>5. CASE BeginRestoring(r)
    BY <2>5, <1>0, GoesEffect DEF Places, BeginRestoring
  <2>6. CASE RestoreProfile(r)
    BY <2>6, <1>0, AwayEffect DEF RestoreProfile
  <2>7. CASE SpawnRestore(r)
    BY <2>7, <1>0, GoesEffect DEF Places, SpawnRestore
  <2>8. CASE Verify(r)
    BY <2>8, <1>0, GoesEffect DEF Places, Verify
  <2>9. CASE ReadPointer(r)
    BY <2>9, <1>0, GoesEffect DEF Places, ReadPointer
  <2>10. CASE RestorePointer(r)
    BY <2>10, <1>0, GoesEffect DEF Places, RestorePointer
  <2>11. CASE Resolve(r)
    BY <2>11, <1>0, GoesEffect DEF Places, Resolve
  <2>12. CASE Reopen(r)
    BY <2>12, <1>0, GoesEffect DEF Places, Reopen
  <2>13. CASE Close(r)
    BY <2>13, <1>0, AwayEffect DEF Close
  <2>14. CASE RecoveryRaises(r)
    BY <2>14, <1>0, GoesEffect DEF Places, RecoveryRaises
  <2>15. CASE MarkRecovery(r)
    BY <2>15, <1>0, AwayEffect DEF MarkRecovery
  <2>16. CASE Leave(r)
    BY <2>16, <1>0, AwayEffect DEF Leave
  <2> QED
    BY <1>3, <2>1, <2>2, <2>3, <2>4, <2>5, <2>6, <2>7, <2>8, <2>9, <2>10, <2>11,
       <2>12, <2>13, <2>14, <2>15, <2>16 DEF RecoveryStep
<1>4. CASE ContainerExits
  BY <1>4, <1>0 DEF VarsOK, ContainerExits
<1>5. CASE CandidateExits
  BY <1>5, <1>0 DEF VarsOK, CandidateExits
<1>6. CASE SupervisorStarts
  BY <1>6, <1>0 DEF VarsOK, SupervisorStarts
<1>7. CASE UNCHANGED vars
  BY <1>7, <1>0 DEF VarsOK, vars
<1> QED
  BY <1>1, <1>2, <1>3, <1>4, <1>5, <1>6, <1>7 DEF Next

\* CmdsAreTyped: and every command at a place of its own.
LEMMA CmdsAreTyped == BaseInv /\ [Next]_vars => cmd' \in [Commander -> Cmds]
<1> SUFFICES ASSUME BaseInv, [Next]_vars PROVE cmd' \in [Commander -> Cmds]
  OBVIOUS
<1>0. VarsOK /\ SlotOK /\ IntentsOK /\ ControlOK /\ WorksOK
  BY DEF BaseInv
<1>1. ASSUME NEW c \in Commander, CommandStep(c) PROVE cmd' \in [Commander -> Cmds]
  <2>1. CASE CaptureOriginal(c)
    <3>1. Current \in Originals
      BY <1>0, CurrentFacts
    <3>2. Quiet \in Cmds
      BY RuntimeChangeAssumption DEF Quiet, Cmds, Nothing, Originals
    <3>3. \A o \in Originals : [Quiet EXCEPT !.at = "captured", !.original = o] \in Cmds
      BY <3>2 DEF Cmds
    <3> QED
      BY <1>0, <2>1, <3>1, <3>3 DEF CaptureOriginal, VarsOK
  <2>2. CASE Begins(c)
    BY <1>0, <2>2, BeginsEffect, BeginFacts
  <2>3. CASE Enter(c)
    <3>1. slot.id # 0 /\ StateBefore(c) \in States
      BY <1>0, <2>3, LegalTargets
      DEF Enter, Live, CommandTransition, CasHolds, ControlOK, CommandOK, IsActive
    <3> QED
      BY <1>0, <2>3, <3>1 DEF Enter, VarsOK, Cmds
  <2>4. CASE Fetch(c)
    BY <2>4, <1>0, DoneEffect DEF Fetch
  <2>5. CASE QuickPasses(c)
    BY <2>5, <1>0, DoneEffect DEF QuickPasses
  <2>6. CASE SpawnWork(c)
    BY <2>6, <1>0, AtEffect DEF SpawnWork
  <2>7. CASE ActivateAnchor(c)
    BY <2>7, <1>0, DoneEffect DEF ActivateAnchor
  <2>8. CASE VerifyRelease(c)
    BY <2>8, <1>0, DoneEffect DEF VerifyRelease
  <2>9. CASE AssertPointerAction(c)
    BY <2>9, <1>0, AtEffect DEF AssertPointerAction
  <2>10. CASE PublishRollback(c)
    BY <2>10, <1>0, AtEffect DEF PublishRollback
  <2>11. CASE ClearRollback(c)
    BY <2>11, <1>0, AtEffect DEF ClearRollback
  <2>12. CASE Journal(c)
    <3>1. cmd[c].step + 1 \in Nat
      BY <1>0 DEF VarsOK, Cmds
    <3> QED
      BY <1>0, <2>12, <3>1 DEF Journal, VarsOK, Cmds
  <2>13. CASE Complete(c)
    BY <2>13, <1>0, QuietEffect DEF Complete
  <2>14. CASE Raise(c)
    BY <2>14, <1>0, AtEffect DEF Raise
  <2>15. CASE Mark(c)
    BY <2>15, <1>0, QuietEffect DEF Mark
  <2>16. CASE Die(c)
    BY <2>16, <1>0, QuietEffect DEF Die
  <2> QED
    BY <1>1, <2>1, <2>2, <2>3, <2>4, <2>5, <2>6, <2>7, <2>8, <2>9, <2>10, <2>11,
       <2>12, <2>13, <2>14, <2>15, <2>16 DEF CommandStep, Begins
<1>2. ASSUME NEW p \in Process, WorkStep(p) PROVE cmd' \in [Commander -> Cmds]
  <2>1. CASE WorkEnters(p)
    BY <2>1, <1>0 DEF VarsOK, WorkEnters
  <2>2. CASE WorkFails(p)
    BY <1>0, <2>2, WorkOverEffect DEF WorkFails
  <2>3. CASE WorkActs(p)
    BY <1>0, <2>3, ActsEffect, WorkOverEffect DEF VarsOK
  <2> QED
    BY <1>2, <2>1, <2>2, <2>3 DEF WorkStep
<1>3. ASSUME NEW r \in Reconciler, RecoveryStep(r) PROVE cmd' \in [Commander -> Cmds]
  <2>1. CASE FenceOrphan(r)
    BY <2>1, <1>0 DEF VarsOK, FenceOrphan
  <2>2. CASE ReadPlan(r)
    BY <2>2, <1>0 DEF VarsOK, ReadPlan
  <2>3. CASE Classify(r)
    BY <2>3, <1>0 DEF VarsOK, Classify
  <2>4. CASE Confirm(r)
    BY <2>4, <1>0 DEF VarsOK, Confirm
  <2>5. CASE BeginRestoring(r)
    BY <2>5, <1>0 DEF VarsOK, BeginRestoring
  <2>6. CASE RestoreProfile(r)
    BY <2>6, <1>0 DEF VarsOK, RestoreProfile
  <2>7. CASE SpawnRestore(r)
    BY <2>7, <1>0 DEF VarsOK, SpawnRestore
  <2>8. CASE Verify(r)
    BY <2>8, <1>0 DEF VarsOK, Verify
  <2>9. CASE ReadPointer(r)
    BY <2>9, <1>0 DEF VarsOK, ReadPointer
  <2>10. CASE RestorePointer(r)
    BY <2>10, <1>0 DEF VarsOK, RestorePointer
  <2>11. CASE Resolve(r)
    BY <2>11, <1>0 DEF VarsOK, Resolve
  <2>12. CASE Reopen(r)
    BY <2>12, <1>0 DEF VarsOK, Reopen
  <2>13. CASE Close(r)
    BY <2>13, <1>0 DEF VarsOK, Close
  <2>14. CASE RecoveryRaises(r)
    BY <2>14, <1>0 DEF VarsOK, RecoveryRaises
  <2>15. CASE MarkRecovery(r)
    BY <2>15, <1>0 DEF VarsOK, MarkRecovery
  <2>16. CASE Leave(r)
    BY <2>16, <1>0 DEF VarsOK, Leave
  <2> QED
    BY <1>3, <2>1, <2>2, <2>3, <2>4, <2>5, <2>6, <2>7, <2>8, <2>9, <2>10, <2>11,
       <2>12, <2>13, <2>14, <2>15, <2>16 DEF RecoveryStep
<1>4. CASE ContainerExits
  BY <1>4, <1>0 DEF VarsOK, ContainerExits
<1>5. CASE CandidateExits
  BY <1>5, <1>0 DEF VarsOK, CandidateExits
<1>6. CASE SupervisorStarts
  BY <1>6, <1>0 DEF VarsOK, SupervisorStarts
<1>7. CASE UNCHANGED vars
  BY <1>7, <1>0 DEF VarsOK, vars
<1> QED
  BY <1>1, <1>2, <1>3, <1>4, <1>5, <1>6, <1>7 DEF Next
\* SlotIsTyped: and the document in the slot well-formed.
LEMMA SlotIsTyped == BaseInv /\ [Next]_vars => slot' \in Docs
<1> SUFFICES ASSUME BaseInv, [Next]_vars PROVE slot' \in Docs
  OBVIOUS
<1>0. VarsOK /\ SlotOK /\ IntentsOK /\ ControlOK /\ WorksOK
  BY DEF BaseInv
<1>1. ASSUME NEW c \in Commander, CommandStep(c) PROVE slot' \in Docs
  <2>1. CASE CaptureOriginal(c)
    BY <2>1, <1>0 DEF VarsOK, CaptureOriginal
  <2>2. CASE Begins(c)
    BY <1>0, <2>2, BeginsEffect, BeginFacts
  <2>3. CASE Enter(c)
    <3>1. slot.id # 0
      BY <1>0, <2>3
      DEF Enter, Live, CommandTransition, CasHolds, ControlOK, CommandOK, IsActive
    <3> QED
      BY <1>0, <2>3, <3>1, LegalTargets, TransitionedFacts DEF Enter, CommandTransition
  <2>4. CASE Fetch(c)
    BY <2>4, <1>0 DEF VarsOK, Fetch
  <2>5. CASE QuickPasses(c)
    BY <2>5, <1>0 DEF VarsOK, QuickPasses
  <2>6. CASE SpawnWork(c)
    BY <2>6, <1>0 DEF VarsOK, SpawnWork
  <2>7. CASE ActivateAnchor(c)
    BY <2>7, <1>0 DEF VarsOK, ActivateAnchor
  <2>8. CASE VerifyRelease(c)
    BY <2>8, <1>0 DEF VarsOK, VerifyRelease
  <2>9. CASE AssertPointerAction(c)
    BY <2>9, <1>0 DEF VarsOK, AssertPointerAction
  <2>10. CASE PublishRollback(c)
    BY <2>10, <1>0 DEF VarsOK, PublishRollback
  <2>11. CASE ClearRollback(c)
    BY <2>11, <1>0 DEF VarsOK, ClearRollback
  <2>12. CASE Journal(c)
    <3>0. Live(c) /\ IsRollout(slot) /\ cmd[c].step < LenOf(slot.op)
      BY <1>0, <2>12 DEF Journal, Live, ControlOK, CommandOK
    <3>1. NextKind(c) \in ActionKinds /\ cmd[c].step = slot.ordinal
      BY <2>12, <3>0, MineFacts, RolloutKinds DEF Journal, CanAdvance, IsRollout
    <3>2. Append(slot.results, NextKind(c)) \in Seq(ActionKinds) /\ slot.ordinal + 1 \in Nat
      BY <1>0, <3>1 DEF VarsOK, Docs
    <3> QED
      BY <1>0, <2>12, <3>1, <3>2 DEF Journal, Advanced, VarsOK, Docs
  <2>13. CASE Complete(c)
    BY <1>0, <2>13, TransitionedFacts DEF Complete, CommandTransition, States
  <2>14. CASE Raise(c)
    BY <2>14, <1>0 DEF VarsOK, Raise
  <2>15. CASE Mark(c)
    BY <1>0, <2>15, TransitionedFacts DEF Mark, Marked, States, VarsOK
  <2>16. CASE Die(c)
    BY <2>16, <1>0 DEF VarsOK, Die
  <2> QED
    BY <1>1, <2>1, <2>2, <2>3, <2>4, <2>5, <2>6, <2>7, <2>8, <2>9, <2>10, <2>11,
       <2>12, <2>13, <2>14, <2>15, <2>16 DEF CommandStep, Begins
<1>2. ASSUME NEW p \in Process, WorkStep(p) PROVE slot' \in Docs
  <2>1. CASE WorkEnters(p)
    BY <2>1, <1>0 DEF VarsOK, WorkEnters
  <2>2. CASE WorkFails(p)
    BY <2>2, <1>0 DEF VarsOK, WorkFails
  <2>3. CASE WorkActs(p)
    BY <1>0, <2>3, ActsEffect DEF VarsOK
  <2> QED
    BY <1>2, <2>1, <2>2, <2>3 DEF WorkStep
<1>3. ASSUME NEW r \in Reconciler, RecoveryStep(r) PROVE slot' \in Docs
  <2>1. CASE FenceOrphan(r)
    BY <1>0, <2>1 DEF FenceOrphan, VarsOK, Docs, States
  <2>2. CASE ReadPlan(r)
    BY <2>2, <1>0 DEF VarsOK, ReadPlan
  <2>3. CASE Classify(r)
    BY <2>3, <1>0 DEF VarsOK, Classify
  <2>4. CASE Confirm(r)
    BY <2>4, <1>0 DEF VarsOK, Confirm
  <2>5. CASE BeginRestoring(r)
    BY <1>0, <2>5, TransitionedFacts DEF BeginRestoring, States
  <2>6. CASE RestoreProfile(r)
    BY <2>6, <1>0 DEF VarsOK, RestoreProfile
  <2>7. CASE SpawnRestore(r)
    BY <2>7, <1>0 DEF VarsOK, SpawnRestore
  <2>8. CASE Verify(r)
    BY <2>8, <1>0 DEF VarsOK, Verify
  <2>9. CASE ReadPointer(r)
    BY <2>9, <1>0 DEF VarsOK, ReadPointer
  <2>10. CASE RestorePointer(r)
    BY <2>10, <1>0 DEF VarsOK, RestorePointer
  <2>11. CASE Resolve(r)
    BY <2>11, <1>0 DEF VarsOK, Resolve
  <2>12. CASE Reopen(r)
    BY <1>0, <2>12, TransitionedFacts DEF Reopen, States
  <2>13. CASE Close(r)
    BY <1>0, <2>13, TransitionedFacts DEF Close, States
  <2>14. CASE RecoveryRaises(r)
    BY <2>14, <1>0 DEF VarsOK, RecoveryRaises
  <2>15. CASE MarkRecovery(r)
    BY <1>0, <2>15, TransitionedFacts DEF MarkRecovery, Marked, States, VarsOK
  <2>16. CASE Leave(r)
    BY <2>16, <1>0 DEF VarsOK, Leave
  <2> QED
    BY <1>3, <2>1, <2>2, <2>3, <2>4, <2>5, <2>6, <2>7, <2>8, <2>9, <2>10, <2>11,
       <2>12, <2>13, <2>14, <2>15, <2>16 DEF RecoveryStep
<1>4. CASE ContainerExits
  BY <1>4, <1>0 DEF VarsOK, ContainerExits
<1>5. CASE CandidateExits
  BY <1>5, <1>0 DEF VarsOK, CandidateExits
<1>6. CASE SupervisorStarts
  BY <1>6, <1>0 DEF VarsOK, SupervisorStarts
<1>7. CASE UNCHANGED vars
  BY <1>7, <1>0 DEF VarsOK, vars
<1> QED
  BY <1>1, <1>2, <1>3, <1>4, <1>5, <1>6, <1>7 DEF Next

\* RuntimeIsTyped: and the runtime as docker may show it.
LEMMA RuntimeIsTyped ==
  BaseInv /\ [Next]_vars =>
    /\ selection' \in Model /\ container' \in Model \union {NoModel}
    /\ healthy' \in BOOLEAN /\ candidate' \in {"none", "up", "stuck"}
<1> DEFINE Goal ==
      /\ selection' \in Model /\ container' \in Model \union {NoModel}
      /\ healthy' \in BOOLEAN /\ candidate' \in {"none", "up", "stuck"}
<1> SUFFICES ASSUME BaseInv, [Next]_vars PROVE Goal
  OBVIOUS
<1>0. VarsOK /\ SlotOK /\ IntentsOK /\ ControlOK /\ WorksOK
  BY DEF BaseInv
<1>1. ASSUME NEW c \in Commander, CommandStep(c) PROVE Goal
  <2>1. CASE CaptureOriginal(c)
    BY <2>1, <1>0 DEF VarsOK, runtime, CaptureOriginal
  <2>2. CASE Begins(c)
    BY <1>0, <2>2, BeginsEffect, BeginFacts DEF VarsOK
  <2>3. CASE Enter(c)
    BY <2>3, <1>0 DEF VarsOK, runtime, CommandTransition, Enter
  <2>4. CASE Fetch(c)
    BY <2>4, <1>0 DEF VarsOK, runtime, Fetch
  <2>5. CASE QuickPasses(c)
    BY <2>5, <1>0 DEF VarsOK, runtime, QuickPasses
  <2>6. CASE SpawnWork(c)
    BY <2>6, <1>0 DEF VarsOK, runtime, SpawnWork
  <2>7. CASE ActivateAnchor(c)
    <3>1. Mine(c).spec \in objects
      BY <2>7 DEF ActivateAnchor, AnchorIsVerified
    <3>2. /\ Mine(c).spec \in Ids /\ Mine(c).spec <= slot.id
          /\ intent[Mine(c).spec].op = "upgrade"
      BY <1>0, <3>1 DEF VarsOK, IntentsOK
    <3>3. intent[Mine(c).spec].original.selection \in Model
      BY <1>0, <3>2 DEF IntentsOK, IntentOK, Found
    <3> QED
      BY <1>0, <2>7, <3>3 DEF VarsOK, ActivateAnchor, AnchorOriginal
  <2>8. CASE VerifyRelease(c)
    BY <2>8, <1>0 DEF VarsOK, runtime, VerifyRelease
  <2>9. CASE AssertPointerAction(c)
    BY <2>9, <1>0 DEF VarsOK, runtime, AssertPointerAction
  <2>10. CASE PublishRollback(c)
    BY <2>10, <1>0 DEF VarsOK, runtime, PublishRollback
  <2>11. CASE ClearRollback(c)
    BY <2>11, <1>0 DEF VarsOK, runtime, ClearRollback
  <2>12. CASE Journal(c)
    BY <2>12, <1>0 DEF VarsOK, runtime, Journal
  <2>13. CASE Complete(c)
    BY <2>13, <1>0 DEF VarsOK, runtime, CommandTransition, Complete
  <2>14. CASE Raise(c)
    BY <2>14, <1>0 DEF VarsOK, runtime, Raise
  <2>15. CASE Mark(c)
    BY <2>15, <1>0 DEF VarsOK, runtime, Mark
  <2>16. CASE Die(c)
    BY <2>16, <1>0 DEF VarsOK, runtime, Die
  <2> QED
    BY <1>1, <2>1, <2>2, <2>3, <2>4, <2>5, <2>6, <2>7, <2>8, <2>9, <2>10, <2>11,
       <2>12, <2>13, <2>14, <2>15, <2>16 DEF CommandStep, Begins
<1>2. ASSUME NEW p \in Process, WorkStep(p) PROVE Goal
  <2>1. CASE WorkEnters(p)
    BY <2>1, <1>0 DEF VarsOK, runtime, WorkEnters
  <2>2. CASE WorkFails(p)
    BY <2>2, <1>0 DEF VarsOK, runtime, WorkFails
  <2>3. CASE WorkActs(p)
    <3>1. PICK w \in work[p] :
            /\ selection' = selection \/ (selection' = w.model /\ w.model \in Model)
            /\ container' \in Model \union {NoModel} /\ healthy' \in BOOLEAN
            /\ candidate' \in {"none", "up", "stuck"}
      BY <2>3, ActsEffect
    <3> QED
      BY <1>0, <3>1 DEF VarsOK
  <2> QED
    BY <1>2, <2>1, <2>2, <2>3 DEF WorkStep
<1>3. ASSUME NEW r \in Reconciler, RecoveryStep(r) PROVE Goal
  <2>1. CASE FenceOrphan(r)
    BY <2>1, <1>0 DEF VarsOK, runtime, FenceOrphan
  <2>2. CASE ReadPlan(r)
    BY <2>2, <1>0 DEF VarsOK, runtime, ReadPlan
  <2>3. CASE Classify(r)
    BY <2>3, <1>0 DEF VarsOK, runtime, Classify
  <2>4. CASE Confirm(r)
    BY <2>4, <1>0 DEF VarsOK, runtime, Confirm
  <2>5. CASE BeginRestoring(r)
    BY <2>5, <1>0 DEF VarsOK, runtime, BeginRestoring
  <2>6. CASE RestoreProfile(r)
    <3>1. rec[r].id \in 1 .. slot.id
      BY <1>0, <2>6 DEF RestoreProfile, ControlOK, ReconcilerOK, Busy
    <3>2. rec[r].id \in Ids /\ rec[r].id <= slot.id
      BY <1>0, <3>1, RuntimeChangeAssumption DEF VarsOK, Docs, Ids
    <3>3. intent[rec[r].id].original.selection \in Model
      BY <1>0, <3>2 DEF IntentsOK, IntentOK, Found, VarsOK, Docs, Ids
    <3> QED
      BY <1>0, <2>6, <3>3 DEF VarsOK, RestoreProfile, Recovers
  <2>7. CASE SpawnRestore(r)
    BY <2>7, <1>0 DEF VarsOK, runtime, SpawnRestore
  <2>8. CASE Verify(r)
    BY <2>8, <1>0 DEF VarsOK, runtime, Verify
  <2>9. CASE ReadPointer(r)
    BY <2>9, <1>0 DEF VarsOK, runtime, ReadPointer
  <2>10. CASE RestorePointer(r)
    BY <2>10, <1>0 DEF VarsOK, runtime, RestorePointer
  <2>11. CASE Resolve(r)
    BY <2>11, <1>0 DEF VarsOK, runtime, Resolve
  <2>12. CASE Reopen(r)
    BY <2>12, <1>0 DEF VarsOK, runtime, Reopen
  <2>13. CASE Close(r)
    BY <2>13, <1>0 DEF VarsOK, runtime, Close
  <2>14. CASE RecoveryRaises(r)
    BY <2>14, <1>0 DEF VarsOK, runtime, RecoveryRaises
  <2>15. CASE MarkRecovery(r)
    BY <2>15, <1>0 DEF VarsOK, runtime, MarkRecovery
  <2>16. CASE Leave(r)
    BY <2>16, <1>0 DEF VarsOK, runtime, Leave
  <2> QED
    BY <1>3, <2>1, <2>2, <2>3, <2>4, <2>5, <2>6, <2>7, <2>8, <2>9, <2>10, <2>11,
       <2>12, <2>13, <2>14, <2>15, <2>16 DEF RecoveryStep
<1>4. CASE ContainerExits
  BY <1>4, <1>0 DEF VarsOK, runtime, ContainerExits
<1>5. CASE CandidateExits
  BY <1>5, <1>0 DEF VarsOK, runtime, CandidateExits
<1>6. CASE SupervisorStarts
  BY <1>6, <1>0 DEF VarsOK, runtime, SupervisorStarts
<1>7. CASE UNCHANGED vars
  BY <1>7, <1>0 DEF VarsOK, vars
<1> QED
  BY <1>1, <1>2, <1>3, <1>4, <1>5, <1>6, <1>7 DEF Next
--------------------------------------------------------------------------------
\* SuccessorIsTyped: the pointer that follows one.
LEMMA SuccessorIsTyped ==
  ASSUME NEW p \in PointerDocs(Ids, Nat), NEW active \in 0 .. MaxTx, NEW by \in 0 .. MaxTx
  PROVE  Successor(p, active, by) \in PointerDocs(Ids, Nat)
BY RuntimeChangeAssumption DEF Successor, PointerDocs, Ids

\* PendingFacts: what the work of a command presents.
LEMMA PendingFacts ==
  ASSUME BaseInv, NEW c \in Commander, Live(c), HasNext(c)
  PROVE  /\ Pending(c) \in [mode : RequestModes, id : Ids, ordinal : Nat,
                            kind : ActionKinds \union {"none"}]
         /\ Pending(c).id = slot.id
         /\ IsRollout(slot) => /\ Pending(c).mode = "action"
                               /\ Pending(c).ordinal = cmd[c].step
                               /\ Pending(c).kind = KindAt(slot.op, cmd[c].step)
         /\ ~IsRollout(slot) => Pending(c) = Presented("bound", slot.id, 0, "none")
<1>1. /\ cmd[c].id = slot.id /\ slot.id \in Ids /\ cmd[c].step \in Nat
      /\ IsMineRollout(c) <=> IsRollout(slot)
      /\ NextKind(c) = KindAt(slot.op, cmd[c].step)
  BY MineFacts
<1>2. CASE IsRollout(slot)
  <2>1. NextKind(c) \in ActionKinds
    BY <1>1, <1>2, RolloutKinds DEF IsRollout
  <2> QED
    BY <1>1, <1>2, <2>1 DEF Pending, Presented, RequestModes
<1>3. CASE ~IsRollout(slot)
  BY <1>1, <1>3 DEF Pending, Presented, RequestModes
<1> QED
  BY <1>2, <1>3

\* SurvivorsFacts: what outlives a process that gave up waiting.
LEMMA SurvivorsFacts ==
  ASSUME NEW works \in SUBSET Works, NEW v \in Survivors(works)
  PROVE  /\ v \in Works
         /\ \E w \in works :
              /\ w.at = "running" /\ w.does # "activate-target"
              /\ v.at = w.at /\ v.does = w.does /\ v.req = w.req /\ v.model = w.model
              /\ v.script = "killed"
<1>1. PICK w \in works : /\ w.at = "running" /\ w.does # "activate-target"
                         /\ v = [w EXCEPT !.script = "killed"]
  BY DEF Survivors
<1>2. w \in Works
  OBVIOUS
<1> QED
  BY <1>1, <1>2 DEF Works

\* RecoversFacts: what a reconciler at work goes by.
LEMMA RecoversFacts ==
  ASSUME BaseInv, NEW r \in Reconciler, Busy(r)
  PROVE  /\ rec[r].id \in Ids /\ rec[r].id <= slot.id
         /\ Recovers(r) = intent[rec[r].id] /\ Recovers(r) \in Intents
         /\ Recovers(r).op \in Operations /\ Found(Recovers(r).original)
<1>1. rec[r].id \in 1 .. slot.id
  BY DEF BaseInv, ControlOK, ReconcilerOK
<1>2. rec[r].id \in Ids /\ rec[r].id <= slot.id /\ slot.id \in Nat
  BY <1>1, RuntimeChangeAssumption DEF BaseInv, VarsOK, Docs, Ids
<1>3. Recovers(r) = intent[rec[r].id] /\ Recovers(r) \in Intents
  BY <1>2 DEF Recovers, BaseInv, VarsOK
<1>4. ~(rec[r].id > slot.id)
  BY <1>2 DEF Ids
<1> QED
  BY <1>2, <1>3, <1>4 DEF BaseInv, IntentsOK, IntentOK, Intents

\* StoreIsTyped: and the rollback store with the intents that name its anchors.
LEMMA StoreIsTyped ==
  BaseInv /\ [Next]_vars =>
    /\ intent' \in [Ids -> Intents] /\ objects' \subseteq Ids
    /\ pointer' \in PointerDocs(Ids, Nat)
<1> DEFINE Goal ==
      /\ intent' \in [Ids -> Intents] /\ objects' \subseteq Ids
      /\ pointer' \in PointerDocs(Ids, Nat)
<1> SUFFICES ASSUME BaseInv, [Next]_vars PROVE Goal
  OBVIOUS
<1>0. VarsOK /\ SlotOK /\ IntentsOK /\ ControlOK /\ WorksOK
  BY DEF BaseInv
<1>1. ASSUME NEW c \in Commander, CommandStep(c) PROVE Goal
  <2>1. CASE CaptureOriginal(c)
    BY <2>1, <1>0 DEF VarsOK, store, CaptureOriginal
  <2>2. CASE Begins(c)
    <3>1. PICK frozen \in Intents :
            /\ BeginWith(c, frozen) /\ frozen.op \in Operations
            /\ objects' = IF frozen.op = "upgrade" THEN objects \union {slot.id + 1}
                                                   ELSE objects
      BY <2>2, BeginsEffect
    <3>2. slot.id + 1 \in Ids /\ intent' \in [Ids -> Intents] /\ UNCHANGED pointer
      BY <1>0, <3>1, BeginFacts
    <3> QED
      BY <1>0, <3>1, <3>2 DEF VarsOK
  <2>3. CASE Enter(c)
    BY <2>3, <1>0 DEF VarsOK, store, CommandTransition, Enter
  <2>4. CASE Fetch(c)
    BY <2>4, <1>0 DEF VarsOK, store, Fetch
  <2>5. CASE QuickPasses(c)
    BY <2>5, <1>0 DEF VarsOK, store, QuickPasses
  <2>6. CASE SpawnWork(c)
    BY <2>6, <1>0 DEF VarsOK, store, SpawnWork
  <2>7. CASE ActivateAnchor(c)
    BY <2>7, <1>0 DEF VarsOK, store, ActivateAnchor
  <2>8. CASE VerifyRelease(c)
    BY <2>8, <1>0 DEF VarsOK, store, VerifyRelease
  <2>9. CASE AssertPointerAction(c)
    BY <2>9, <1>0 DEF VarsOK, store, AssertPointerAction
  <2>10. CASE PublishRollback(c)
    <3>1. pointer' \in PointerDocs(Ids, Nat)
      <4>1. Mine(c).spec \in 0 .. MaxTx /\ cmd[c].id \in 0 .. MaxTx
        BY <1>0, <2>10, MineFacts DEF PublishRollback, Live, VarsOK, Cmds, Intents
      <4> QED
        BY <1>0, <2>10, <4>1, SuccessorIsTyped, RuntimeChangeAssumption
        DEF PublishRollback, VarsOK
    <3> QED
      BY <1>0, <2>10, <3>1 DEF PublishRollback, VarsOK
  <2>11. CASE ClearRollback(c)
    <3>1. pointer' \in PointerDocs(Ids, Nat)
      <4>1. Mine(c).spec \in 0 .. MaxTx /\ cmd[c].id \in 0 .. MaxTx
        BY <1>0, <2>11, MineFacts DEF ClearRollback, Live, VarsOK, Cmds, Intents
      <4> QED
        BY <1>0, <2>11, <4>1, SuccessorIsTyped, RuntimeChangeAssumption
        DEF ClearRollback, VarsOK
    <3> QED
      BY <1>0, <2>11, <3>1 DEF ClearRollback, VarsOK
  <2>12. CASE Journal(c)
    BY <2>12, <1>0 DEF VarsOK, store, Journal
  <2>13. CASE Complete(c)
    BY <2>13, <1>0 DEF VarsOK, store, CommandTransition, Complete
  <2>14. CASE Raise(c)
    BY <2>14, <1>0 DEF VarsOK, store, Raise
  <2>15. CASE Mark(c)
    BY <2>15, <1>0 DEF VarsOK, store, Mark
  <2>16. CASE Die(c)
    BY <2>16, <1>0 DEF VarsOK, store, Die
  <2> QED
    BY <1>1, <2>1, <2>2, <2>3, <2>4, <2>5, <2>6, <2>7, <2>8, <2>9, <2>10, <2>11,
       <2>12, <2>13, <2>14, <2>15, <2>16 DEF CommandStep, Begins
<1>2. ASSUME NEW p \in Process, WorkStep(p) PROVE Goal
  <2>1. CASE WorkEnters(p)
    BY <2>1, <1>0 DEF VarsOK, store, WorkEnters
  <2>2. CASE WorkFails(p)
    BY <2>2, <1>0 DEF VarsOK, store, WorkFails
  <2>3. CASE WorkActs(p)
    BY <1>0, <2>3, ActsEffect DEF VarsOK
  <2> QED
    BY <1>2, <2>1, <2>2, <2>3 DEF WorkStep
<1>3. ASSUME NEW r \in Reconciler, RecoveryStep(r) PROVE Goal
  <2>1. CASE FenceOrphan(r)
    BY <2>1, <1>0 DEF VarsOK, store, FenceOrphan
  <2>2. CASE ReadPlan(r)
    BY <2>2, <1>0 DEF VarsOK, store, ReadPlan
  <2>3. CASE Classify(r)
    BY <2>3, <1>0 DEF VarsOK, store, Classify
  <2>4. CASE Confirm(r)
    BY <2>4, <1>0 DEF VarsOK, store, Confirm
  <2>5. CASE BeginRestoring(r)
    BY <2>5, <1>0 DEF VarsOK, store, BeginRestoring
  <2>6. CASE RestoreProfile(r)
    BY <2>6, <1>0 DEF VarsOK, store, RestoreProfile
  <2>7. CASE SpawnRestore(r)
    BY <2>7, <1>0 DEF VarsOK, store, SpawnRestore
  <2>8. CASE Verify(r)
    BY <2>8, <1>0 DEF VarsOK, store, Verify
  <2>9. CASE ReadPointer(r)
    BY <2>9, <1>0 DEF VarsOK, store, ReadPointer
  <2>10. CASE RestorePointer(r)
    <3>1. Recovers(r).previous.active \in 0 .. MaxTx /\ rec[r].id \in 0 .. MaxTx
      BY <1>0, <2>10, RecoversFacts, RuntimeChangeAssumption
      DEF RestorePointer, Busy, Intents, PointerDocs, Ids, VarsOK, Recs
    <3>2. pointer' \in PointerDocs(Ids, Nat)
      BY <1>0, <2>10, <3>1, SuccessorIsTyped DEF RestorePointer, VarsOK
    <3> QED
      BY <1>0, <2>10, <3>2 DEF RestorePointer, VarsOK
  <2>11. CASE Resolve(r)
    BY <2>11, <1>0 DEF VarsOK, store, Resolve
  <2>12. CASE Reopen(r)
    BY <2>12, <1>0 DEF VarsOK, store, Reopen
  <2>13. CASE Close(r)
    BY <2>13, <1>0 DEF VarsOK, store, Close
  <2>14. CASE RecoveryRaises(r)
    BY <2>14, <1>0 DEF VarsOK, store, RecoveryRaises
  <2>15. CASE MarkRecovery(r)
    BY <2>15, <1>0 DEF VarsOK, store, MarkRecovery
  <2>16. CASE Leave(r)
    BY <2>16, <1>0 DEF VarsOK, store, Leave
  <2> QED
    BY <1>3, <2>1, <2>2, <2>3, <2>4, <2>5, <2>6, <2>7, <2>8, <2>9, <2>10, <2>11,
       <2>12, <2>13, <2>14, <2>15, <2>16 DEF RecoveryStep
<1>4. CASE ContainerExits
  BY <1>4, <1>0 DEF VarsOK, store, ContainerExits
<1>5. CASE CandidateExits
  BY <1>5, <1>0 DEF VarsOK, store, CandidateExits
<1>6. CASE SupervisorStarts
  BY <1>6, <1>0 DEF VarsOK, store, SupervisorStarts
<1>7. CASE UNCHANGED vars
  BY <1>7, <1>0 DEF VarsOK, vars
<1> QED
  BY <1>1, <1>2, <1>3, <1>4, <1>5, <1>6, <1>7 DEF Next

\* WorksAreTyped: and all work as a process may start it.
LEMMA WorksAreTyped == BaseInv /\ [Next]_vars => work' \in [Process -> SUBSET Works]
<1> SUFFICES ASSUME BaseInv, [Next]_vars PROVE work' \in [Process -> SUBSET Works]
  OBVIOUS
<1>0. VarsOK /\ SlotOK /\ IntentsOK /\ ControlOK /\ WorksOK
  BY DEF BaseInv
<1>1. ASSUME NEW c \in Commander, CommandStep(c) PROVE work' \in [Process -> SUBSET Works]
  <2>1. CASE CaptureOriginal(c)
    BY <2>1, <1>0 DEF VarsOK, CaptureOriginal
  <2>2. CASE Begins(c)
    BY <1>0, <2>2, BeginsEffect, BeginFacts DEF VarsOK
  <2>3. CASE Enter(c)
    BY <2>3, <1>0 DEF VarsOK, CommandTransition, Enter
  <2>4. CASE Fetch(c)
    BY <2>4, <1>0 DEF VarsOK, Fetch
  <2>5. CASE QuickPasses(c)
    BY <2>5, <1>0 DEF VarsOK, QuickPasses
  <2>6. CASE SpawnWork(c)
    <3>1. PICK kind \in WorkKinds :
            /\ At(c, kind)
            /\ work' = [work EXCEPT ![c] = {[at |-> "spawned", req |-> Pending(c),
                                             does |-> kind, model |-> Mine(c).target,
                                             script |-> "passing"]}]
      BY <2>6 DEF SpawnWork
    <3>2. Live(c) /\ HasNext(c)
      BY <3>1 DEF At, Live
    <3>3. Mine(c).target \in Model \union {NoModel}
      BY <1>0, <3>2, MineFacts DEF VarsOK, Intents
    <3>4. [at |-> "spawned", req |-> Pending(c), does |-> kind, model |-> Mine(c).target,
           script |-> "passing"] \in Works
      BY <3>2, <3>3, PendingFacts DEF Works
    <3> QED
      BY <1>0, <3>1, <3>4, ProcessesDiffer DEF VarsOK
  <2>7. CASE ActivateAnchor(c)
    BY <2>7, <1>0 DEF VarsOK, ActivateAnchor
  <2>8. CASE VerifyRelease(c)
    BY <2>8, <1>0 DEF VarsOK, VerifyRelease
  <2>9. CASE AssertPointerAction(c)
    BY <2>9, <1>0 DEF VarsOK, AssertPointerAction
  <2>10. CASE PublishRollback(c)
    BY <2>10, <1>0 DEF VarsOK, PublishRollback
  <2>11. CASE ClearRollback(c)
    BY <2>11, <1>0 DEF VarsOK, ClearRollback
  <2>12. CASE Journal(c)
    BY <2>12, <1>0 DEF VarsOK, Journal
  <2>13. CASE Complete(c)
    BY <2>13, <1>0 DEF VarsOK, CommandTransition, Complete
  <2>14. CASE Raise(c)
    <3>1. Survivors(work[c]) \subseteq Works
      BY <1>0, SurvivorsFacts, ProcessesDiffer DEF VarsOK
    <3> QED
      BY <1>0, <2>14, <3>1, ProcessesDiffer DEF Raise, VarsOK
  <2>15. CASE Mark(c)
    BY <2>15, <1>0 DEF VarsOK, Mark
  <2>16. CASE Die(c)
    BY <2>16, <1>0 DEF VarsOK, Die
  <2> QED
    BY <1>1, <2>1, <2>2, <2>3, <2>4, <2>5, <2>6, <2>7, <2>8, <2>9, <2>10, <2>11,
       <2>12, <2>13, <2>14, <2>15, <2>16 DEF CommandStep, Begins
<1>2. ASSUME NEW p \in Process, WorkStep(p) PROVE work' \in [Process -> SUBSET Works]
  <2>1. CASE WorkEnters(p)
    <3>1. PICK w \in work[p] : work' = [work EXCEPT ![p] = {[w EXCEPT !.at = "running"]}]
      BY <2>1 DEF WorkEnters
    <3>2. w \in Works /\ [w EXCEPT !.at = "running"] \in Works
      <4>1. w \in Works
        BY <1>0 DEF VarsOK
      <4> QED
        BY <4>1 DEF Works
    <3> QED
      BY <1>0, <3>1, <3>2 DEF VarsOK
  <2>2. CASE WorkFails(p)
    BY <1>0, <2>2, WorkOverEffect DEF WorkFails, VarsOK
  <2>3. CASE WorkActs(p)
    <3>1. \/ \E ok \in BOOLEAN : WorkOver(p, ok)
          \/ \E next \in Works : work' = [work EXCEPT ![p] = {next}]
      BY <2>3, ActsEffect DEF NextStep
    <3> QED
      BY <1>0, <3>1, WorkOverEffect DEF VarsOK
  <2> QED
    BY <1>2, <2>1, <2>2, <2>3 DEF WorkStep
<1>3. ASSUME NEW r \in Reconciler, RecoveryStep(r) PROVE work' \in [Process -> SUBSET Works]
  <2>1. CASE FenceOrphan(r)
    BY <2>1, <1>0 DEF VarsOK, FenceOrphan
  <2>2. CASE ReadPlan(r)
    BY <2>2, <1>0 DEF VarsOK, ReadPlan
  <2>3. CASE Classify(r)
    BY <2>3, <1>0 DEF VarsOK, Classify
  <2>4. CASE Confirm(r)
    BY <2>4, <1>0 DEF VarsOK, Confirm
  <2>5. CASE BeginRestoring(r)
    BY <2>5, <1>0 DEF VarsOK, BeginRestoring
  <2>6. CASE RestoreProfile(r)
    BY <2>6, <1>0 DEF VarsOK, RestoreProfile
  <2>7. CASE SpawnRestore(r)
    <3>1. rec[r].id \in Ids /\ rec[r].name \in Model \union {NoModel}
      BY <1>0, <2>7, RecoversFacts DEF SpawnRestore, Busy, VarsOK, Recs
    <3>2. [at |-> "spawned", does |-> "restore",
           req |-> Presented("restore", rec[r].id, 0, "none"),
           model |-> rec[r].name, script |-> "passing"] \in Works
      BY <3>1 DEF Works, Presented, RequestModes
    <3> QED
      BY <1>0, <2>7, <3>2, ProcessesDiffer DEF SpawnRestore, VarsOK
  <2>8. CASE Verify(r)
    BY <2>8, <1>0 DEF VarsOK, Verify
  <2>9. CASE ReadPointer(r)
    BY <2>9, <1>0 DEF VarsOK, ReadPointer
  <2>10. CASE RestorePointer(r)
    BY <2>10, <1>0 DEF VarsOK, RestorePointer
  <2>11. CASE Resolve(r)
    BY <2>11, <1>0 DEF VarsOK, Resolve
  <2>12. CASE Reopen(r)
    BY <2>12, <1>0 DEF VarsOK, Reopen
  <2>13. CASE Close(r)
    BY <2>13, <1>0 DEF VarsOK, Close
  <2>14. CASE RecoveryRaises(r)
    <3>1. Survivors(work[r]) \subseteq Works
      BY <1>0, SurvivorsFacts, ProcessesDiffer DEF VarsOK
    <3> QED
      BY <1>0, <2>14, <3>1, ProcessesDiffer DEF RecoveryRaises, VarsOK
  <2>15. CASE MarkRecovery(r)
    BY <2>15, <1>0 DEF VarsOK, MarkRecovery
  <2>16. CASE Leave(r)
    BY <2>16, <1>0 DEF VarsOK, Leave
  <2> QED
    BY <1>3, <2>1, <2>2, <2>3, <2>4, <2>5, <2>6, <2>7, <2>8, <2>9, <2>10, <2>11,
       <2>12, <2>13, <2>14, <2>15, <2>16 DEF RecoveryStep
<1>4. CASE ContainerExits
  BY <1>4, <1>0 DEF VarsOK, ContainerExits
<1>5. CASE CandidateExits
  BY <1>5, <1>0 DEF VarsOK, CandidateExits
<1>6. CASE SupervisorStarts
  BY <1>6, <1>0 DEF VarsOK, SupervisorStarts
<1>7. CASE UNCHANGED vars
  BY <1>7, <1>0 DEF VarsOK, vars
<1> QED
  BY <1>1, <1>2, <1>3, <1>4, <1>5, <1>6, <1>7 DEF Next

\* VarsAreKept: so every step keeps the types.
LEMMA VarsAreKept == BaseInv /\ [Next]_vars => VarsOK'
BY SlotIsTyped, StoreIsTyped, RuntimeIsTyped, CmdsAreTyped, RecsAreTyped, WorksAreTyped
DEF VarsOK
--------------------------------------------------------------------------------
(* Each part of the invariant is kept                                      *)

\* MovesFacts: a transition that is legal leaves the slot in order.
LEMMA MovesFacts ==
  ASSUME BaseInv, slot.id # 0, NEW state, CanTransition(slot, state),
         state # "superseded-verified", slot' = Transitioned(slot, state), intent' = intent
  PROVE  /\ SlotOK' /\ slot'.id = slot.id /\ slot'.op = slot.op /\ slot'.state = state
         /\ slot'.owner = slot.owner /\ slot'.ordinal = slot.ordinal /\ slot'.schema = 2
         /\ slot'.tier = slot.tier
<1>1. state \in States
  BY LegalTargets
<1>2. slot.schema = 2
  BY DEF CanTransition
<1>3. /\ slot'.id = slot.id /\ slot'.op = slot.op /\ slot'.state = state
      /\ slot'.owner = slot.owner /\ slot'.ordinal = slot.ordinal /\ slot'.schema = 2
      /\ slot'.tier = slot.tier
  BY <1>1, <1>2, TransitionedFacts DEF BaseInv
<1>4. slot'.op = IF slot.id = 0 THEN "none" ELSE intent[slot.id].op
  BY <1>3 DEF BaseInv, SlotOK
<1> QED
  BY <1>1, <1>3, <1>4 DEF SlotOK, States

\* MarkedFacts: marking leaves the slot alone, or takes its transaction to recovery.
LEMMA MarkedFacts ==
  ASSUME BaseInv, NEW id, id # 0, slot' = Marked(id), intent' = intent
  PROVE  /\ SlotOK' /\ slot'.id = slot.id /\ slot'.op = slot.op
         /\ slot'.owner = slot.owner /\ slot'.ordinal = slot.ordinal
         /\ slot'.tier = slot.tier /\ slot'.schema = slot.schema
         /\ \/ slot' = slot
            \/ slot.id = id /\ IsActive(slot) /\ slot'.state = "recovery_required"
<1>1. CASE slot' = slot
  BY <1>1 DEF BaseInv, SlotOK
<1>2. CASE slot' # slot
  <2>1. /\ slot.id = id /\ CanTransition(slot, "recovery_required")
        /\ slot' = Transitioned(slot, "recovery_required")
    BY <1>2 DEF Marked
  <2>2. slot.state \in States \ TerminalStates /\ slot.schema = 2
    BY <2>1, LegalTargets DEF CanTransition
  <2> QED
    BY <2>1, <2>2, MovesFacts DEF IsActive, IsTerminal
<1> QED
  BY <1>1, <1>2

\* LiveFacts: a command that goes on goes on alone.
LEMMA LiveFacts ==
  ASSUME BaseInv, NEW c \in Commander, Live(c)
  PROVE  /\ slot.id # 0 /\ IsActive(slot) /\ slot.owner = {c}
         /\ cmd[c].id = slot.id /\ cmd[c].state = slot.state
         /\ slot.state \in States \ TerminalStates /\ slot.state # "recovery_required"
         /\ IsRollout(slot) => slot.ordinal = cmd[c].step /\ slot.state \notin RecoveryStates
         /\ \A d \in Commander : Live(d) => d = c
         /\ \A r \in Reconciler : Busy(r) => rec[r].id # slot.id
<1>1. /\ slot.id # 0 /\ IsActive(slot) /\ slot.owner = {c}
      /\ cmd[c].id = slot.id /\ cmd[c].state = slot.state /\ slot.state # "recovery_required"
      /\ IsRollout(slot) => slot.ordinal = cmd[c].step /\ slot.state \notin RecoveryStates
      /\ \A r \in Reconciler : Busy(r) => rec[r].id # slot.id
  BY DEF BaseInv, ControlOK, CommandOK, IsActive
<1>2. slot.state \in States \ TerminalStates
  BY <1>1 DEF BaseInv, VarsOK, Docs, SlotOK, IsActive, IsTerminal
<1>3. ASSUME NEW d \in Commander, Live(d) PROVE d = c
  <2>1. slot.owner = {d}
    BY <1>3 DEF BaseInv, ControlOK, CommandOK
  <2> QED
    BY <1>1, <2>1
<1> QED
  BY <1>1, <1>2, <1>3

\* NobodyLive: no command goes on once its transaction is closed, recovered or fenced.
LEMMA NobodyLive ==
  ASSUME BaseInv,
         \/ ~IsActive(slot) \/ slot.state = "recovery_required" \/ InitiatorDead
         \/ \E r \in Reconciler : Busy(r) /\ rec[r].id = slot.id
  PROVE  \A c \in Commander : ~Live(c)
BY LiveFacts DEF InitiatorDead, Live

\* StateBeforeFacts: the state a command enters is one it may go on in.
LEMMA StateBeforeFacts ==
  ASSUME BaseInv, NEW c \in Commander, Live(c), HasNext(c)
  PROVE  /\ StateBefore(c) \in States \ TerminalStates
         /\ StateBefore(c) # "recovery_required"
         /\ IsRollout(slot) => StateBefore(c) \notin RecoveryStates
         /\ slot.op = "release" /\ cmd[c].step = 0 => StateBefore(c) \in DOMAIN ReleaseStates
<1>1. /\ cmd[c].state \in States \ TerminalStates /\ cmd[c].state # "recovery_required"
      /\ IsRollout(slot) => cmd[c].state \notin RecoveryStates
  BY LiveFacts
<1>2. /\ NextKind(c) = KindAt(slot.op, cmd[c].step) /\ slot.op \in Operations
      /\ Mine(c).op = slot.op
      /\ IsMineRollout(c) <=> IsRollout(slot)
      /\ cmd[c].step \in Nat /\ cmd[c].step < LenOf(slot.op)
  BY MineFacts
<1>3. CASE NextKind(c) = "release"
  <2>1. slot.op = "release" /\ cmd[c].step = 0
    BY <1>2, <1>3, RolloutKinds
    DEF KindAt, Operations, TargetOperations, RolloutOperations
  <2>2. cmd[c].state \in DOMAIN ReleaseStates
    BY <2>1, LiveFacts DEF BaseInv, ControlOK, CommandOK
  <2>3. StateBefore(c) \in {"production_stopping", "candidate_starting", "accepting"}
    BY <1>2, <1>3, <2>1, <2>2 DEF StateBefore, ReleaseStates
  <2> QED
    BY <2>1, <2>3 DEF States, TerminalStates, IsRollout, RolloutOperations, ReleaseStates
<1>4. CASE NextKind(c) = "verify-restored"
  <2>1. slot.op = "release" /\ cmd[c].step # 0
    BY <1>2, <1>4 DEF KindAt, Operations, TargetOperations, RolloutOperations
  <2>2. StateBefore(c) = "production_restoring"
    BY <1>2, <1>4, <2>1 DEF StateBefore
  <2> QED
    BY <2>1, <2>2 DEF States, TerminalStates, IsRollout, RolloutOperations
<1>5. CASE NextKind(c) \notin {"release", "verify-restored"}
  <2>1. StateBefore(c) \in {"deploying", "production_stopping", "candidate_starting",
                            "accepting", cmd[c].state}
    BY <1>5 DEF StateBefore
  <2>2. ~(slot.op = "release" /\ cmd[c].step = 0)
    BY <1>2, <1>5 DEF KindAt, TargetOperations, RolloutOperations
  <2> QED
    BY <1>1, <2>1, <2>2 DEF States, TerminalStates, RecoveryStates
<1> QED
  BY <1>3, <1>4, <1>5

\* What a step does to the transaction in the slot unless it begins another one.
SlotKept ==
  /\ UNCHANGED <<intent, objects>>
  /\ SlotOK'
  /\ slot'.id = slot.id /\ slot'.op = slot.op /\ slot'.owner = slot.owner
  /\ slot'.tier = slot.tier /\ slot'.schema = slot.schema
  /\ slot' = slot \/ LocksFree

\* SlotMoves: a step begins a transaction, or keeps the one in the slot.
LEMMA SlotMoves ==
  BaseInv /\ [Next]_vars =>
    \/ \E c \in Commander : Begins(c)
    \/ SlotKept
<1> DEFINE Goal ==
      \/ \E c \in Commander : Begins(c)
      \/ SlotKept
<1> SUFFICES ASSUME BaseInv, [Next]_vars PROVE Goal
  OBVIOUS
<1>0. VarsOK /\ SlotOK /\ IntentsOK /\ ControlOK /\ WorksOK
  BY DEF BaseInv
<1>1. ASSUME NEW c \in Commander, CommandStep(c) PROVE Goal
  <2>1. CASE CaptureOriginal(c)
    BY <2>1, <1>0 DEF SlotKept, SlotOK, store, runtime, CaptureOriginal
  <2>2. CASE Begins(c)
    BY <2>2
  <2>3. CASE Enter(c)
    <3>1. Live(c) /\ HasNext(c)
      BY <2>3 DEF Enter, Live
    <3>2. StateBefore(c) # "superseded-verified" /\ slot.id # 0
      BY <3>1, StateBeforeFacts, LiveFacts DEF TerminalStates
    <3>3. CanTransition(slot, StateBefore(c)) /\ slot' = Transitioned(slot, StateBefore(c))
      BY <2>3 DEF Enter, CommandTransition
    <3> QED
      BY <2>3, <3>2, <3>3, MovesFacts
      DEF Enter, CommandTransition, SlotKept, store, CanTransition
  <2>4. CASE Fetch(c)
    BY <2>4, <1>0 DEF SlotKept, SlotOK, store, runtime, Fetch
  <2>5. CASE QuickPasses(c)
    BY <2>5, <1>0 DEF SlotKept, SlotOK, store, runtime, QuickPasses
  <2>6. CASE SpawnWork(c)
    BY <2>6, <1>0 DEF SlotKept, SlotOK, store, runtime, SpawnWork
  <2>7. CASE ActivateAnchor(c)
    BY <2>7, <1>0 DEF SlotKept, SlotOK, store, runtime, ActivateAnchor
  <2>8. CASE VerifyRelease(c)
    BY <2>8, <1>0 DEF SlotKept, SlotOK, store, runtime, VerifyRelease
  <2>9. CASE AssertPointerAction(c)
    BY <2>9, <1>0 DEF SlotKept, SlotOK, store, runtime, AssertPointerAction
  <2>10. CASE PublishRollback(c)
    BY <2>10, <1>0 DEF SlotKept, SlotOK, store, runtime, PublishRollback
  <2>11. CASE ClearRollback(c)
    BY <2>11, <1>0 DEF SlotKept, SlotOK, store, runtime, ClearRollback
  <2>12. CASE Journal(c)
    <3>1. UNCHANGED <<intent, objects>> /\ LocksFree
      BY <2>12 DEF Journal, store
    <3>2. slot' = Advanced(slot, cmd[c].step, NextKind(c)) /\ slot \in Docs
      BY <1>0, <2>12 DEF Journal, VarsOK
    <3>3. /\ slot'.id = slot.id /\ slot'.op = slot.op /\ slot'.owner = slot.owner
          /\ slot'.tier = slot.tier /\ slot'.schema = slot.schema /\ slot'.state = slot.state
      BY <3>2 DEF Advanced, Docs
    <3> QED
      BY <1>0, <3>1, <3>3 DEF SlotKept, SlotOK
  <2>13. CASE Complete(c)
    <3>1. Live(c)
      BY <2>13 DEF Complete, Live
    <3>2. slot.id # 0
      BY <3>1, LiveFacts
    <3>3. CanTransition(slot, "completed") /\ slot' = Transitioned(slot, "completed")
      BY <2>13 DEF Complete, CommandTransition
    <3> QED
      BY <2>13, <3>2, <3>3, MovesFacts
      DEF Complete, CommandTransition, SlotKept, store, CanTransition
  <2>14. CASE Raise(c)
    BY <2>14, <1>0 DEF SlotKept, SlotOK, store, runtime, Raise
  <2>15. CASE Mark(c)
    <3>1. cmd[c].id # 0
      BY <1>0, <2>15 DEF Mark, Live, Busy, ControlOK, CommandOK, ReconcilerOK, IsActive, VarsOK,
         Docs
    <3> QED
      BY <2>15, <3>1, MarkedFacts DEF Mark, SlotKept, store
  <2>16. CASE Die(c)
    BY <2>16, <1>0 DEF SlotKept, SlotOK, store, runtime, Die
  <2> QED
    BY <1>1, <2>1, <2>2, <2>3, <2>4, <2>5, <2>6, <2>7, <2>8, <2>9, <2>10, <2>11,
       <2>12, <2>13, <2>14, <2>15, <2>16 DEF CommandStep, Begins
<1>2. ASSUME NEW p \in Process, WorkStep(p) PROVE Goal
  <2>1. CASE WorkEnters(p)
    BY <2>1, <1>0 DEF SlotKept, SlotOK, store, runtime, WorkEnters
  <2>2. CASE WorkFails(p)
    BY <2>2, <1>0 DEF SlotKept, SlotOK, store, runtime, WorkFails
  <2>3. CASE WorkActs(p)
    BY <1>0, <2>3, ActsEffect DEF SlotKept, SlotOK
  <2> QED
    BY <1>2, <2>1, <2>2, <2>3 DEF WorkStep
<1>3. ASSUME NEW r \in Reconciler, RecoveryStep(r) PROVE Goal
  <2>1. CASE FenceOrphan(r)
    <3>1. UNCHANGED <<intent, objects>> /\ LocksFree /\ slot.id # 0
      BY <2>1 DEF FenceOrphan, store, IsActive
    <3>2. /\ slot'.id = slot.id /\ slot'.op = slot.op /\ slot'.owner = slot.owner
          /\ slot'.tier = slot.tier /\ slot'.schema = slot.schema
          /\ slot'.state = "recovery_required"
      BY <1>0, <2>1 DEF FenceOrphan, VarsOK, Docs
    <3> QED
      BY <1>0, <3>1, <3>2 DEF SlotKept, SlotOK
  <2>2. CASE ReadPlan(r)
    BY <2>2, <1>0 DEF SlotKept, SlotOK, store, runtime, ReadPlan
  <2>3. CASE Classify(r)
    BY <2>3, <1>0 DEF SlotKept, SlotOK, store, runtime, Classify
  <2>4. CASE Confirm(r)
    BY <2>4, <1>0 DEF SlotKept, SlotOK, store, runtime, Confirm
  <2>5. CASE BeginRestoring(r)
    <3>1. slot.id # 0
      BY <1>0, <2>5
      DEF BeginRestoring, Live, Busy, ControlOK, CommandOK, ReconcilerOK, IsActive, VarsOK,
         Docs
    <3>2. PICK state : /\ CanTransition(slot, state) /\ slot' = Transitioned(slot, state)
                       /\ state # "superseded-verified"
      BY <2>5 DEF BeginRestoring
    <3> QED
      BY <2>5, <3>1, <3>2, MovesFacts DEF BeginRestoring, SlotKept, store, CanTransition
  <2>6. CASE RestoreProfile(r)
    BY <2>6, <1>0 DEF SlotKept, SlotOK, store, runtime, RestoreProfile
  <2>7. CASE SpawnRestore(r)
    BY <2>7, <1>0 DEF SlotKept, SlotOK, store, runtime, SpawnRestore
  <2>8. CASE Verify(r)
    BY <2>8, <1>0 DEF SlotKept, SlotOK, store, runtime, Verify
  <2>9. CASE ReadPointer(r)
    BY <2>9, <1>0 DEF SlotKept, SlotOK, store, runtime, ReadPointer
  <2>10. CASE RestorePointer(r)
    BY <2>10, <1>0 DEF SlotKept, SlotOK, store, runtime, RestorePointer
  <2>11. CASE Resolve(r)
    BY <2>11, <1>0 DEF SlotKept, SlotOK, store, runtime, Resolve
  <2>12. CASE Reopen(r)
    <3>1. slot.id # 0
      BY <1>0, <2>12
      DEF Reopen, Live, Busy, ControlOK, CommandOK, ReconcilerOK, IsActive, VarsOK,
         Docs
    <3>2. PICK state : /\ CanTransition(slot, state) /\ slot' = Transitioned(slot, state)
                       /\ state # "superseded-verified"
      BY <2>12 DEF Reopen
    <3> QED
      BY <2>12, <3>1, <3>2, MovesFacts DEF Reopen, SlotKept, store, CanTransition
  <2>13. CASE Close(r)
    <3>1. slot.id # 0
      BY <1>0, <2>13
      DEF Close, Live, Busy, ControlOK, CommandOK, ReconcilerOK, IsActive, VarsOK,
         Docs
    <3>2. PICK state : /\ CanTransition(slot, state) /\ slot' = Transitioned(slot, state)
                       /\ state # "superseded-verified"
      BY <2>13 DEF Close
    <3> QED
      BY <2>13, <3>1, <3>2, MovesFacts DEF Close, SlotKept, store, CanTransition
  <2>14. CASE RecoveryRaises(r)
    BY <2>14, <1>0 DEF SlotKept, SlotOK, store, runtime, RecoveryRaises
  <2>15. CASE MarkRecovery(r)
    <3>1. rec[r].id # 0
      BY <1>0, <2>15
      DEF MarkRecovery, Live, Busy, ControlOK, CommandOK, ReconcilerOK, IsActive, VarsOK,
         Docs
    <3> QED
      BY <2>15, <3>1, MarkedFacts DEF MarkRecovery, SlotKept, store
  <2>16. CASE Leave(r)
    BY <2>16, <1>0 DEF SlotKept, SlotOK, store, runtime, Leave
  <2> QED
    BY <1>3, <2>1, <2>2, <2>3, <2>4, <2>5, <2>6, <2>7, <2>8, <2>9, <2>10, <2>11,
       <2>12, <2>13, <2>14, <2>15, <2>16 DEF RecoveryStep
<1>4. CASE ContainerExits
  BY <1>4, <1>0 DEF SlotKept, SlotOK, store, runtime, ContainerExits
<1>5. CASE CandidateExits
  BY <1>5, <1>0 DEF SlotKept, SlotOK, store, runtime, CandidateExits
<1>6. CASE SupervisorStarts
  BY <1>6, <1>0 DEF SlotKept, SlotOK, store, runtime, SupervisorStarts
<1>7. CASE UNCHANGED vars
  BY <1>7, <1>0 DEF SlotKept, SlotOK, vars
<1> QED
  BY <1>1, <1>2, <1>3, <1>4, <1>5, <1>6, <1>7 DEF Next

\* BeginEffect: the transaction that begins, in one piece.
LEMMA BeginEffect ==
  ASSUME BaseInv, NEW c \in Commander, Begins(c)
  PROVE  \E frozen \in Intents :
           /\ slot.id + 1 \in Ids /\ ~IsActive(slot) /\ LocksFree
           /\ slot'.id = slot.id + 1 /\ slot'.op = frozen.op /\ slot'.state = "planned"
           /\ slot'.ordinal = 0 /\ slot'.owner = {c} /\ slot'.schema = 2
           /\ slot'.tier = "quick"
           /\ intent'[slot.id + 1] = frozen
           /\ \A i \in Ids \ {slot.id + 1} : intent'[i] = intent[i]
           /\ cmd'[c].at = "act" /\ cmd'[c].id = slot.id + 1 /\ cmd'[c].state = "planned"
           /\ cmd'[c].step = 0
           /\ \A d \in Commander \ {c} : cmd'[d] = cmd[d]
           /\ UNCHANGED <<pointer, selection, container, healthy, candidate, rec, work>>
           /\ frozen.op \in Operations
           /\ Found(frozen.original)
           /\ frozen.op \in TargetOperations => frozen.target \in Model
           /\ frozen.op \in RolloutOperations =>
                /\ frozen.original.healthy /\ frozen.original.model \in Model
                /\ frozen.spec \in objects' /\ frozen.previous = pointer
           /\ frozen.op = "upgrade" => frozen.spec = slot.id + 1
           /\ frozen.op = "rollback" =>
                /\ frozen.spec = pointer.active /\ pointer.active \in objects
                /\ frozen.original = intent[frozen.spec].original
                /\ frozen.target = frozen.original.selection
           /\ objects' = IF frozen.op = "upgrade" THEN objects \union {slot.id + 1}
                                                  ELSE objects
<1>1. PICK frozen \in Intents :
        /\ BeginWith(c, frozen) /\ frozen.op \in Operations
        /\ Found(frozen.original)
        /\ frozen.op \in TargetOperations => frozen.target \in Model
        /\ frozen.op \in RolloutOperations =>
             /\ frozen.original.healthy /\ frozen.original.model \in Model
             /\ frozen.spec \in objects' /\ frozen.previous = pointer
        /\ frozen.op = "upgrade" => frozen.spec = slot.id + 1
        /\ frozen.op = "rollback" =>
             /\ frozen.spec = pointer.active /\ pointer.active \in objects
             /\ frozen.original = intent[frozen.spec].original
             /\ frozen.target = frozen.original.selection
        /\ objects' = IF frozen.op = "upgrade" THEN objects \union {slot.id + 1}
                                               ELSE objects
  BY BeginsEffect
<1>2. VarsOK /\ SlotOK
  BY DEF BaseInv
<1>3. slot'.tier = "quick"
  BY <1>1 DEF BeginWith, NewDoc
<1> WITNESS frozen \in Intents
<1> QED
  BY <1>1, <1>2, <1>3, BeginFacts

\* SlotIsKept: the slot stays in order.
LEMMA SlotIsKept == BaseInv /\ [Next]_vars => SlotOK'
<1> SUFFICES ASSUME BaseInv, [Next]_vars PROVE SlotOK'
  OBVIOUS
<1>1. ASSUME NEW c \in Commander, Begins(c) PROVE SlotOK'
  <2>1. PICK frozen \in Intents :
          /\ slot'.id = slot.id + 1 /\ slot'.op = frozen.op /\ slot'.state = "planned"
          /\ intent'[slot.id + 1] = frozen /\ slot.id + 1 \in Ids
    BY <1>1, BeginEffect
  <2> QED
    BY <2>1 DEF SlotOK, Ids
<1> QED
  BY <1>1, SlotMoves DEF SlotKept

\* PointerMoves: the pointer names stored anchors only.
LEMMA PointerMoves == BaseInv /\ [Next]_vars =>
    {pointer'.active, pointer'.previous} \subseteq objects' \union {0}
<1> SUFFICES ASSUME BaseInv, [Next]_vars PROVE
      {pointer'.active, pointer'.previous} \subseteq objects' \union {0}
  OBVIOUS
<1>0. VarsOK /\ SlotOK /\ IntentsOK /\ ControlOK /\ WorksOK
  BY DEF BaseInv
<1>1. ASSUME NEW c \in Commander, CommandStep(c) PROVE
      {pointer'.active, pointer'.previous} \subseteq objects' \union {0}
  <2>1. CASE CaptureOriginal(c)
    BY <2>1, <1>0 DEF IntentsOK, store, runtime, CaptureOriginal
  <2>2. CASE Begins(c)
    <3>1. UNCHANGED pointer /\ objects \subseteq objects'
      BY <2>2, BeginEffect
    <3> QED
      BY <1>0, <3>1 DEF IntentsOK
  <2>3. CASE Enter(c)
    BY <2>3, <1>0 DEF IntentsOK, store, runtime, CommandTransition, Enter
  <2>4. CASE Fetch(c)
    BY <2>4, <1>0 DEF IntentsOK, store, runtime, Fetch
  <2>5. CASE QuickPasses(c)
    BY <2>5, <1>0 DEF IntentsOK, store, runtime, QuickPasses
  <2>6. CASE SpawnWork(c)
    BY <2>6, <1>0 DEF IntentsOK, store, runtime, SpawnWork
  <2>7. CASE ActivateAnchor(c)
    BY <2>7, <1>0 DEF IntentsOK, store, runtime, ActivateAnchor
  <2>8. CASE VerifyRelease(c)
    BY <2>8, <1>0 DEF IntentsOK, store, runtime, VerifyRelease
  <2>9. CASE AssertPointerAction(c)
    BY <2>9, <1>0 DEF IntentsOK, store, runtime, AssertPointerAction
  <2>10. CASE PublishRollback(c)
    <3>1. /\ pointer'.previous = pointer.active /\ objects' = objects
          /\ pointer'.active = Mine(c).spec
      BY <2>10 DEF PublishRollback, Successor, store
    <3> QED
      BY <1>0, <2>10, <3>1 DEF PublishRollback, IntentsOK, AnchorIsVerified, CanRestore
  <2>11. CASE ClearRollback(c)
    <3>1. /\ pointer'.previous = pointer.active /\ objects' = objects
          /\ pointer'.active = 0
      BY <2>11 DEF ClearRollback, Successor, store
    <3> QED
      BY <1>0, <2>11, <3>1 DEF ClearRollback, IntentsOK, AnchorIsVerified, CanRestore
  <2>12. CASE Journal(c)
    BY <2>12, <1>0 DEF IntentsOK, store, runtime, Journal
  <2>13. CASE Complete(c)
    BY <2>13, <1>0 DEF IntentsOK, store, runtime, CommandTransition, Complete
  <2>14. CASE Raise(c)
    BY <2>14, <1>0 DEF IntentsOK, store, runtime, Raise
  <2>15. CASE Mark(c)
    BY <2>15, <1>0 DEF IntentsOK, store, runtime, Mark
  <2>16. CASE Die(c)
    BY <2>16, <1>0 DEF IntentsOK, store, runtime, Die
  <2> QED
    BY <1>1, <2>1, <2>2, <2>3, <2>4, <2>5, <2>6, <2>7, <2>8, <2>9, <2>10, <2>11,
       <2>12, <2>13, <2>14, <2>15, <2>16 DEF CommandStep, Begins
<1>2. ASSUME NEW p \in Process, WorkStep(p) PROVE
      {pointer'.active, pointer'.previous} \subseteq objects' \union {0}
  <2>1. CASE WorkEnters(p)
    BY <2>1, <1>0 DEF IntentsOK, store, runtime, WorkEnters
  <2>2. CASE WorkFails(p)
    BY <2>2, <1>0 DEF IntentsOK, store, runtime, WorkFails
  <2>3. CASE WorkActs(p)
    BY <1>0, <2>3, ActsEffect DEF IntentsOK
  <2> QED
    BY <1>2, <2>1, <2>2, <2>3 DEF WorkStep
<1>3. ASSUME NEW r \in Reconciler, RecoveryStep(r) PROVE
      {pointer'.active, pointer'.previous} \subseteq objects' \union {0}
  <2>1. CASE FenceOrphan(r)
    BY <2>1, <1>0 DEF IntentsOK, store, runtime, FenceOrphan
  <2>2. CASE ReadPlan(r)
    BY <2>2, <1>0 DEF IntentsOK, store, runtime, ReadPlan
  <2>3. CASE Classify(r)
    BY <2>3, <1>0 DEF IntentsOK, store, runtime, Classify
  <2>4. CASE Confirm(r)
    BY <2>4, <1>0 DEF IntentsOK, store, runtime, Confirm
  <2>5. CASE BeginRestoring(r)
    BY <2>5, <1>0 DEF IntentsOK, store, runtime, BeginRestoring
  <2>6. CASE RestoreProfile(r)
    BY <2>6, <1>0 DEF IntentsOK, store, runtime, RestoreProfile
  <2>7. CASE SpawnRestore(r)
    BY <2>7, <1>0 DEF IntentsOK, store, runtime, SpawnRestore
  <2>8. CASE Verify(r)
    BY <2>8, <1>0 DEF IntentsOK, store, runtime, Verify
  <2>9. CASE ReadPointer(r)
    BY <2>9, <1>0 DEF IntentsOK, store, runtime, ReadPointer
  <2>10. CASE RestorePointer(r)
    <3>1. /\ pointer'.previous = pointer.active /\ objects' = objects
          /\ pointer'.active = Recovers(r).previous.active
      BY <2>10 DEF RestorePointer, Successor, store
    <3> QED
      BY <1>0, <2>10, <3>1
      DEF RestorePointer, CanUndoPointer, Recovers, IntentsOK, AnchorIsVerified, CanRestore
  <2>11. CASE Resolve(r)
    BY <2>11, <1>0 DEF IntentsOK, store, runtime, Resolve
  <2>12. CASE Reopen(r)
    BY <2>12, <1>0 DEF IntentsOK, store, runtime, Reopen
  <2>13. CASE Close(r)
    BY <2>13, <1>0 DEF IntentsOK, store, runtime, Close
  <2>14. CASE RecoveryRaises(r)
    BY <2>14, <1>0 DEF IntentsOK, store, runtime, RecoveryRaises
  <2>15. CASE MarkRecovery(r)
    BY <2>15, <1>0 DEF IntentsOK, store, runtime, MarkRecovery
  <2>16. CASE Leave(r)
    BY <2>16, <1>0 DEF IntentsOK, store, runtime, Leave
  <2> QED
    BY <1>3, <2>1, <2>2, <2>3, <2>4, <2>5, <2>6, <2>7, <2>8, <2>9, <2>10, <2>11,
       <2>12, <2>13, <2>14, <2>15, <2>16 DEF RecoveryStep
<1>4. CASE ContainerExits
  BY <1>4, <1>0 DEF IntentsOK, store, runtime, ContainerExits
<1>5. CASE CandidateExits
  BY <1>5, <1>0 DEF IntentsOK, store, runtime, CandidateExits
<1>6. CASE SupervisorStarts
  BY <1>6, <1>0 DEF IntentsOK, store, runtime, SupervisorStarts
<1>7. CASE UNCHANGED vars
  BY <1>7, <1>0 DEF IntentsOK, vars
<1> QED
  BY <1>1, <1>2, <1>3, <1>4, <1>5, <1>6, <1>7 DEF Next


\* IntentsAreKept: what the transactions froze stays true.
LEMMA IntentsAreKept == BaseInv /\ [Next]_vars => IntentsOK'
<1> SUFFICES ASSUME BaseInv, [Next]_vars PROVE IntentsOK'
  OBVIOUS
<1>0. /\ IntentsOK /\ slot.id \in Nat /\ \A id \in objects : id \in Ids /\ id <= slot.id
      /\ \A id \in Ids : id \in Nat
  BY RuntimeChangeAssumption DEF BaseInv, VarsOK, IntentsOK, Docs, Ids
<1>1. CASE SlotKept
  BY <1>0, <1>1, PointerMoves DEF SlotKept, IntentsOK, IntentOK
<1>2. ASSUME NEW c \in Commander, Begins(c) PROVE IntentsOK'
  <2>1. PICK frozen \in Intents :
          /\ slot.id + 1 \in Ids
          /\ slot'.id = slot.id + 1
          /\ intent'[slot.id + 1] = frozen
          /\ \A i \in Ids \ {slot.id + 1} : intent'[i] = intent[i]
          /\ UNCHANGED pointer
          /\ frozen.op \in Operations
          /\ Found(frozen.original)
          /\ frozen.op \in TargetOperations => frozen.target \in Model
          /\ frozen.op \in RolloutOperations =>
               /\ frozen.original.healthy /\ frozen.original.model \in Model
               /\ frozen.spec \in objects' /\ frozen.previous = pointer
          /\ frozen.op = "upgrade" => frozen.spec = slot.id + 1
          /\ frozen.op = "rollback" =>
               /\ frozen.spec = pointer.active /\ pointer.active \in objects
               /\ frozen.original = intent[frozen.spec].original
               /\ frozen.target = frozen.original.selection
          /\ objects' = IF frozen.op = "upgrade" THEN objects \union {slot.id + 1}
                                                 ELSE objects
    BY <1>2, BeginEffect
  <2>0. PICK new \in Ids : new = slot.id + 1
    BY <2>1
  <2>2. \A id \in objects : id # new /\ intent'[id] = intent[id]
    <3>1. ASSUME NEW id \in objects PROVE id # slot.id + 1 /\ id \in Ids
      BY <1>0
    <3>2. \A i \in Ids \ {slot.id + 1} : intent'[i] = intent[i]
      BY <2>1
    <3> QED
      BY <2>0, <3>1, <3>2
  <2>3. {pointer.active, pointer.previous} \subseteq objects \union {0}
    BY <1>0 DEF IntentsOK
  <2>4. IntentOK(new)'
    <3>1. pointer.active < new
      <4>1. 0 < slot.id + 1
        BY <1>0
      <4>2. ASSUME pointer.active \in objects PROVE pointer.active < slot.id + 1
        BY <1>0, <4>2
      <4> QED
        BY <2>0, <2>3, <4>1, <4>2
    <3>2. frozen.op # "none" /\ ~(new > slot'.id) /\ objects \subseteq objects'
      BY <1>0, <2>0, <2>1 DEF Operations
    <3>3. frozen.op = "rollback" => intent'[frozen.spec] = intent[frozen.spec]
      BY <2>1, <2>2
    <3>4. intent'[new] = frozen
      BY <2>0, <2>1
    <3>5. frozen.op = "upgrade" => frozen.spec = new
      BY <2>0, <2>1
    <3>6. frozen.op = "rollback" => frozen.op \in RolloutOperations
      BY DEF RolloutOperations
    <3> QED
      BY <2>1, <2>3, <3>1, <3>2, <3>3, <3>4, <3>5, <3>6 DEF IntentOK
  <2>5. ASSUME NEW id \in Ids, id # new PROVE IntentOK(id)'
    <3>1. intent'[id] = intent[id] /\ IntentOK(id) /\ objects \subseteq objects'
      BY <1>0, <2>0, <2>1, <2>5 DEF IntentsOK
    <3>2. id > slot'.id <=> id > slot.id
      BY <1>0, <2>0, <2>1, <2>5
    <3>3. intent[id].op = "rollback" => intent'[intent[id].spec] = intent[intent[id].spec]
      BY <2>2, <3>1 DEF IntentOK, RolloutOperations
    <3> QED
      BY <3>1, <3>2, <3>3 DEF IntentOK
  <2>6. \A id \in objects' : id <= slot'.id /\ intent'[id].op = "upgrade"
    <3>1. \A id \in objects : id <= slot'.id /\ intent'[id].op = "upgrade"
      BY <1>0, <2>1, <2>2 DEF IntentsOK
    <3> QED
      BY <1>0, <2>0, <2>1, <2>4, <3>1
  <2> QED
    BY <2>4, <2>5, <2>6, PointerMoves DEF IntentsOK
<1> QED
  BY <1>1, <1>2, SlotMoves
\* RecsMove: a reconciler at work goes on with what it read, and reads the fenced transaction.
LEMMA RecsMove ==
  BaseInv /\ [Next]_vars =>
    \A s \in Reconciler :
      Busy(s)' => \/ Busy(s) /\ rec'[s].id = rec[s].id
                  \/ /\ rec'[s].id = slot.id /\ IsActive(slot) /\ slot' = slot
                     /\ slot.state = "recovery_required"
<1> DEFINE Goal ==
      \A s \in Reconciler :
        Busy(s)' => \/ Busy(s) /\ rec'[s].id = rec[s].id
                    \/ /\ rec'[s].id = slot.id /\ IsActive(slot) /\ slot' = slot
                       /\ slot.state = "recovery_required"
<1> SUFFICES ASSUME BaseInv, [Next]_vars PROVE Goal
  OBVIOUS
<1>0. VarsOK /\ SlotOK /\ IntentsOK /\ ControlOK /\ WorksOK
  BY DEF BaseInv
<1>1. ASSUME NEW c \in Commander, CommandStep(c) PROVE Goal
  <2>1. CASE CaptureOriginal(c)
    BY <2>1, <1>0 DEF Busy, store, runtime, CaptureOriginal
  <2>2. CASE Begins(c)
    BY <1>0, <2>2, BeginEffect DEF Busy
  <2>3. CASE Enter(c)
    BY <2>3, <1>0 DEF Busy, store, runtime, CommandTransition, Enter
  <2>4. CASE Fetch(c)
    BY <2>4, <1>0 DEF Busy, store, runtime, Fetch
  <2>5. CASE QuickPasses(c)
    BY <2>5, <1>0 DEF Busy, store, runtime, QuickPasses
  <2>6. CASE SpawnWork(c)
    BY <2>6, <1>0 DEF Busy, store, runtime, SpawnWork
  <2>7. CASE ActivateAnchor(c)
    BY <2>7, <1>0 DEF Busy, store, runtime, ActivateAnchor
  <2>8. CASE VerifyRelease(c)
    BY <2>8, <1>0 DEF Busy, store, runtime, VerifyRelease
  <2>9. CASE AssertPointerAction(c)
    BY <2>9, <1>0 DEF Busy, store, runtime, AssertPointerAction
  <2>10. CASE PublishRollback(c)
    BY <2>10, <1>0 DEF Busy, store, runtime, PublishRollback
  <2>11. CASE ClearRollback(c)
    BY <2>11, <1>0 DEF Busy, store, runtime, ClearRollback
  <2>12. CASE Journal(c)
    BY <2>12, <1>0 DEF Busy, store, runtime, Journal
  <2>13. CASE Complete(c)
    BY <2>13, <1>0 DEF Busy, store, runtime, CommandTransition, Complete
  <2>14. CASE Raise(c)
    BY <2>14, <1>0 DEF Busy, store, runtime, Raise
  <2>15. CASE Mark(c)
    BY <2>15, <1>0 DEF Busy, store, runtime, Mark
  <2>16. CASE Die(c)
    BY <2>16, <1>0 DEF Busy, store, runtime, Die
  <2> QED
    BY <1>1, <2>1, <2>2, <2>3, <2>4, <2>5, <2>6, <2>7, <2>8, <2>9, <2>10, <2>11,
       <2>12, <2>13, <2>14, <2>15, <2>16 DEF CommandStep, Begins
<1>2. ASSUME NEW p \in Process, WorkStep(p) PROVE Goal
  <2>1. CASE WorkEnters(p)
    BY <2>1, <1>0 DEF Busy, store, runtime, WorkEnters
  <2>2. CASE WorkFails(p)
    BY <1>0, <2>2, WorkOverEffect, ProcessesDiffer DEF WorkFails, Busy
  <2>3. CASE WorkActs(p)
    <3>1. UNCHANGED rec \/ \E ok \in BOOLEAN : WorkOver(p, ok)
      BY <2>3, ActsEffect
    <3> QED
      BY <1>0, <3>1, WorkOverEffect, ProcessesDiffer DEF Busy
  <2> QED
    BY <1>2, <2>1, <2>2, <2>3 DEF WorkStep
<1>3. ASSUME NEW r \in Reconciler, RecoveryStep(r) PROVE Goal
  <2>1. CASE FenceOrphan(r)
    BY <2>1, <1>0, GoesEffect DEF Places, Busy, FenceOrphan
  <2>2. CASE ReadPlan(r)
    <3>1. rec'[r].id = slot.id /\ \A s \in Reconciler \ {r} : rec'[s] = rec[s]
      BY <1>0, <2>2, AwayEffect DEF ReadPlan, VarsOK, Recs, Away
    <3> QED
      BY <1>0, <2>2, <3>1 DEF ReadPlan, Busy
  <2>3. CASE Classify(r)
    BY <2>3, <1>0, GoesEffect DEF Places, Busy, Classify
  <2>4. CASE Confirm(r)
    BY <2>4, <1>0, GoesEffect DEF Places, Busy, Confirm
  <2>5. CASE BeginRestoring(r)
    BY <2>5, <1>0, GoesEffect DEF Places, Busy, BeginRestoring
  <2>6. CASE RestoreProfile(r)
    <3>1. rec'[r].id = rec[r].id /\ \A s \in Reconciler \ {r} : rec'[s] = rec[s]
      BY <1>0, <2>6 DEF RestoreProfile, VarsOK, Recs
    <3> QED
      BY <1>0, <2>6, <3>1 DEF RestoreProfile, Busy
  <2>7. CASE SpawnRestore(r)
    BY <2>7, <1>0, GoesEffect DEF Places, Busy, SpawnRestore
  <2>8. CASE Verify(r)
    BY <2>8, <1>0, GoesEffect DEF Places, Busy, Verify
  <2>9. CASE ReadPointer(r)
    BY <2>9, <1>0, GoesEffect DEF Places, Busy, ReadPointer
  <2>10. CASE RestorePointer(r)
    BY <2>10, <1>0, GoesEffect DEF Places, Busy, RestorePointer
  <2>11. CASE Resolve(r)
    BY <2>11, <1>0, GoesEffect DEF Places, Busy, Resolve
  <2>12. CASE Reopen(r)
    BY <2>12, <1>0, GoesEffect DEF Places, Busy, Reopen
  <2>13. CASE Close(r)
    <3>1. rec'[r].at = "idle" /\ \A s \in Reconciler \ {r} : rec'[s] = rec[s]
      BY <1>0, <2>13 DEF Close, VarsOK, Away
    <3> QED
      BY <1>0, <2>13, <3>1 DEF Close, Busy
  <2>14. CASE RecoveryRaises(r)
    BY <2>14, <1>0, GoesEffect DEF Places, Busy, RecoveryRaises
  <2>15. CASE MarkRecovery(r)
    <3>1. rec'[r].at = "idle" /\ \A s \in Reconciler \ {r} : rec'[s] = rec[s]
      BY <1>0, <2>15 DEF MarkRecovery, VarsOK, Away
    <3> QED
      BY <1>0, <2>15, <3>1 DEF MarkRecovery, Busy
  <2>16. CASE Leave(r)
    <3>1. rec'[r].at = "idle" /\ \A s \in Reconciler \ {r} : rec'[s] = rec[s]
      BY <1>0, <2>16 DEF Leave, VarsOK, Away
    <3> QED
      BY <1>0, <2>16, <3>1 DEF Leave, Busy
  <2> QED
    BY <1>3, <2>1, <2>2, <2>3, <2>4, <2>5, <2>6, <2>7, <2>8, <2>9, <2>10, <2>11,
       <2>12, <2>13, <2>14, <2>15, <2>16 DEF RecoveryStep
<1>4. CASE ContainerExits
  BY <1>4, <1>0 DEF Busy, store, runtime, ContainerExits
<1>5. CASE CandidateExits
  BY <1>5, <1>0 DEF Busy, store, runtime, CandidateExits
<1>6. CASE SupervisorStarts
  BY <1>6, <1>0 DEF Busy, store, runtime, SupervisorStarts
<1>7. CASE UNCHANGED vars
  BY <1>7, <1>0 DEF Busy, vars
<1> QED
  BY <1>1, <1>2, <1>3, <1>4, <1>5, <1>6, <1>7 DEF Next


\* CommandFrame: a command is not moved by what leaves it and the slot alone.
LEMMA CommandFrame ==
  ASSUME BaseInv, [Next]_vars, NEW d \in Commander, slot' = slot, cmd'[d] = cmd[d]
  PROVE  CommandOK(d)'
<1>1. CommandOK(d)
  BY DEF BaseInv, ControlOK
<1>2. ASSUME Live(d), NEW r \in Reconciler, Busy(r)' PROVE rec'[r].id # slot.id
  BY <1>2, RecsMove, LiveFacts
<1> QED
  BY <1>1, <1>2 DEF CommandOK, Live

\* CommandRests: nor is one that does not go on.
LEMMA CommandRests ==
  ASSUME NEW d \in Commander, ~Live(d), cmd'[d] = cmd[d] PROVE CommandOK(d)'
BY DEF CommandOK, Live

\* CommandOver: or has ended.
LEMMA CommandOver ==
  ASSUME NEW d \in Commander, cmd'[d].at \in {"idle", "captured"} PROVE CommandOK(d)'
BY DEF CommandOK, Live

\* CommandOnward: a command that goes on with its plan while the slot stays.
LEMMA CommandOnward ==
  ASSUME BaseInv, [Next]_vars, NEW c \in Commander, Live(c), slot' = slot,
         cmd'[c].id = cmd[c].id, cmd'[c].state = cmd[c].state,
         \/ cmd'[c].step = cmd[c].step
         \/ /\ ~IsRollout(slot) /\ cmd'[c].step = cmd[c].step + 1
            /\ cmd[c].step < LenOf(slot.op),
         cmd'[c].at \in {"publish", "wait", "journal"} => cmd'[c].step < LenOf(slot.op),
         cmd'[c].at = "publish" => IsRollout(slot) /\ cmd'[c].step + 1 = LenOf(slot.op),
         cmd'[c].at = "journal" => IsRollout(slot)
  PROVE  CommandOK(c)'
<1>1. CommandOK(c) /\ cmd[c].step \in Nat /\ LenOf(slot.op) \in Nat
  BY MineFacts DEF BaseInv, ControlOK
<1>2. ASSUME NEW r \in Reconciler, Busy(r)' PROVE rec'[r].id # slot.id
  BY <1>2, RecsMove, LiveFacts
<1>3. cmd'[c].step <= LenOf(slot.op) /\ (cmd'[c].step = 0 => cmd[c].step = 0)
  BY <1>1 DEF CommandOK
<1>4. IsRollout(slot) => cmd'[c].step = cmd[c].step
  OBVIOUS
<1> QED
  BY <1>1, <1>2, <1>3, <1>4 DEF CommandOK

\* DoneOnward: so does one whose action is done.
LEMMA DoneOnward ==
  ASSUME BaseInv, [Next]_vars, NEW c \in Commander, Live(c), slot' = slot,
         cmd[c].step < LenOf(slot.op), Done(c)
  PROVE  \A d \in Commander : CommandOK(d)'
<1>1. VarsOK /\ (IsMineRollout(c) <=> IsRollout(slot))
  BY MineFacts DEF BaseInv
<1>2. CommandOK(c)'
  BY <1>1, DoneEffect, CommandOnward
<1> QED
  BY <1>1, <1>2, DoneEffect, CommandFrame

\* PointerIsLast: the pointer action of a rollout is its last.
LEMMA PointerIsLast ==
  ASSUME NEW op \in Operations, NEW n \in 0 .. LenOf(op) - 1,
         KindAt(op, n) \in {"publish-rollback", "clear-rollback"}
  PROVE  op \in RolloutOperations /\ n + 1 = LenOf(op)
BY FetchesAssumption
DEF KindAt, LenOf, ActivateStep, Operations, TargetOperations, RolloutOperations

\* WorkWaited: work that is over sends a command on, or to mark its failure.
LEMMA WorkWaited ==
  ASSUME BaseInv, [Next]_vars, NEW p \in Process, NEW ok \in BOOLEAN, WorkOver(p, ok),
         slot' = slot
  PROVE  \A d \in Commander : CommandOK(d)'
<1>1. VarsOK
  BY DEF BaseInv
<1>2. CASE p \in Commander /\ cmd[p].at = "wait"
  <2>1. Live(p) /\ cmd[p].step < LenOf(slot.op)
    BY <1>2 DEF BaseInv, ControlOK, CommandOK, Live
  <2>2. IsMineRollout(p) <=> IsRollout(slot)
    BY <1>2, <2>1, MineFacts
  <2>3. CommandOK(p)'
    BY <1>1, <1>2, <2>1, <2>2, WorkOverEffect, CommandOnward
  <2> QED
    BY <1>1, <2>3, WorkOverEffect, CommandFrame
<1>3. CASE ~(p \in Commander /\ cmd[p].at = "wait")
  BY <1>1, <1>3, WorkOverEffect, CommandFrame
<1> QED
  BY <1>2, <1>3

\* CommandsAreKept: every command stays the only one on the transaction it owns.
LEMMA CommandsAreKept == BaseInv /\ [Next]_vars => \A d \in Commander : CommandOK(d)'
<1> SUFFICES ASSUME BaseInv, [Next]_vars PROVE \A d \in Commander : CommandOK(d)'
  OBVIOUS
<1>0. VarsOK /\ SlotOK /\ IntentsOK /\ ControlOK /\ WorksOK
  BY DEF BaseInv
<1>1. ASSUME NEW c \in Commander, CommandStep(c) PROVE \A d \in Commander : CommandOK(d)'
  <2>1. CASE CaptureOriginal(c)
    <3>1. cmd'[c].at = "captured" /\ \A d \in Commander \ {c} : cmd'[d] = cmd[d]
      BY <1>0, <2>1 DEF CaptureOriginal, VarsOK, Quiet
    <3> QED
      BY <2>1, <3>1, CommandOver, CommandFrame DEF CaptureOriginal
  <2>2. CASE Begins(c)
    <3>1. PICK frozen \in Intents :
            /\ slot.id + 1 \in Ids /\ ~IsActive(slot)
            /\ slot'.id = slot.id + 1 /\ slot'.op = frozen.op /\ slot'.state = "planned"
            /\ slot'.ordinal = 0 /\ slot'.owner = {c} /\ slot'.schema = 2
            /\ cmd'[c].at = "act" /\ cmd'[c].id = slot.id + 1 /\ cmd'[c].state = "planned"
            /\ cmd'[c].step = 0 /\ frozen.op \in Operations
            /\ \A d \in Commander \ {c} : cmd'[d] = cmd[d]
            /\ UNCHANGED rec
      BY <2>2, BeginEffect
    <3>2. \A d \in Commander \ {c} : CommandOK(d)'
      BY <3>1, NobodyLive, CommandRests
    <3>3. \A r \in Reconciler : Busy(r) => rec[r].id \in 1 .. slot.id
      BY <1>0 DEF ControlOK, ReconcilerOK
    <3>4. slot.id \in Nat /\ LenOf(frozen.op) \in Nat
      BY <1>0, RuntimeChangeAssumption, FetchesAssumption
      DEF VarsOK, Docs, LenOf, ActivateStep
    <3>5. \A r \in Reconciler : Busy(r)' => rec'[r].id # slot'.id
      BY <3>1, <3>3, <3>4 DEF Busy
    <3>6. IsActive(slot')
      BY <3>1, <3>4 DEF IsActive, IsTerminal, TerminalStates
    <3>7. CommandOK(c)'
      BY <3>1, <3>4, <3>5, <3>6 DEF CommandOK, RecoveryStates, ReleaseStates
    <3> QED
      BY <3>2, <3>7
  <2>3. CASE Enter(c)
    <3>1. Live(c) /\ HasNext(c)
      BY <2>3 DEF Enter, Live
    <3>2. /\ CanTransition(slot, StateBefore(c)) /\ slot' = Transitioned(slot, StateBefore(c))
          /\ intent' = intent
      BY <2>3 DEF Enter, CommandTransition
    <3>3. /\ StateBefore(c) \in States \ TerminalStates
          /\ StateBefore(c) # "recovery_required"
          /\ IsRollout(slot) => StateBefore(c) \notin RecoveryStates
          /\ slot.op = "release" /\ cmd[c].step = 0 => StateBefore(c) \in DOMAIN ReleaseStates
      BY <3>1, StateBeforeFacts
    <3>4. /\ slot'.id = slot.id /\ slot'.op = slot.op /\ slot'.state = StateBefore(c)
          /\ slot'.owner = slot.owner /\ slot'.ordinal = slot.ordinal /\ slot'.schema = 2
          /\ slot.id # 0
      BY <3>1, <3>2, <3>3, MovesFacts, LiveFacts DEF TerminalStates
    <3>5. IsActive(slot') /\ (IsRollout(slot') <=> IsRollout(slot))
      BY <3>3, <3>4 DEF IsActive, IsTerminal, IsRollout
    <3>6. /\ cmd'[c].at = "act" /\ cmd'[c].id = cmd[c].id /\ cmd'[c].step = cmd[c].step
          /\ cmd'[c].state = StateBefore(c)
          /\ \A d \in Commander \ {c} : cmd'[d] = cmd[d]
      BY <1>0, <2>3 DEF Enter, VarsOK, Cmds
    <3>7. \A r \in Reconciler : Busy(r)' => rec'[r].id # slot'.id
      BY <2>3, <3>1, <3>4, LiveFacts DEF Enter, CommandTransition, Busy
    <3>8. CommandOK(c)'
      BY <1>0, <3>1, <3>3, <3>4, <3>5, <3>6, <3>7 DEF ControlOK, CommandOK
    <3> QED
      BY <3>1, <3>6, <3>8, LiveFacts, CommandRests
  <2>4. CASE Fetch(c)
    <3>1. Live(c) /\ cmd[c].step < LenOf(slot.op)
      BY <2>4, MineFacts DEF Fetch, At, Live
    <3> QED
      BY <2>4, <3>1, DoneOnward DEF Fetch
  <2>5. CASE QuickPasses(c)
    <3>1. Live(c) /\ cmd[c].step < LenOf(slot.op)
      BY <2>5, MineFacts DEF QuickPasses, At, Live
    <3> QED
      BY <2>5, <3>1, DoneOnward DEF QuickPasses
  <2>6. CASE SpawnWork(c)
    <3>1. /\ Live(c) /\ cmd[c].step < LenOf(slot.op)
          /\ cmd' = [cmd EXCEPT ![c].at = "wait"] /\ slot' = slot
      BY <2>6, MineFacts DEF SpawnWork, At, Live
    <3> QED
      BY <1>0, <3>1, AtEffect, CommandOnward, CommandFrame
  <2>7. CASE ActivateAnchor(c)
    <3>1. Live(c) /\ cmd[c].step < LenOf(slot.op)
      BY <2>7, MineFacts DEF ActivateAnchor, At, Live
    <3> QED
      BY <2>7, <3>1, DoneOnward DEF ActivateAnchor
  <2>8. CASE VerifyRelease(c)
    <3>1. Live(c) /\ cmd[c].step < LenOf(slot.op)
      BY <2>8, MineFacts DEF VerifyRelease, At, Live
    <3> QED
      BY <2>8, <3>1, DoneOnward DEF VerifyRelease
  <2>9. CASE AssertPointerAction(c)
    <3>1. /\ Live(c) /\ HasNext(c) /\ NextKind(c) \in {"publish-rollback", "clear-rollback"}
          /\ cmd' = [cmd EXCEPT ![c].at = "publish"] /\ slot' = slot
      BY <2>9 DEF AssertPointerAction, At, Live
    <3>2. /\ slot.op \in Operations /\ LenOf(slot.op) \in Nat
          /\ cmd[c].step \in Nat /\ cmd[c].step < LenOf(slot.op)
          /\ NextKind(c) = KindAt(slot.op, cmd[c].step)
      BY <3>1, MineFacts
    <3>3. IsRollout(slot) /\ cmd[c].step + 1 = LenOf(slot.op)
      BY <3>1, <3>2, PointerIsLast DEF IsRollout
    <3> QED
      BY <1>0, <3>1, <3>2, <3>3, AtEffect, CommandOnward, CommandFrame
  <2>10. CASE PublishRollback(c)
    <3>1. /\ Live(c) /\ cmd' = [cmd EXCEPT ![c].at = "journal"] /\ slot' = slot
      BY <2>10 DEF PublishRollback, Live
    <3>2. IsRollout(slot) /\ cmd[c].step < LenOf(slot.op)
      BY <1>0, <2>10, <3>1 DEF PublishRollback, ControlOK, CommandOK
    <3> QED
      BY <1>0, <3>1, <3>2, AtEffect, CommandOnward, CommandFrame
  <2>11. CASE ClearRollback(c)
    <3>1. /\ Live(c) /\ cmd' = [cmd EXCEPT ![c].at = "journal"] /\ slot' = slot
      BY <2>11 DEF ClearRollback, Live
    <3>2. IsRollout(slot) /\ cmd[c].step < LenOf(slot.op)
      BY <1>0, <2>11, <3>1 DEF ClearRollback, ControlOK, CommandOK
    <3> QED
      BY <1>0, <3>1, <3>2, AtEffect, CommandOnward, CommandFrame
  <2>12. CASE Journal(c)
    <3>1. Live(c) /\ IsRollout(slot) /\ cmd[c].step < LenOf(slot.op) /\ CommandOK(c)
      BY <1>0, <2>12 DEF Journal, Live, ControlOK, CommandOK
    <3>2. slot' = Advanced(slot, cmd[c].step, NextKind(c)) /\ slot \in Docs
      BY <1>0, <2>12 DEF Journal, VarsOK
    <3>3. /\ slot'.id = slot.id /\ slot'.op = slot.op /\ slot'.owner = slot.owner
          /\ slot'.schema = slot.schema /\ slot'.state = slot.state
          /\ slot'.ordinal = cmd[c].step + 1
      BY <3>2 DEF Advanced, Docs
    <3>4. /\ cmd'[c].at = "act" /\ cmd'[c].id = cmd[c].id /\ cmd'[c].step = cmd[c].step + 1
          /\ cmd'[c].state = cmd[c].state
          /\ \A d \in Commander \ {c} : cmd'[d] = cmd[d]
      BY <1>0, <2>12 DEF Journal, VarsOK, Cmds
    <3>5. \A r \in Reconciler : Busy(r)' => rec'[r].id # slot'.id
      BY <2>12, <3>1, <3>3, LiveFacts DEF Journal, Busy
    <3>6. cmd[c].step \in Nat /\ LenOf(slot.op) \in Nat
      BY <3>1, MineFacts
    <3>7. cmd'[c].step <= LenOf(slot.op) /\ cmd'[c].step # 0
      BY <3>1, <3>4, <3>6
    <3>8. IsActive(slot') /\ (IsRollout(slot') <=> IsRollout(slot))
      BY <3>1, <3>3 DEF IsActive, IsTerminal, IsRollout, CommandOK
    <3>9. CommandOK(c)'
      BY <3>1, <3>3, <3>4, <3>5, <3>7, <3>8 DEF CommandOK
    <3> QED
      BY <3>1, <3>4, <3>9, LiveFacts, CommandRests
  <2>13. CASE Complete(c)
    <3>1. Live(c) /\ cmd' = [cmd EXCEPT ![c] = Quiet]
      BY <2>13 DEF Complete, Live
    <3> QED
      BY <1>0, <3>1, QuietEffect, LiveFacts, CommandOver, CommandRests
  <2>14. CASE Raise(c)
    <3>1. Live(c) /\ cmd' = [cmd EXCEPT ![c].at = "failing"] /\ slot' = slot
      BY <2>14 DEF Raise, Live
    <3> QED
      BY <1>0, <3>1, AtEffect, CommandOnward, CommandFrame
  <2>15. CASE Mark(c)
    <3>1. Live(c) /\ cmd' = [cmd EXCEPT ![c] = Quiet]
      BY <2>15 DEF Mark, Live
    <3> QED
      BY <1>0, <3>1, QuietEffect, LiveFacts, CommandOver, CommandRests
  <2>16. CASE Die(c)
    BY <1>0, <2>16, QuietEffect, CommandFrame, CommandOver DEF Die
  <2> QED
    BY <1>1, <2>1, <2>2, <2>3, <2>4, <2>5, <2>6, <2>7, <2>8, <2>9, <2>10, <2>11,
       <2>12, <2>13, <2>14, <2>15, <2>16 DEF CommandStep, Begins
<1>2. ASSUME NEW p \in Process, WorkStep(p) PROVE \A d \in Commander : CommandOK(d)'
  <2>1. CASE WorkEnters(p)
    BY <2>1, CommandFrame DEF WorkEnters
  <2>2. CASE WorkFails(p)
    BY <2>2, WorkWaited DEF WorkFails
  <2>3. CASE WorkActs(p)
    <3>1. slot' = slot /\ (UNCHANGED cmd \/ \E ok \in BOOLEAN : WorkOver(p, ok))
      BY <2>3, ActsEffect
    <3> QED
      BY <3>1, WorkWaited, CommandFrame
  <2> QED
    BY <1>2, <2>1, <2>2, <2>3 DEF WorkStep
<1>3. ASSUME NEW r \in Reconciler, RecoveryStep(r) PROVE \A d \in Commander : CommandOK(d)'
  <2>1. CASE FenceOrphan(r)
    <3>1. InitiatorDead /\ cmd' = cmd
      BY <2>1 DEF FenceOrphan, Busy
    <3> QED
      BY <3>1, NobodyLive, CommandRests
  <2>2. CASE ReadPlan(r)
    BY <2>2, CommandFrame DEF ReadPlan
  <2>3. CASE Classify(r)
    BY <2>3, CommandFrame DEF Classify
  <2>4. CASE Confirm(r)
    BY <2>4, CommandFrame DEF Confirm
  <2>5. CASE BeginRestoring(r)
    <3>1. Busy(r) /\ rec[r].id = slot.id /\ cmd' = cmd
      BY <2>5 DEF BeginRestoring, Busy
    <3> QED
      BY <3>1, NobodyLive, CommandRests
  <2>6. CASE RestoreProfile(r)
    BY <2>6, CommandFrame DEF RestoreProfile
  <2>7. CASE SpawnRestore(r)
    BY <2>7, CommandFrame DEF SpawnRestore
  <2>8. CASE Verify(r)
    BY <2>8, CommandFrame DEF Verify
  <2>9. CASE ReadPointer(r)
    BY <2>9, CommandFrame DEF ReadPointer
  <2>10. CASE RestorePointer(r)
    BY <2>10, CommandFrame DEF RestorePointer
  <2>11. CASE Resolve(r)
    BY <2>11, CommandFrame DEF Resolve
  <2>12. CASE Reopen(r)
    <3>1. Busy(r) /\ rec[r].id = slot.id /\ cmd' = cmd
      BY <2>12 DEF Reopen, Busy
    <3> QED
      BY <3>1, NobodyLive, CommandRests
  <2>13. CASE Close(r)
    <3>1. Busy(r) /\ rec[r].id = slot.id /\ cmd' = cmd
      BY <2>13 DEF Close, Busy
    <3> QED
      BY <3>1, NobodyLive, CommandRests
  <2>14. CASE RecoveryRaises(r)
    BY <2>14, CommandFrame DEF RecoveryRaises
  <2>15. CASE MarkRecovery(r)
    <3>1. CASE rec[r].id = slot.id
      BY <2>15, <3>1, NobodyLive, CommandRests DEF MarkRecovery, Busy
    <3>2. CASE rec[r].id # slot.id
      BY <2>15, <3>2, CommandFrame DEF MarkRecovery, Marked
    <3> QED
      BY <3>1, <3>2
  <2>16. CASE Leave(r)
    BY <2>16, CommandFrame DEF Leave
  <2> QED
    BY <1>3, <2>1, <2>2, <2>3, <2>4, <2>5, <2>6, <2>7, <2>8, <2>9, <2>10, <2>11,
       <2>12, <2>13, <2>14, <2>15, <2>16 DEF RecoveryStep
<1>4. CASE ContainerExits
  BY <1>4, CommandFrame DEF ContainerExits
<1>5. CASE CandidateExits
  BY <1>5, CommandFrame DEF CandidateExits
<1>6. CASE SupervisorStarts
  BY <1>6, CommandFrame DEF SupervisorStarts
<1>7. CASE UNCHANGED vars
  BY <1>7, CommandFrame DEF vars
<1> QED
  BY <1>1, <1>2, <1>3, <1>4, <1>5, <1>6, <1>7 DEF Next
\* SlotSteps: its own command alone takes a transaction further and completes it, a reconciler
\* alone closes it, and every other step takes an unfinished one to recovery.
LEMMA SlotSteps ==
  BaseInv /\ [Next]_vars =>
    \/ slot' = slot
    \/ \E c \in Commander : Begins(c) \/ Enter(c) \/ Journal(c) \/ Complete(c)
    \/ \E r \in Reconciler : Close(r)
    \/ IsActive(slot) /\ slot'.state \in RecoveryStates
<1> DEFINE Goal ==
      \/ slot' = slot
      \/ \E c \in Commander : Begins(c) \/ Enter(c) \/ Journal(c) \/ Complete(c)
      \/ \E r \in Reconciler : Close(r)
      \/ IsActive(slot) /\ slot'.state \in RecoveryStates
<1> SUFFICES ASSUME BaseInv, [Next]_vars PROVE Goal
  OBVIOUS
<1>0. VarsOK /\ SlotOK /\ IntentsOK /\ ControlOK /\ WorksOK
  BY DEF BaseInv
<1>1. ASSUME NEW c \in Commander, CommandStep(c) PROVE Goal
  <2>1. CASE CaptureOriginal(c)
    BY <2>1 DEF CaptureOriginal
  <2>2. CASE Begins(c)
    BY <2>2
  <2>3. CASE Enter(c)
    BY <2>3
  <2>4. CASE Fetch(c)
    BY <2>4 DEF Fetch
  <2>5. CASE QuickPasses(c)
    BY <2>5 DEF QuickPasses
  <2>6. CASE SpawnWork(c)
    BY <2>6 DEF SpawnWork
  <2>7. CASE ActivateAnchor(c)
    BY <2>7 DEF ActivateAnchor
  <2>8. CASE VerifyRelease(c)
    BY <2>8 DEF VerifyRelease
  <2>9. CASE AssertPointerAction(c)
    BY <2>9 DEF AssertPointerAction
  <2>10. CASE PublishRollback(c)
    BY <2>10 DEF PublishRollback
  <2>11. CASE ClearRollback(c)
    BY <2>11 DEF ClearRollback
  <2>12. CASE Journal(c)
    BY <2>12
  <2>13. CASE Complete(c)
    BY <2>13
  <2>14. CASE Raise(c)
    BY <2>14 DEF Raise
  <2>15. CASE Mark(c)
    <3>1. slot' = Marked(cmd[c].id) /\ intent' = intent /\ Live(c)
      BY <2>15 DEF Mark, Live
    <3>2. cmd[c].id # 0
      BY <3>1, LiveFacts
    <3>3. slot' = slot \/ (IsActive(slot) /\ slot'.state = "recovery_required")
      BY <3>1, <3>2, MarkedFacts
    <3> QED
      BY <3>3 DEF RecoveryStates
  <2>16. CASE Die(c)
    BY <2>16 DEF Die
  <2> QED
    BY <1>1, <2>1, <2>2, <2>3, <2>4, <2>5, <2>6, <2>7, <2>8, <2>9, <2>10, <2>11,
       <2>12, <2>13, <2>14, <2>15, <2>16 DEF CommandStep, Begins
<1>2. ASSUME NEW p \in Process, WorkStep(p) PROVE Goal
  <2>1. CASE WorkEnters(p)
    BY <2>1 DEF WorkEnters
  <2>2. CASE WorkFails(p)
    BY <2>2 DEF WorkFails
  <2>3. CASE WorkActs(p)
    BY <2>3, ActsEffect
  <2> QED
    BY <1>2, <2>1, <2>2, <2>3 DEF WorkStep
<1>3. ASSUME NEW r \in Reconciler, RecoveryStep(r) PROVE Goal
  <2>1. CASE FenceOrphan(r)
    BY <1>0, <2>1 DEF FenceOrphan, VarsOK, Docs, RecoveryStates
  <2>2. CASE ReadPlan(r)
    BY <2>2 DEF ReadPlan
  <2>3. CASE Classify(r)
    BY <2>3 DEF Classify
  <2>4. CASE Confirm(r)
    BY <2>4 DEF Confirm
  <2>5. CASE BeginRestoring(r)
    <3>1. slot.id = rec[r].id /\ CanTransition(slot, "production_restoring")
          /\ slot' = Transitioned(slot, "production_restoring") /\ Busy(r)
      BY <2>5 DEF BeginRestoring, Busy
    <3>2. slot.id # 0 /\ slot.schema = 2
      BY <1>0, <3>1, RecoversFacts, RuntimeChangeAssumption DEF Ids, VarsOK, Docs
    <3>3. slot.state \in States \ TerminalStates
      BY <3>1, <3>2, LegalTargets
    <3>4. slot'.state = "production_restoring"
      BY <1>0, <3>1, TransitionedFacts DEF States
    <3> QED
      BY <3>2, <3>3, <3>4 DEF IsActive, IsTerminal, RecoveryStates
  <2>6. CASE RestoreProfile(r)
    BY <2>6 DEF RestoreProfile
  <2>7. CASE SpawnRestore(r)
    BY <2>7 DEF SpawnRestore
  <2>8. CASE Verify(r)
    BY <2>8 DEF Verify
  <2>9. CASE ReadPointer(r)
    BY <2>9 DEF ReadPointer
  <2>10. CASE RestorePointer(r)
    BY <2>10 DEF RestorePointer
  <2>11. CASE Resolve(r)
    BY <2>11 DEF Resolve
  <2>12. CASE Reopen(r)
    <3>1. slot.id = rec[r].id /\ CanTransition(slot, "production_restoring")
          /\ slot' = Transitioned(slot, "production_restoring") /\ Busy(r)
      BY <2>12 DEF Reopen, Busy
    <3>2. slot.id # 0 /\ slot.schema = 2
      BY <1>0, <3>1, RecoversFacts, RuntimeChangeAssumption DEF Ids, VarsOK, Docs
    <3>3. slot.state \in States \ TerminalStates
      BY <3>1, <3>2, LegalTargets
    <3>4. slot'.state = "production_restoring"
      BY <1>0, <3>1, TransitionedFacts DEF States
    <3> QED
      BY <3>2, <3>3, <3>4 DEF IsActive, IsTerminal, RecoveryStates
  <2>13. CASE Close(r)
    BY <2>13
  <2>14. CASE RecoveryRaises(r)
    BY <2>14 DEF RecoveryRaises
  <2>15. CASE MarkRecovery(r)
    <3>1. slot' = Marked(rec[r].id) /\ intent' = intent /\ Busy(r)
      BY <2>15 DEF MarkRecovery, Busy
    <3>2. rec[r].id # 0
      BY <3>1, RecoversFacts, RuntimeChangeAssumption DEF Ids
    <3>3. slot' = slot \/ (IsActive(slot) /\ slot'.state = "recovery_required")
      BY <3>1, <3>2, MarkedFacts
    <3> QED
      BY <3>3 DEF RecoveryStates
  <2>16. CASE Leave(r)
    BY <2>16 DEF Leave
  <2> QED
    BY <1>3, <2>1, <2>2, <2>3, <2>4, <2>5, <2>6, <2>7, <2>8, <2>9, <2>10, <2>11,
       <2>12, <2>13, <2>14, <2>15, <2>16 DEF RecoveryStep
<1>4. CASE ContainerExits
  BY <1>4 DEF ContainerExits
<1>5. CASE CandidateExits
  BY <1>5 DEF CandidateExits
<1>6. CASE SupervisorStarts
  BY <1>6 DEF SupervisorStarts
<1>7. CASE UNCHANGED vars
  BY <1>7 DEF vars
<1> QED
  BY <1>1, <1>2, <1>3, <1>4, <1>5, <1>6, <1>7 DEF Next

\* CapturesAreKept: what a command captured is a runtime it found.
LEMMA CapturesAreKept ==
  BaseInv /\ [Next]_vars =>
    \A e \in Commander :
      cmd'[e].at = "captured" => cmd'[e].id = 0 /\ Found(cmd'[e].original)
<1> DEFINE Goal ==
      \A e \in Commander :
        cmd'[e].at = "captured" => cmd'[e].id = 0 /\ Found(cmd'[e].original)
<1> SUFFICES ASSUME BaseInv, [Next]_vars PROVE Goal
  OBVIOUS
<1>0. VarsOK /\ SlotOK /\ IntentsOK /\ ControlOK /\ WorksOK
  BY DEF BaseInv
<1>1. ASSUME NEW c \in Commander, CommandStep(c) PROVE Goal
  <2>1. CASE CaptureOriginal(c)
    <3>1. /\ cmd'[c].id = 0 /\ cmd'[c].original = Current
          /\ \A e \in Commander \ {c} : cmd'[e] = cmd[e]
      BY <1>0, <2>1 DEF CaptureOriginal, VarsOK, Quiet
    <3> QED
      BY <1>0, <3>1, CurrentFacts DEF ControlOK
  <2>2. CASE Begins(c)
    BY <1>0, <2>2, BeginEffect DEF ControlOK
  <2>3. CASE Enter(c)
    BY <1>0, <2>3 DEF Enter, VarsOK, Cmds, ControlOK
  <2>4. CASE Fetch(c)
    BY <1>0, <2>4, DoneEffect DEF Fetch, ControlOK
  <2>5. CASE QuickPasses(c)
    BY <1>0, <2>5, DoneEffect DEF QuickPasses, ControlOK
  <2>6. CASE SpawnWork(c)
    BY <2>6, <1>0, AtEffect DEF ControlOK, SpawnWork
  <2>7. CASE ActivateAnchor(c)
    BY <1>0, <2>7, DoneEffect DEF ActivateAnchor, ControlOK
  <2>8. CASE VerifyRelease(c)
    BY <1>0, <2>8, DoneEffect DEF VerifyRelease, ControlOK
  <2>9. CASE AssertPointerAction(c)
    BY <2>9, <1>0, AtEffect DEF ControlOK, AssertPointerAction
  <2>10. CASE PublishRollback(c)
    BY <2>10, <1>0, AtEffect DEF ControlOK, PublishRollback
  <2>11. CASE ClearRollback(c)
    BY <2>11, <1>0, AtEffect DEF ControlOK, ClearRollback
  <2>12. CASE Journal(c)
    BY <1>0, <2>12 DEF Journal, VarsOK, Cmds, ControlOK
  <2>13. CASE Complete(c)
    BY <1>0, <2>13, QuietEffect DEF Complete, ControlOK
  <2>14. CASE Raise(c)
    BY <2>14, <1>0, AtEffect DEF ControlOK, Raise
  <2>15. CASE Mark(c)
    BY <1>0, <2>15, QuietEffect DEF Mark, ControlOK
  <2>16. CASE Die(c)
    BY <1>0, <2>16, QuietEffect DEF Die, ControlOK
  <2> QED
    BY <1>1, <2>1, <2>2, <2>3, <2>4, <2>5, <2>6, <2>7, <2>8, <2>9, <2>10, <2>11,
       <2>12, <2>13, <2>14, <2>15, <2>16 DEF CommandStep, Begins
<1>2. ASSUME NEW p \in Process, WorkStep(p) PROVE Goal
  <2>1. CASE WorkEnters(p)
    BY <2>1, <1>0 DEF ControlOK, WorkEnters
  <2>2. CASE WorkFails(p)
    BY <1>0, <2>2, WorkOverEffect DEF WorkFails, ControlOK
  <2>3. CASE WorkActs(p)
    <3>1. UNCHANGED cmd \/ \E ok \in BOOLEAN : WorkOver(p, ok)
      BY <2>3, ActsEffect
    <3> QED
      BY <1>0, <3>1, WorkOverEffect DEF ControlOK
  <2> QED
    BY <1>2, <2>1, <2>2, <2>3 DEF WorkStep
<1>3. ASSUME NEW r \in Reconciler, RecoveryStep(r) PROVE Goal
  <2>1. CASE FenceOrphan(r)
    BY <2>1, <1>0 DEF ControlOK, FenceOrphan
  <2>2. CASE ReadPlan(r)
    BY <2>2, <1>0 DEF ControlOK, ReadPlan
  <2>3. CASE Classify(r)
    BY <2>3, <1>0 DEF ControlOK, Classify
  <2>4. CASE Confirm(r)
    BY <2>4, <1>0 DEF ControlOK, Confirm
  <2>5. CASE BeginRestoring(r)
    BY <2>5, <1>0 DEF ControlOK, BeginRestoring
  <2>6. CASE RestoreProfile(r)
    BY <2>6, <1>0 DEF ControlOK, RestoreProfile
  <2>7. CASE SpawnRestore(r)
    BY <2>7, <1>0 DEF ControlOK, SpawnRestore
  <2>8. CASE Verify(r)
    BY <2>8, <1>0 DEF ControlOK, Verify
  <2>9. CASE ReadPointer(r)
    BY <2>9, <1>0 DEF ControlOK, ReadPointer
  <2>10. CASE RestorePointer(r)
    BY <2>10, <1>0 DEF ControlOK, RestorePointer
  <2>11. CASE Resolve(r)
    BY <2>11, <1>0 DEF ControlOK, Resolve
  <2>12. CASE Reopen(r)
    BY <2>12, <1>0 DEF ControlOK, Reopen
  <2>13. CASE Close(r)
    BY <2>13, <1>0 DEF ControlOK, Close
  <2>14. CASE RecoveryRaises(r)
    BY <2>14, <1>0 DEF ControlOK, RecoveryRaises
  <2>15. CASE MarkRecovery(r)
    BY <2>15, <1>0 DEF ControlOK, MarkRecovery
  <2>16. CASE Leave(r)
    BY <2>16, <1>0 DEF ControlOK, Leave
  <2> QED
    BY <1>3, <2>1, <2>2, <2>3, <2>4, <2>5, <2>6, <2>7, <2>8, <2>9, <2>10, <2>11,
       <2>12, <2>13, <2>14, <2>15, <2>16 DEF RecoveryStep
<1>4. CASE ContainerExits
  BY <1>4, <1>0 DEF ControlOK, ContainerExits
<1>5. CASE CandidateExits
  BY <1>5, <1>0 DEF ControlOK, CandidateExits
<1>6. CASE SupervisorStarts
  BY <1>6, <1>0 DEF ControlOK, SupervisorStarts
<1>7. CASE UNCHANGED vars
  BY <1>7, <1>0 DEF ControlOK, vars
<1> QED
  BY <1>1, <1>2, <1>3, <1>4, <1>5, <1>6, <1>7 DEF Next


\* ReconcilersAreKept: and every reconciler on a transaction that is in recovery.
LEMMA ReconcilersAreKept ==
  BaseInv /\ [Next]_vars => \A s \in Reconciler : ReconcilerOK(s)'
<1> SUFFICES ASSUME BaseInv, [Next]_vars, NEW s \in Reconciler, Busy(s)'
             PROVE  /\ rec'[s].id \in 1 .. slot'.id
                    /\ rec'[s].id = slot'.id /\ IsActive(slot') => slot'.state \in RecoveryStates
  BY DEF ReconcilerOK
<1>0. /\ slot.id \in Nat /\ slot.schema = 2
      /\ Busy(s) => /\ rec[s].id \in 1 .. slot.id
                    /\ rec[s].id = slot.id /\ IsActive(slot) => slot.state \in RecoveryStates
  BY RuntimeChangeAssumption DEF BaseInv, VarsOK, Docs, ControlOK, ReconcilerOK
<1>1. CASE Busy(s) /\ rec'[s].id = rec[s].id
  <2>1. CASE \E c \in Commander : Begins(c)
    <3>1. slot'.id = slot.id + 1
      BY <2>1, BeginEffect
    <3> QED
      BY <1>0, <1>1, <3>1
  <2>2. CASE SlotKept
    <3>1. CASE slot' = slot
      BY <1>0, <1>1, <3>1
    <3>2. CASE \E c \in Commander : Enter(c) \/ Journal(c) \/ Complete(c)
      <4>1. \E c \in Commander : Live(c)
        BY <3>2 DEF Enter, Journal, Complete, Live
      <4> QED
        BY <1>0, <1>1, <2>2, <4>1, LiveFacts DEF SlotKept
    <3>3. CASE IsActive(slot) /\ slot'.state \in RecoveryStates
      BY <1>0, <1>1, <2>2, <3>3 DEF SlotKept, IsActive, IsTerminal
    <3>4. CASE \E r \in Reconciler : Close(r)
      <4>1. slot' = Transitioned(slot, "failed-restored")
        BY <3>4 DEF Close
      <4>2. ~IsActive(slot')
        BY <1>0, <2>2, <4>1, TransitionedFacts
        DEF BaseInv, SlotKept, IsActive, IsTerminal, TerminalStates, States
      <4> QED
        BY <1>0, <1>1, <2>2, <4>2 DEF SlotKept
    <3>5. CASE \E c \in Commander : Begins(c)
      BY <2>1, <3>5
    <3> QED
      BY <3>1, <3>2, <3>3, <3>4, <3>5, SlotSteps
  <2> QED
    BY <2>1, <2>2, SlotMoves
<1>2. CASE /\ rec'[s].id = slot.id /\ IsActive(slot) /\ slot' = slot
           /\ slot.state = "recovery_required"
  BY <1>0, <1>2 DEF IsActive, RecoveryStates
<1> QED
  BY <1>1, <1>2, RecsMove

\* ControlIsKept: so every step keeps the two from meeting.
LEMMA ControlIsKept == BaseInv /\ [Next]_vars => ControlOK'
BY CommandsAreKept, CapturesAreKept, ReconcilersAreKept DEF ControlOK

\* How running work goes on.
Follows(v, w) ==
  /\ v \in Works /\ v.at = "running" /\ v.req = w.req
  /\ \/ v.does = w.does /\ v.model = w.model
     \/ w.does \in ReleaseSteps \union {"release"} /\ v.does \in ReleaseSteps

\* What a process starts.
Starts(p, v) ==
  /\ v \in Works /\ v.at = "spawned" /\ work[p] = {}
  /\ p \in Commander => CommandWork(v) /\ Live(p)
  /\ p \in Reconciler => ReconcilerWork(v) /\ Busy(p) /\ v.req.id = rec[p].id

\* What a step makes of the work of a process.
Turns(p) ==
  /\ slot' = slot /\ UNCHANGED intent
  /\ \A q \in Process \ {p} : work'[q] = work[q]
  /\ \/ work'[p] = {}
     \/ \E w \in work[p], v \in Works :
          /\ work'[p] = {v} /\ Follows(v, w)
          /\ w.at = "running" \/ (LocksFree /\ Authorized(slot, w.req))
     \/ \E v \in Works : work'[p] = {v} /\ Starts(p, v)

\* WorkKindsOf: the kinds of work each operation starts.
LEMMA WorkKindsOf ==
  ASSUME NEW op \in Operations, NEW n \in Nat, KindAt(op, n) \in WorkKinds
  PROVE  /\ op \in RolloutOperations =>
              KindAt(op, n) \in {"stop-source", "activate-target", "start-target"}
         /\ op = "deploy" => KindAt(op, n) \in {"activate-target", "start-target"}
         /\ op = "release" => KindAt(op, n) = "release"
         /\ op = "profile" => KindAt(op, n) = "switch-profile"
BY FetchesAssumption
DEF KindAt, WorkKinds, ActivateStep, Operations, TargetOperations, RolloutOperations

\* SurvivorsTurn: what outlives a process that gave up follows what it had.
LEMMA SurvivorsTurn ==
  ASSUME BaseInv, NEW p \in Process
  PROVE  \/ Survivors(work[p]) = {}
         \/ \E w \in work[p], v \in Works :
              Survivors(work[p]) = {v} /\ Follows(v, w) /\ w.at = "running"
<1>1. work[p] \in SUBSET Works /\ \A v, w \in work[p] : v = w
  BY DEF BaseInv, VarsOK, WorksOK, WorkOK
<1>2. \A u, v \in Survivors(work[p]) : u = v
  BY <1>1 DEF Survivors
<1>3. CASE Survivors(work[p]) # {}
  <2>1. PICK v : v \in Survivors(work[p])
    BY <1>3
  <2>2. PICK w \in work[p] :
          /\ w.at = "running" /\ v.at = w.at /\ v.does = w.does /\ v.req = w.req
          /\ v.model = w.model /\ v \in Works
    BY <1>1, <2>1, SurvivorsFacts
  <2>3. Survivors(work[p]) = {v}
    BY <1>2, <2>1
  <2> QED
    BY <2>2, <2>3 DEF Follows
<1> QED
  BY <1>3

\* WorkMoves: a step leaves all work alone, or turns that of one process.
LEMMA WorkMoves ==
  BaseInv /\ [Next]_vars =>
    \/ UNCHANGED work
    \/ \E p \in Process : Turns(p)
<1> DEFINE Goal ==
      \/ UNCHANGED work
      \/ \E p \in Process : Turns(p)
<1> SUFFICES ASSUME BaseInv, [Next]_vars PROVE Goal
  OBVIOUS
<1>0. VarsOK /\ SlotOK /\ IntentsOK /\ ControlOK /\ WorksOK
  BY DEF BaseInv
<1>1. ASSUME NEW c \in Commander, CommandStep(c) PROVE Goal
  <2>1. CASE CaptureOriginal(c)
    BY <2>1 DEF CaptureOriginal
  <2>2. CASE Begins(c)
    BY <2>2, BeginEffect
  <2>3. CASE Enter(c)
    BY <2>3 DEF CommandTransition, Enter
  <2>4. CASE Fetch(c)
    BY <2>4 DEF Fetch
  <2>5. CASE QuickPasses(c)
    BY <2>5 DEF QuickPasses
  <2>6. CASE SpawnWork(c)
    <3>1. PICK kind \in WorkKinds :
            /\ At(c, kind) /\ work[c] = {}
            /\ work' = [work EXCEPT ![c] = {[at |-> "spawned", req |-> Pending(c),
                                             does |-> kind, model |-> Mine(c).target,
                                             script |-> "passing"]}]
      BY <2>6 DEF SpawnWork
    <3>2. Live(c) /\ HasNext(c)
      BY <3>1 DEF At, Live
    <3>3. PICK v : v = [at |-> "spawned", req |-> Pending(c), does |-> kind,
                        model |-> Mine(c).target, script |-> "passing"]
      OBVIOUS
    <3>4. /\ work'[c] = {v} /\ \A q \in Process \ {c} : work'[q] = work[q]
          /\ v \in Works
      BY <1>0, <3>1, <3>3, WorksAreTyped, ProcessesDiffer DEF VarsOK
    <3>5. /\ slot.op \in Operations /\ cmd[c].step \in Nat /\ slot.id \in Ids
          /\ cmd[c].step < LenOf(slot.op) /\ kind = KindAt(slot.op, cmd[c].step)
          /\ Mine(c) = intent[slot.id] /\ intent[slot.id].op = slot.op
      BY <3>1, <3>2, MineFacts DEF At
    <3>6. /\ v.at = "spawned" /\ v.req = Pending(c) /\ v.does = kind
          /\ v.model = intent[slot.id].target /\ v.script = "passing"
      BY <3>3, <3>5
    <3>7. /\ v.req.id = slot.id /\ v.req.id \in 1 .. slot.id
          /\ intent[v.req.id].op = slot.op
      BY <3>2, <3>5, <3>6, PendingFacts DEF Ids
    <3>8. kind \notin ReleaseSteps
      BY DEF WorkKinds, ReleaseSteps
    <3>9. CommandWork(v)
      <4>1. IsRollout(slot) =>
              /\ v.req.mode = "action" /\ v.req.kind = v.does
              /\ v.req.ordinal = cmd[c].step
        BY <3>2, <3>5, <3>6, PendingFacts
      <4>2. ~IsRollout(slot) => v.req = Presented("bound", v.req.id, 0, "none")
        BY <3>2, <3>6, <3>7, PendingFacts
      <4> QED
        BY <3>5, <3>6, <3>7, <3>8, <4>1, <4>2, WorkKindsOf DEF CommandWork, IsRollout
    <3> QED
      BY <2>6, <3>1, <3>2, <3>4, <3>6, <3>9, ProcessesDiffer DEF SpawnWork, Turns, Starts
  <2>7. CASE ActivateAnchor(c)
    BY <2>7 DEF ActivateAnchor
  <2>8. CASE VerifyRelease(c)
    BY <2>8 DEF VerifyRelease
  <2>9. CASE AssertPointerAction(c)
    BY <2>9 DEF AssertPointerAction
  <2>10. CASE PublishRollback(c)
    BY <2>10 DEF PublishRollback
  <2>11. CASE ClearRollback(c)
    BY <2>11 DEF ClearRollback
  <2>12. CASE Journal(c)
    BY <2>12 DEF Journal
  <2>13. CASE Complete(c)
    BY <2>13 DEF CommandTransition, Complete
  <2>14. CASE Raise(c)
    <3>1. CASE cmd[c].at = "wait"
      <4>1. work' = [work EXCEPT ![c] = Survivors(work[c])]
        BY <2>14, <3>1 DEF Raise
      <4>2. work'[c] = Survivors(work[c]) /\ \A q \in Process \ {c} : work'[q] = work[q]
        BY <1>0, <4>1, ProcessesDiffer DEF VarsOK
      <4>3. \/ Survivors(work[c]) = {}
            \/ \E w \in work[c], v \in Works :
                 Survivors(work[c]) = {v} /\ Follows(v, w) /\ w.at = "running"
        BY SurvivorsTurn, ProcessesDiffer
      <4>4. slot' = slot /\ UNCHANGED intent /\ c \in Process
        BY <2>14, ProcessesDiffer DEF Raise
      <4>5. Turns(c)
        BY <4>2, <4>3, <4>4, Zenon DEF Turns
      <4> QED
        BY <4>4, <4>5
    <3>2. CASE cmd[c].at # "wait"
      BY <2>14, <3>2 DEF Raise
    <3> QED
      BY <3>1, <3>2
  <2>15. CASE Mark(c)
    BY <2>15 DEF Mark
  <2>16. CASE Die(c)
    BY <2>16 DEF Die
  <2> QED
    BY <1>1, <2>1, <2>2, <2>3, <2>4, <2>5, <2>6, <2>7, <2>8, <2>9, <2>10, <2>11,
       <2>12, <2>13, <2>14, <2>15, <2>16 DEF CommandStep, Begins
<1>2. ASSUME NEW p \in Process, WorkStep(p) PROVE Goal
  <2>1. CASE WorkEnters(p)
    <3>1. PICK w \in work[p] :
            /\ LocksFree /\ Authorized(slot, w.req)
            /\ work' = [work EXCEPT ![p] = {[w EXCEPT !.at = "running"]}]
      BY <2>1 DEF WorkEnters
    <3>2. PICK v : v = [w EXCEPT !.at = "running"]
      OBVIOUS
    <3>3. w \in Works
      BY <1>0 DEF VarsOK
    <3>4. Follows(v, w) /\ v \in Works
      BY <3>2, <3>3 DEF Works, Follows
    <3>5. work'[p] = {v} /\ \A q \in Process \ {p} : work'[q] = work[q]
      BY <1>0, <3>1, <3>2 DEF VarsOK
    <3> QED
      BY <2>1, <3>1, <3>4, <3>5 DEF WorkEnters, Turns
  <2>2. CASE WorkFails(p)
    <3>1. work' = [work EXCEPT ![p] = {}]
      BY <2>2 DEF WorkFails, WorkOver
    <3> QED
      BY <1>0, <2>2, <3>1 DEF WorkFails, VarsOK, Turns
  <2>3. CASE WorkActs(p)
    <3>1. PICK w \in work[p] :
            /\ w.at = "running"
            /\ \/ \E ok \in BOOLEAN : WorkOver(p, ok)
               \/ /\ w.does \in ReleaseSteps \union {"release"}
                  /\ \E next : NextStep(w, next) /\ work' = [work EXCEPT ![p] = {next}]
      BY <2>3, ActsEffect
    <3>2. UNCHANGED <<slot, intent>>
      BY <2>3, ActsEffect
    <3>3. CASE \E ok \in BOOLEAN : WorkOver(p, ok)
      BY <1>0, <3>2, <3>3 DEF WorkOver, VarsOK, Turns
    <3>4. CASE ~\E ok \in BOOLEAN : WorkOver(p, ok)
      <4>1. PICK next : NextStep(w, next) /\ work' = [work EXCEPT ![p] = {next}]
        BY <3>1, <3>4
      <4>2. work'[p] = {next} /\ \A q \in Process \ {p} : work'[q] = work[q]
        BY <1>0, <4>1 DEF VarsOK
      <4>3. Follows(next, w) /\ next \in Works
        BY <3>1, <3>4, <4>1 DEF Follows, NextStep
      <4>4. w \in work[p] /\ w.at = "running"
        BY <3>1
      <4>5. Turns(p)
        <5>1. w.at = "running" \/ (LocksFree /\ Authorized(slot, w.req))
          BY <4>4
        <5> QED
          BY <3>2, <4>2, <4>3, <4>4, <5>1, Zenon DEF Turns
      <4> QED
        BY <4>5
    <3> QED
      BY <3>3, <3>4
  <2> QED
    BY <1>2, <2>1, <2>2, <2>3 DEF WorkStep
<1>3. ASSUME NEW r \in Reconciler, RecoveryStep(r) PROVE Goal
  <2>1. CASE FenceOrphan(r)
    BY <2>1 DEF FenceOrphan
  <2>2. CASE ReadPlan(r)
    BY <2>2 DEF ReadPlan
  <2>3. CASE Classify(r)
    BY <2>3 DEF Classify
  <2>4. CASE Confirm(r)
    BY <2>4 DEF Confirm
  <2>5. CASE BeginRestoring(r)
    BY <2>5 DEF BeginRestoring
  <2>6. CASE RestoreProfile(r)
    BY <2>6 DEF RestoreProfile
  <2>7. CASE SpawnRestore(r)
    <3>1. PICK v : v = [at |-> "spawned", does |-> "restore",
                        req |-> Presented("restore", rec[r].id, 0, "none"),
                        model |-> rec[r].name, script |-> "passing"]
      OBVIOUS
    <3>2. /\ v.at = "spawned" /\ v.does = "restore"
          /\ v.req = Presented("restore", rec[r].id, 0, "none") /\ v.req.id = rec[r].id
      BY <3>1 DEF Presented
    <3>3. /\ work'[r] = {v} /\ \A q \in Process \ {r} : work'[q] = work[q]
          /\ v \in Works
      BY <1>0, <2>7, <3>1, WorksAreTyped, ProcessesDiffer DEF SpawnRestore, VarsOK
    <3>4. Busy(r) /\ rec[r].id \in 1 .. slot.id
      BY <1>0, <2>7 DEF SpawnRestore, Busy, ControlOK, ReconcilerOK
    <3>5. Starts(r, v)
      BY <2>7, <3>2, <3>3, <3>4, ProcessesDiffer DEF SpawnRestore, Starts, ReconcilerWork
    <3> QED
      BY <2>7, <3>3, <3>5, ProcessesDiffer DEF SpawnRestore, Turns
  <2>8. CASE Verify(r)
    BY <2>8 DEF Verify
  <2>9. CASE ReadPointer(r)
    BY <2>9 DEF ReadPointer
  <2>10. CASE RestorePointer(r)
    BY <2>10 DEF RestorePointer
  <2>11. CASE Resolve(r)
    BY <2>11 DEF Resolve
  <2>12. CASE Reopen(r)
    BY <2>12 DEF Reopen
  <2>13. CASE Close(r)
    BY <2>13 DEF Close
  <2>14. CASE RecoveryRaises(r)
    <3>1. CASE rec[r].at = "wait"
      <4>1. work' = [work EXCEPT ![r] = Survivors(work[r])]
        BY <2>14, <3>1 DEF RecoveryRaises
      <4>2. work'[r] = Survivors(work[r]) /\ \A q \in Process \ {r} : work'[q] = work[q]
        BY <1>0, <4>1, ProcessesDiffer DEF VarsOK
      <4>3. \/ Survivors(work[r]) = {}
            \/ \E w \in work[r], v \in Works :
                 Survivors(work[r]) = {v} /\ Follows(v, w) /\ w.at = "running"
        BY SurvivorsTurn, ProcessesDiffer
      <4>4. slot' = slot /\ UNCHANGED intent /\ r \in Process
        BY <2>14, ProcessesDiffer DEF RecoveryRaises
      <4>5. Turns(r)
        BY <4>2, <4>3, <4>4, Zenon DEF Turns
      <4> QED
        BY <4>4, <4>5
    <3>2. CASE rec[r].at # "wait"
      BY <2>14, <3>2 DEF RecoveryRaises
    <3> QED
      BY <3>1, <3>2
  <2>15. CASE MarkRecovery(r)
    BY <2>15 DEF MarkRecovery
  <2>16. CASE Leave(r)
    BY <2>16 DEF Leave
  <2> QED
    BY <1>3, <2>1, <2>2, <2>3, <2>4, <2>5, <2>6, <2>7, <2>8, <2>9, <2>10, <2>11,
       <2>12, <2>13, <2>14, <2>15, <2>16 DEF RecoveryStep
<1>4. CASE ContainerExits
  BY <1>4 DEF ContainerExits
<1>5. CASE CandidateExits
  BY <1>5 DEF CandidateExits
<1>6. CASE SupervisorStarts
  BY <1>6 DEF SupervisorStarts
<1>7. CASE UNCHANGED vars
  BY <1>7 DEF vars
<1> QED
  BY <1>1, <1>2, <1>3, <1>4, <1>5, <1>6, <1>7 DEF Next

\* IntentsStay: what is begun stays as it was frozen.
LEMMA IntentsStay ==
  ASSUME BaseInv, [Next]_vars
  PROVE  /\ slot.id \in Nat /\ slot'.id \in Nat /\ slot.id <= slot'.id
         /\ \A id \in Ids : id <= slot.id => intent'[id] = intent[id]
         /\ \A id \in 1 .. slot.id : id \in Ids /\ id \in 1 .. slot'.id /\ intent'[id] = intent[id]
<1>1. slot.id \in 0 .. MaxTx
  BY DEF BaseInv, VarsOK, Docs
<1>2. slot.id \in Nat /\ \A id \in 1 .. slot.id : id \in Ids /\ id <= slot.id
  BY <1>1, RuntimeChangeAssumption DEF Ids
<1>3. CASE \E c \in Commander : Begins(c)
  <2>1. /\ slot'.id = slot.id + 1
        /\ \A i \in Ids \ {slot.id + 1} : intent'[i] = intent[i]
    BY <1>3, BeginEffect
  <2>2. \A id \in Ids : id <= slot.id => id # slot.id + 1
    BY <1>2 DEF Ids
  <2> QED
    BY <1>2, <2>1, <2>2
<1>4. CASE SlotKept
  BY <1>2, <1>4 DEF SlotKept
<1> QED
  BY <1>3, <1>4, SlotMoves

\* WorkStays: work keeps its warrant.
LEMMA WorkStays ==
  ASSUME BaseInv, [Next]_vars, NEW v
  PROVE  (CommandWork(v) => CommandWork(v)') /\ (ReconcilerWork(v) => ReconcilerWork(v)')
<1>1. ASSUME CommandWork(v) PROVE CommandWork(v)'
  <2>1. v.req.id \in 1 .. slot.id
    BY <1>1 DEF CommandWork
  <2>2. v.req.id \in 1 .. slot'.id /\ intent'[v.req.id] = intent[v.req.id]
    BY <2>1, IntentsStay
  <2> QED
    BY <1>1, <2>2 DEF CommandWork
<1>2. ASSUME ReconcilerWork(v) PROVE ReconcilerWork(v)'
  BY <1>2, IntentsStay DEF ReconcilerWork
<1> QED
  BY <1>1, <1>2

\* OperationOf: the operation of a transaction that has begun.
LEMMA OperationOf ==
  ASSUME BaseInv, NEW id \in 1 .. slot.id
  PROVE  id \in Ids /\ id <= slot.id /\ intent[id].op \in Operations /\ Found(intent[id].original)
<1>1. id \in Ids /\ id <= slot.id /\ id \in Nat /\ slot.id \in Nat
  BY RuntimeChangeAssumption DEF BaseInv, VarsOK, Docs, Ids
<1>2. intent[id].op \in Operations \union {"none"} /\ IntentOK(id) /\ ~(id > slot.id)
  BY <1>1 DEF BaseInv, VarsOK, Intents, IntentsOK
<1> QED
  BY <1>1, <1>2 DEF IntentOK

\* FollowsKeeps: work that goes on keeps it too.
LEMMA FollowsKeeps ==
  ASSUME BaseInv, NEW v, NEW w, Follows(v, w)
  PROVE  (CommandWork(w) => CommandWork(v)) /\ (ReconcilerWork(w) => ReconcilerWork(v))
<1>1. ASSUME CommandWork(w) PROVE CommandWork(v)
  <2>1. CASE v.does = w.does /\ v.model = w.model
    BY <1>1, <2>1 DEF CommandWork, Follows
  <2>2. CASE w.does \in ReleaseSteps \union {"release"} /\ v.does \in ReleaseSteps
    <3>1. intent[w.req.id].op \in Operations
      BY <1>1, OperationOf DEF CommandWork
    <3>2. intent[w.req.id].op = "release"
      BY <1>1, <2>2, <3>1 DEF CommandWork, ReleaseSteps, Operations, RolloutOperations
    <3> QED
      BY <1>1, <2>2, <3>2
      DEF CommandWork, Follows, ReleaseSteps, RolloutOperations, TargetOperations
  <2> QED
    BY <2>1, <2>2 DEF Follows
<1>2. ASSUME ReconcilerWork(w) PROVE ReconcilerWork(v)
  BY <1>2 DEF ReconcilerWork, Follows, ReleaseSteps
<1> QED
  BY <1>1, <1>2

\* RunningKeeps: work that has the locks keeps its authority.
LEMMA RunningKeeps ==
  ASSUME BaseInv, [Next]_vars, NEW p \in Process, NEW w \in work[p], w.at = "running"
  PROVE  slot' = slot /\ Authorized(slot, w.req)
<1>1. ~LocksFree
  <2>1. w.at # "spawned"
    OBVIOUS
  <2> QED
    BY <2>1 DEF LocksFree
<1>2. Authorized(slot, w.req)
  BY DEF BaseInv, WorksOK, WorkOK
<1>3. \A c \in Commander : ~Begins(c)
  BY <1>1, BeginEffect
<1> QED
  BY <1>1, <1>2, <1>3, SlotMoves DEF SlotKept

\* EachWorkIsKept: every work stays warranted.
LEMMA EachWorkIsKept == BaseInv /\ [Next]_vars => \A p \in Process : WorkOK(p)'
<1> SUFFICES ASSUME BaseInv, [Next]_vars, NEW p \in Process PROVE WorkOK(p)'
  OBVIOUS
<1>0. WorkOK(p)
  BY DEF BaseInv, WorksOK
<1>1. CASE work'[p] = work[p]
  <2>1. \A w \in work[p] : w.at = "running" => Authorized(slot', w.req)
    BY RunningKeeps
  <2> QED
    BY <1>0, <1>1, <2>1, WorkStays DEF WorkOK
<1>2. CASE work'[p] = {}
  BY <1>2 DEF WorkOK
<1>3. ASSUME NEW v, work'[p] = {v},
             p \in Commander => CommandWork(v), p \in Reconciler => ReconcilerWork(v),
             v.at = "running" => Authorized(slot', v.req)
      PROVE  WorkOK(p)'
  BY <1>3, WorkStays DEF WorkOK
<1>4. ASSUME NEW w \in work[p], NEW v, work'[p] = {v}, Follows(v, w), slot' = slot,
             w.at = "running" \/ (LocksFree /\ Authorized(slot, w.req))
      PROVE  WorkOK(p)'
  <2>1. Authorized(slot', v.req)
    BY <1>4, RunningKeeps DEF Follows
  <2>2. /\ p \in Commander => CommandWork(v)
        /\ p \in Reconciler => ReconcilerWork(v)
    BY <1>0, <1>4, FollowsKeeps DEF WorkOK
  <2> QED
    BY <1>3, <1>4, <2>1, <2>2
<1>5. ASSUME NEW v, work'[p] = {v}, Starts(p, v) PROVE WorkOK(p)'
  <2>1. v.at # "running"
    BY <1>5 DEF Starts
  <2> QED
    BY <1>3, <1>5, <2>1 DEF Starts
<1>6. ASSUME NEW q \in Process, Turns(q) PROVE WorkOK(p)'
  <2>1. CASE p = q
    BY <1>2, <1>4, <1>5, <1>6, <2>1 DEF Turns
  <2>2. CASE p # q
    BY <1>1, <1>6, <2>2 DEF Turns
  <2> QED
    BY <2>1, <2>2
<1> QED
  BY <1>1, <1>6, WorkMoves

\* OneHasTheLocks: and no two of them have the locks.
LEMMA OneHasTheLocks == BaseInv /\ [Next]_vars => Exclusive'
<1> SUFFICES ASSUME BaseInv, [Next]_vars,
                    NEW p \in Process, NEW q \in Process,
                    NEW v \in work'[p], NEW w \in work'[q],
                    v.at = "running", w.at = "running"
             PROVE  p = q
  BY DEF Exclusive
<1>0. \A s, t \in Process : \A a \in work[s], b \in work[t] :
        a.at = "running" /\ b.at = "running" => s = t
  BY DEF BaseInv, WorksOK, Exclusive
<1>1. ASSUME LocksFree, NEW s \in Process, NEW a \in work[s] PROVE a.at # "running"
  BY <1>1 DEF LocksFree
<1>2. CASE UNCHANGED work
  BY <1>0, <1>2
<1>3. ASSUME NEW s \in Process, Turns(s) PROVE p = q
  <2>1. ASSUME NEW t \in Process \ {s}, NEW a \in work'[t] PROVE a \in work[t]
    BY <1>3, <2>1 DEF Turns
  <2>2. ASSUME NEW a \in work'[s], a.at = "running"
        PROVE  LocksFree \/ \E b \in work[s] : b.at = "running"
    BY <1>3, <2>2 DEF Turns, Starts
  <2>3. CASE p = s /\ q # s
    BY <1>0, <1>1, <2>1, <2>2, <2>3
  <2>4. CASE p # s /\ q = s
    BY <1>0, <1>1, <2>1, <2>2, <2>4
  <2>5. CASE p # s /\ q # s
    BY <1>0, <2>1, <2>5
  <2> QED
    BY <2>3, <2>4, <2>5
<1> QED
  BY <1>2, <1>3, WorkMoves

\* OthersAreOld: nobody else takes up the transaction of a command that goes on.
LEMMA OthersAreOld ==
  ASSUME BaseInv, [Next]_vars, NEW c \in Commander, Live(c)
  PROVE  \A p \in Process \ {c} : \A w \in work'[p] : w.req.id < slot.id
<1>0. /\ \A p \in Process \ {c} : \A w \in work[p] : w.req.id < slot.id
      /\ slot.id \in Nat
  BY IntentsStay DEF BaseInv, WorksOK, WorkOfLive
<1>1. CASE UNCHANGED work
  BY <1>0, <1>1
<1>2. ASSUME NEW q \in Process, Turns(q), NEW p \in Process \ {c}, NEW v \in work'[p]
      PROVE  v.req.id < slot.id
  <2>1. CASE v \in work[p]
    BY <1>0, <2>1
  <2>2. CASE \E w \in work[p] : Follows(v, w)
    BY <1>0, <2>2 DEF Follows
  <2>3. CASE Starts(p, v)
    <3>1. p \in Reconciler /\ ReconcilerWork(v) /\ Busy(p) /\ v.req.id = rec[p].id
      BY <1>2, <2>3, LiveFacts DEF Starts, Process
    <3>2. v.req.id # slot.id /\ v.req.id \in 1 .. slot.id
      BY <3>1, LiveFacts DEF ReconcilerWork
    <3> QED
      BY <1>0, <3>2
  <2> QED
    BY <1>2, <2>1, <2>2, <2>3 DEF Turns
<1> QED
  BY <1>1, <1>2, WorkMoves

\* LiveWorkRests: a command that does not go on waits for nothing.
LEMMA LiveWorkRests ==
  ASSUME NEW d \in Commander, ~Live(d), cmd'[d] = cmd[d] PROVE WorkOfLive(d)'
BY DEF WorkOfLive, Live

\* LiveWorkOver: nor does one that has ended.
LEMMA LiveWorkOver ==
  ASSUME NEW d \in Commander, cmd'[d].at \in {"idle", "captured"} PROVE WorkOfLive(d)'
BY DEF WorkOfLive, Live

\* LiveWorkFrame: a command and its work are not moved by others.
LEMMA LiveWorkFrame ==
  ASSUME BaseInv, [Next]_vars, NEW d \in Commander, slot' = slot,
         cmd'[d] = cmd[d], work'[d] = work[d]
  PROVE  WorkOfLive(d)'
<1>1. WorkOfLive(d)
  BY DEF BaseInv, WorksOK
<1>2. Live(d) => \A p \in Process \ {d} : \A w \in work'[p] : w.req.id < slot.id
  BY OthersAreOld
<1> QED
  BY <1>1, <1>2 DEF WorkOfLive, Live

\* LiveWorkOnward: a command that goes on beside no work of its own.
LEMMA LiveWorkOnward ==
  ASSUME BaseInv, [Next]_vars, NEW c \in Commander, Live(c), slot'.id = slot.id,
         cmd'[c].at \in {"act", "publish", "journal", "failing"},
         \/ cmd'[c].at = "failing"
         \/ work'[c] = {}
         \/ cmd[c].at \in {"act", "publish", "journal"} /\ work'[c] = work[c]
  PROVE  WorkOfLive(c)'
<1>1. WorkOfLive(c)
  BY DEF BaseInv, WorksOK
<1>2. \A p \in Process \ {c} : \A w \in work'[p] : w.req.id < slot.id
  BY OthersAreOld
<1>3. cmd'[c].at # "failing" => \A w \in work'[c] : w.req.id < slot.id
  BY <1>1 DEF WorkOfLive
<1> QED
  BY <1>2, <1>3 DEF WorkOfLive

\* WorkAwaited: work that is over is waited for no longer.
LEMMA WorkAwaited ==
  ASSUME BaseInv, [Next]_vars, NEW p \in Process, NEW ok \in BOOLEAN, WorkOver(p, ok),
         slot' = slot
  PROVE  \A d \in Commander : WorkOfLive(d)'
<1>1. VarsOK /\ work'[p] = {} /\ \A q \in Process \ {p} : work'[q] = work[q]
  BY WorkOverEffect DEF BaseInv, VarsOK
<1>2. CASE p \in Commander /\ cmd[p].at = "wait"
  <2>1. Live(p)
    BY <1>2 DEF Live
  <2>2. cmd'[p].at \in {"act", "journal", "failing"}
    BY <1>1, <1>2, WorkOverEffect
  <2>3. WorkOfLive(p)'
    BY <1>1, <1>2, <2>1, <2>2, LiveWorkOnward
  <2>4. \A d \in Commander \ {p} : cmd'[d] = cmd[d] /\ work'[d] = work[d]
    BY <1>1, WorkOverEffect, ProcessesDiffer
  <2> QED
    BY <2>3, <2>4, LiveWorkFrame
<1>3. CASE ~(p \in Commander /\ cmd[p].at = "wait")
  <2>1. \A d \in Commander : cmd'[d] = cmd[d]
    BY <1>1, <1>3, WorkOverEffect
  <2>2. ASSUME NEW d \in Commander, d # p PROVE WorkOfLive(d)'
    <3>1. work'[d] = work[d]
      BY <1>1, <2>2, ProcessesDiffer
    <3> QED
      BY <2>1, <3>1, LiveWorkFrame
  <2>3. ASSUME p \in Commander PROVE WorkOfLive(p)'
    <3>1. CASE cmd[p].at \in {"act", "publish", "journal", "failing"}
      <4>1. Live(p) /\ cmd'[p].at = cmd[p].at
        BY <2>1, <2>3, <3>1 DEF Live
      <4> QED
        BY <1>1, <2>3, <3>1, <4>1, LiveWorkOnward
    <3>2. CASE cmd[p].at \in {"idle", "captured"}
      BY <2>1, <2>3, <3>2, LiveWorkOver
    <3> QED
      BY <1>1, <1>3, <2>3, <3>1, <3>2 DEF VarsOK, Cmds
  <2> QED
    BY <2>2, <2>3
<1> QED
  BY <1>2, <1>3

\* LiveWorkIsKept: a command waits for its own work, and for nothing else.
LEMMA LiveWorkIsKept == BaseInv /\ [Next]_vars => \A d \in Commander : WorkOfLive(d)'
<1> SUFFICES ASSUME BaseInv, [Next]_vars PROVE \A d \in Commander : WorkOfLive(d)'
  OBVIOUS
<1>0. VarsOK /\ SlotOK /\ IntentsOK /\ ControlOK /\ WorksOK
  BY DEF BaseInv
<1>1. ASSUME NEW c \in Commander, CommandStep(c) PROVE \A d \in Commander : WorkOfLive(d)'
  <2>1. CASE CaptureOriginal(c)
    <3>1. cmd'[c].at = "captured" /\ \A d \in Commander \ {c} : cmd'[d] = cmd[d]
      BY <1>0, <2>1 DEF CaptureOriginal, VarsOK, Quiet
    <3> QED
      BY <2>1, <3>1, LiveWorkOver, LiveWorkFrame DEF CaptureOriginal
  <2>2. CASE Begins(c)
    <3>1. /\ ~IsActive(slot) /\ slot'.id = slot.id + 1 /\ UNCHANGED work
          /\ cmd'[c].at = "act"
          /\ \A d \in Commander \ {c} : cmd'[d] = cmd[d]
      BY <2>2, BeginEffect
    <3>2. ASSUME NEW p \in Process, NEW w \in work[p] PROVE w.req.id < slot.id + 1
      <4>1. w.req.id \in 1 .. slot.id /\ slot.id \in Nat
        BY <1>0, IntentsStay
        DEF WorksOK, WorkOK, CommandWork, ReconcilerWork, Process
      <4> QED
        BY <4>1
    <3>3. WorkOfLive(c)'
      BY <3>1, <3>2, ProcessesDiffer DEF WorkOfLive
    <3> QED
      BY <3>1, <3>3, NobodyLive, LiveWorkRests
  <2>3. CASE Enter(c)
    <3>1. /\ Live(c) /\ cmd[c].at \in {"act", "publish", "journal"}
          /\ UNCHANGED work /\ slot'.id = slot.id
      BY <2>3, <1>0, TransitionedFacts, StateBeforeFacts DEF Enter, At, Live, CommandTransition
    <3>2. /\ cmd'[c].at \in {"act", "publish", "journal"}
          /\ \A d \in Commander \ {c} : cmd'[d] = cmd[d]
      BY <1>0, <2>3 DEF Enter, VarsOK, Cmds
    <3>3. WorkOfLive(c)'
      BY <3>1, <3>2, LiveWorkOnward
    <3> QED
      BY <3>1, <3>2, <3>3, LiveFacts, LiveWorkRests
  <2>4. CASE Fetch(c)
    <3>1. /\ Live(c) /\ cmd[c].at \in {"act", "publish", "journal"}
          /\ UNCHANGED work /\ slot'.id = slot.id
      BY <2>4 DEF Fetch, At, Live
    <3>2. /\ cmd'[c].at \in {"act", "publish", "journal"}
          /\ \A d \in Commander \ {c} : cmd'[d] = cmd[d]
      BY <1>0, <2>4, DoneEffect DEF Fetch
    <3>3. WorkOfLive(c)'
      BY <3>1, <3>2, LiveWorkOnward
    <3> QED
      BY <3>1, <3>2, <3>3, LiveFacts, LiveWorkRests
  <2>5. CASE QuickPasses(c)
    <3>1. /\ Live(c) /\ cmd[c].at \in {"act", "publish", "journal"}
          /\ UNCHANGED work /\ slot'.id = slot.id
      BY <2>5 DEF QuickPasses, At, Live
    <3>2. /\ cmd'[c].at \in {"act", "publish", "journal"}
          /\ \A d \in Commander \ {c} : cmd'[d] = cmd[d]
      BY <1>0, <2>5, DoneEffect DEF QuickPasses
    <3>3. WorkOfLive(c)'
      BY <3>1, <3>2, LiveWorkOnward
    <3> QED
      BY <3>1, <3>2, <3>3, LiveFacts, LiveWorkRests
  <2>6. CASE SpawnWork(c)
    <3>1. PICK kind \in WorkKinds :
            /\ At(c, kind)
            /\ work' = [work EXCEPT ![c] = {[at |-> "spawned", req |-> Pending(c),
                                             does |-> kind, model |-> Mine(c).target,
                                             script |-> "passing"]}]
      BY <2>6 DEF SpawnWork
    <3>2. Live(c) /\ HasNext(c) /\ NextKind(c) = kind
      BY <3>1 DEF At, Live
    <3>3. PICK v : v = [at |-> "spawned", req |-> Pending(c), does |-> kind,
                        model |-> Mine(c).target, script |-> "passing"]
      OBVIOUS
    <3>4. v.req = Pending(c) /\ v.does = kind /\ v.script = "passing"
      BY <3>3
    <3>5. work'[c] = {v} /\ \A q \in Process \ {c} : work'[q] = work[q]
      BY <1>0, <3>1, <3>3, ProcessesDiffer DEF VarsOK
    <3>6. /\ cmd'[c].at = "wait" /\ cmd'[c].step = cmd[c].step /\ slot' = slot
          /\ \A d \in Commander \ {c} : cmd'[d] = cmd[d]
      BY <1>0, <2>6, AtEffect DEF SpawnWork
    <3>7. v.req.id = slot.id /\ kind = KindAt(slot.op, cmd[c].step)
      BY <3>2, <3>4, PendingFacts, MineFacts
    <3>8. CarriesOut(v, KindAt(slot.op, cmd[c].step))
      BY <3>4, <3>7 DEF CarriesOut, WorkKinds, ReleaseSteps
    <3>9. WorkOfLive(c)'
      <4>1. \A p \in Process \ {c} : \A w \in work'[p] : w.req.id < slot.id
        BY <3>2, OthersAreOld
      <4> QED
        BY <3>4, <3>5, <3>6, <3>7, <3>8, <4>1 DEF WorkOfLive
    <3> QED
      BY <3>2, <3>6, <3>9, LiveFacts, LiveWorkRests
  <2>7. CASE ActivateAnchor(c)
    <3>1. /\ Live(c) /\ cmd[c].at \in {"act", "publish", "journal"}
          /\ UNCHANGED work /\ slot'.id = slot.id
      BY <2>7 DEF ActivateAnchor, At, Live
    <3>2. /\ cmd'[c].at \in {"act", "publish", "journal"}
          /\ \A d \in Commander \ {c} : cmd'[d] = cmd[d]
      BY <1>0, <2>7, DoneEffect DEF ActivateAnchor
    <3>3. WorkOfLive(c)'
      BY <3>1, <3>2, LiveWorkOnward
    <3> QED
      BY <3>1, <3>2, <3>3, LiveFacts, LiveWorkRests
  <2>8. CASE VerifyRelease(c)
    <3>1. /\ Live(c) /\ cmd[c].at \in {"act", "publish", "journal"}
          /\ UNCHANGED work /\ slot'.id = slot.id
      BY <2>8 DEF VerifyRelease, At, Live
    <3>2. /\ cmd'[c].at \in {"act", "publish", "journal"}
          /\ \A d \in Commander \ {c} : cmd'[d] = cmd[d]
      BY <1>0, <2>8, DoneEffect DEF VerifyRelease
    <3>3. WorkOfLive(c)'
      BY <3>1, <3>2, LiveWorkOnward
    <3> QED
      BY <3>1, <3>2, <3>3, LiveFacts, LiveWorkRests
  <2>9. CASE AssertPointerAction(c)
    <3>1. /\ Live(c) /\ cmd[c].at \in {"act", "publish", "journal"}
          /\ UNCHANGED work /\ slot'.id = slot.id
      BY <2>9 DEF AssertPointerAction, At, Live
    <3>2. /\ cmd'[c].at \in {"act", "publish", "journal"}
          /\ \A d \in Commander \ {c} : cmd'[d] = cmd[d]
      BY <1>0, <2>9, AtEffect DEF AssertPointerAction
    <3>3. WorkOfLive(c)'
      BY <3>1, <3>2, LiveWorkOnward
    <3> QED
      BY <3>1, <3>2, <3>3, LiveFacts, LiveWorkRests
  <2>10. CASE PublishRollback(c)
    <3>1. /\ Live(c) /\ cmd[c].at \in {"act", "publish", "journal"}
          /\ UNCHANGED work /\ slot'.id = slot.id
      BY <2>10 DEF PublishRollback, At, Live
    <3>2. /\ cmd'[c].at \in {"act", "publish", "journal"}
          /\ \A d \in Commander \ {c} : cmd'[d] = cmd[d]
      BY <1>0, <2>10, AtEffect DEF PublishRollback
    <3>3. WorkOfLive(c)'
      BY <3>1, <3>2, LiveWorkOnward
    <3> QED
      BY <3>1, <3>2, <3>3, LiveFacts, LiveWorkRests
  <2>11. CASE ClearRollback(c)
    <3>1. /\ Live(c) /\ cmd[c].at \in {"act", "publish", "journal"}
          /\ UNCHANGED work /\ slot'.id = slot.id
      BY <2>11 DEF ClearRollback, At, Live
    <3>2. /\ cmd'[c].at \in {"act", "publish", "journal"}
          /\ \A d \in Commander \ {c} : cmd'[d] = cmd[d]
      BY <1>0, <2>11, AtEffect DEF ClearRollback
    <3>3. WorkOfLive(c)'
      BY <3>1, <3>2, LiveWorkOnward
    <3> QED
      BY <3>1, <3>2, <3>3, LiveFacts, LiveWorkRests
  <2>12. CASE Journal(c)
    <3>1. /\ Live(c) /\ cmd[c].at \in {"act", "publish", "journal"}
          /\ UNCHANGED work /\ slot'.id = slot.id
      BY <2>12, <1>0 DEF Journal, At, Live, Advanced, VarsOK, Docs
    <3>2. /\ cmd'[c].at \in {"act", "publish", "journal"}
          /\ \A d \in Commander \ {c} : cmd'[d] = cmd[d]
      BY <1>0, <2>12 DEF Journal, VarsOK, Cmds
    <3>3. WorkOfLive(c)'
      BY <3>1, <3>2, LiveWorkOnward
    <3> QED
      BY <3>1, <3>2, <3>3, LiveFacts, LiveWorkRests
  <2>13. CASE Complete(c)
    <3>1. Live(c) /\ cmd' = [cmd EXCEPT ![c] = Quiet]
      BY <2>13 DEF Complete, Live
    <3> QED
      BY <1>0, <3>1, QuietEffect, LiveFacts, LiveWorkOver, LiveWorkRests
  <2>14. CASE Raise(c)
    <3>1. /\ Live(c) /\ slot' = slot /\ cmd'[c].at = "failing"
          /\ \A d \in Commander \ {c} : cmd'[d] = cmd[d]
      BY <1>0, <2>14, AtEffect DEF Raise, Live
    <3>2. WorkOfLive(c)'
      BY <3>1, LiveWorkOnward
    <3> QED
      BY <3>1, <3>2, LiveFacts, LiveWorkRests
  <2>15. CASE Mark(c)
    <3>1. Live(c) /\ cmd' = [cmd EXCEPT ![c] = Quiet]
      BY <2>15 DEF Mark, Live
    <3> QED
      BY <1>0, <3>1, QuietEffect, LiveFacts, LiveWorkOver, LiveWorkRests
  <2>16. CASE Die(c)
    <3>1. /\ cmd'[c].at = "idle" /\ \A d \in Commander \ {c} : cmd'[d] = cmd[d]
          /\ UNCHANGED <<slot, work>>
      BY <1>0, <2>16, QuietEffect DEF Die
    <3> QED
      BY <3>1, LiveWorkFrame, LiveWorkOver
  <2> QED
    BY <1>1, <2>1, <2>2, <2>3, <2>4, <2>5, <2>6, <2>7, <2>8, <2>9, <2>10, <2>11,
       <2>12, <2>13, <2>14, <2>15, <2>16 DEF CommandStep, Begins
<1>2. ASSUME NEW p \in Process, WorkStep(p) PROVE \A d \in Commander : WorkOfLive(d)'
  <2>1. CASE WorkEnters(p)
    <3>1. PICK w \in work[p] : work' = [work EXCEPT ![p] = {[w EXCEPT !.at = "running"]}]
      BY <2>1 DEF WorkEnters
    <3>2. PICK v : v = [w EXCEPT !.at = "running"]
      OBVIOUS
    <3>3. w \in Works /\ \A u \in work[p] : u = w
      BY <1>0 DEF VarsOK, WorksOK, WorkOK
    <3>4. v.req = w.req /\ v.does = w.does /\ v.script = w.script
      BY <3>2, <3>3 DEF Works
    <3>5. work'[p] = {v} /\ \A q \in Process \ {p} : work'[q] = work[q]
      BY <1>0, <3>1, <3>2 DEF VarsOK
    <3>6. UNCHANGED <<slot, cmd>>
      BY <2>1 DEF WorkEnters
    <3>7. ASSUME p \in Commander PROVE WorkOfLive(p)'
      <4>1. WorkOfLive(p)
        BY <1>0, <3>7 DEF WorksOK
      <4>2. Live(p) => \A q \in Process \ {p} : \A u \in work'[q] : u.req.id < slot.id
        BY <3>7, OthersAreOld
      <4>3. \A kind : CarriesOut(w, kind) => CarriesOut(v, kind)
        BY <3>4 DEF CarriesOut
      <4> QED
        BY <3>3, <3>4, <3>5, <3>6, <4>1, <4>2, <4>3 DEF WorkOfLive, Live
    <3> QED
      BY <3>5, <3>6, <3>7, LiveWorkFrame, ProcessesDiffer
  <2>2. CASE WorkFails(p)
    BY <2>2, WorkAwaited DEF WorkFails
  <2>3. CASE WorkActs(p)
    <3>0. UNCHANGED slot
      BY <2>3, ActsEffect
    <3>1. CASE \E ok \in BOOLEAN : WorkOver(p, ok)
      BY <3>0, <3>1, WorkAwaited
    <3>2. CASE ~\E ok \in BOOLEAN : WorkOver(p, ok)
      <4>1. PICK w \in work[p] :
              /\ UNCHANGED cmd /\ w.does \in ReleaseSteps \union {"release"}
              /\ w.script # "killed"
              /\ \E next : NextStep(w, next) /\ work' = [work EXCEPT ![p] = {next}]
        BY <2>3, <3>2, ActsEffect
      <4>2. PICK next : NextStep(w, next) /\ work' = [work EXCEPT ![p] = {next}]
        BY <4>1
      <4>3. work'[p] = {next} /\ \A q \in Process \ {p} : work'[q] = work[q]
        BY <1>0, <4>2 DEF VarsOK
      <4>4. \A u \in work[p] : u = w
        BY <1>0 DEF WorksOK, WorkOK
      <4>5. ASSUME p \in Commander PROVE WorkOfLive(p)'
        <5>1. WorkOfLive(p)
          BY <1>0, <4>5 DEF WorksOK
        <5>2. Live(p) => \A q \in Process \ {p} : \A u \in work'[q] : u.req.id < slot.id
          BY <4>5, OthersAreOld
        <5>3. \A kind : CarriesOut(w, kind) => CarriesOut(next, kind)
          BY <4>1, <4>2 DEF CarriesOut, NextStep
        <5>4. next.req = w.req /\ next.script # "killed"
          BY <4>1, <4>2 DEF NextStep
        <5> QED
          BY <3>0, <4>1, <4>3, <4>4, <5>1, <5>2, <5>3, <5>4 DEF WorkOfLive, Live
      <4> QED
        BY <3>0, <4>1, <4>3, <4>5, LiveWorkFrame, ProcessesDiffer
    <3> QED
      BY <3>1, <3>2
  <2> QED
    BY <1>2, <2>1, <2>2, <2>3 DEF WorkStep
<1>3. ASSUME NEW r \in Reconciler, RecoveryStep(r) PROVE \A d \in Commander : WorkOfLive(d)'
  <2>1. CASE FenceOrphan(r)
    <3>1. InitiatorDead /\ cmd' = cmd
      BY <2>1 DEF FenceOrphan, Busy
    <3> QED
      BY <3>1, NobodyLive, LiveWorkRests
  <2>2. CASE ReadPlan(r)
    BY <2>2, LiveWorkFrame DEF ReadPlan
  <2>3. CASE Classify(r)
    BY <2>3, LiveWorkFrame DEF Classify
  <2>4. CASE Confirm(r)
    BY <2>4, LiveWorkFrame DEF Confirm
  <2>5. CASE BeginRestoring(r)
    <3>1. Busy(r) /\ rec[r].id = slot.id /\ cmd' = cmd
      BY <2>5 DEF BeginRestoring, Busy
    <3> QED
      BY <3>1, NobodyLive, LiveWorkRests
  <2>6. CASE RestoreProfile(r)
    BY <2>6, LiveWorkFrame DEF RestoreProfile
  <2>7. CASE SpawnRestore(r)
    <3>1. UNCHANGED <<slot, cmd>> /\ \A q \in Process \ {r} : work'[q] = work[q]
      BY <1>0, <2>7 DEF SpawnRestore, VarsOK
    <3> QED
      BY <3>1, LiveWorkFrame, ProcessesDiffer
  <2>8. CASE Verify(r)
    BY <2>8, LiveWorkFrame DEF Verify
  <2>9. CASE ReadPointer(r)
    BY <2>9, LiveWorkFrame DEF ReadPointer
  <2>10. CASE RestorePointer(r)
    BY <2>10, LiveWorkFrame DEF RestorePointer
  <2>11. CASE Resolve(r)
    BY <2>11, LiveWorkFrame DEF Resolve
  <2>12. CASE Reopen(r)
    <3>1. Busy(r) /\ rec[r].id = slot.id /\ cmd' = cmd
      BY <2>12 DEF Reopen, Busy
    <3> QED
      BY <3>1, NobodyLive, LiveWorkRests
  <2>13. CASE Close(r)
    <3>1. Busy(r) /\ rec[r].id = slot.id /\ cmd' = cmd
      BY <2>13 DEF Close, Busy
    <3> QED
      BY <3>1, NobodyLive, LiveWorkRests
  <2>14. CASE RecoveryRaises(r)
    <3>1. UNCHANGED <<slot, cmd>> /\ \A q \in Process \ {r} : work'[q] = work[q]
      BY <1>0, <2>14 DEF RecoveryRaises, VarsOK
    <3> QED
      BY <3>1, LiveWorkFrame, ProcessesDiffer
  <2>15. CASE MarkRecovery(r)
    <3>1. CASE rec[r].id = slot.id
      BY <2>15, <3>1, NobodyLive, LiveWorkRests DEF MarkRecovery, Busy
    <3>2. CASE rec[r].id # slot.id
      BY <2>15, <3>2, LiveWorkFrame DEF MarkRecovery, Marked
    <3> QED
      BY <3>1, <3>2
  <2>16. CASE Leave(r)
    BY <2>16, LiveWorkFrame DEF Leave
  <2> QED
    BY <1>3, <2>1, <2>2, <2>3, <2>4, <2>5, <2>6, <2>7, <2>8, <2>9, <2>10, <2>11,
       <2>12, <2>13, <2>14, <2>15, <2>16 DEF RecoveryStep
<1>4. CASE ContainerExits
  BY <1>4, LiveWorkFrame DEF ContainerExits
<1>5. CASE CandidateExits
  BY <1>5, LiveWorkFrame DEF CandidateExits
<1>6. CASE SupervisorStarts
  BY <1>6, LiveWorkFrame DEF SupervisorStarts
<1>7. CASE UNCHANGED vars
  BY <1>7, LiveWorkFrame DEF vars
<1> QED
  BY <1>1, <1>2, <1>3, <1>4, <1>5, <1>6, <1>7 DEF Next


\* InitIsBase: nothing has begun.
LEMMA InitIsBase == Init => BaseInv
<1> SUFFICES ASSUME Init PROVE BaseInv
  OBVIOUS
<1>1. NoDoc \in Docs /\ NoIntent \in Intents /\ NoPointer \in PointerDocs(Ids, Nat)
  BY RuntimeChangeAssumption
  DEF NoDoc, Docs, NoIntent, Intents, Nothing, Originals, NoPointer, PointerDocs
<1>2. Quiet \in Cmds /\ Away \in Recs
  BY RuntimeChangeAssumption DEF Quiet, Cmds, Nothing, Originals, Away, Recs
<1>3. VarsOK
  BY <1>1, <1>2 DEF Init, VarsOK
<1>4. SlotOK
  BY DEF Init, SlotOK, NoDoc
<1>5. IntentsOK
  BY RuntimeChangeAssumption
  DEF Init, IntentsOK, IntentOK, NoDoc, NoIntent, NoPointer, Ids, TargetOperations,
      RolloutOperations
<1>6. ControlOK
  BY DEF Init, ControlOK, CommandOK, ReconcilerOK, Live, Busy, Quiet, Away
<1>7. WorksOK
  BY DEF Init, WorksOK, WorkOK, Exclusive, WorkOfLive, Live, Quiet
<1> QED
  BY <1>3, <1>4, <1>5, <1>6, <1>7 DEF BaseInv

\* BaseIsInvariant: whatever the models, the commands and the processes, the document
\* in the slot, the intents, the processes and their work stay in step.
THEOREM BaseIsInvariant == Spec => []BaseInv
<1>1. Init => BaseInv
  BY InitIsBase
<1>2. BaseInv /\ [Next]_vars => BaseInv'
  BY VarsAreKept, SlotIsKept, IntentsAreKept, ControlIsKept, EachWorkIsKept, OneHasTheLocks,
     LiveWorkIsKept DEF BaseInv, WorksOK
<1> QED
  BY <1>1, <1>2, PTL DEF Spec

--------------------------------------------------------------------------------
(* Nobody is overtaken                                                     *)

\* CloseFacts: a transaction that is closed is over, and so is its reconciler.
LEMMA CloseFacts ==
  ASSUME BaseInv, NEW r \in Reconciler, Close(r)
  PROVE  /\ rec[r].at = "close" /\ rec[r].id = slot.id /\ slot.id \in Ids /\ LocksFree
         /\ slot'.id = slot.id /\ slot'.op = slot.op /\ slot'.state = "failed-restored"
         /\ slot.state = "production_restoring" /\ IsActive(slot) /\ ~IsActive(slot')
         /\ rec'[r] = Away /\ \A s \in Reconciler \ {r} : rec'[s] = rec[s]
         /\ UNCHANGED <<intent, objects, pointer, selection, container, healthy, candidate,
                        cmd, work>>
<1>1. /\ rec[r].at = "close" /\ rec[r].id = slot.id /\ LocksFree
      /\ CanTransition(slot, "failed-restored") /\ slot' = Transitioned(slot, "failed-restored")
      /\ rec' = [rec EXCEPT ![r] = Away]
      /\ UNCHANGED <<intent, objects, pointer, selection, container, healthy, candidate,
                     cmd, work>>
  BY DEF Close, store, runtime
<1>2. Busy(r) /\ slot \in Docs /\ rec \in [Reconciler -> Recs]
  BY <1>1 DEF Busy, BaseInv, VarsOK
<1>3. slot.id \in Ids
  BY <1>1, <1>2, RecoversFacts
<1>4. slot.id # 0 /\ slot.schema = 2
  BY <1>2, <1>3, RuntimeChangeAssumption DEF Ids, Docs
<1>5. /\ slot'.id = slot.id /\ slot'.op = slot.op /\ slot'.state = "failed-restored"
      /\ slot'.schema = 2
  BY <1>1, <1>4, TransitionedFacts DEF BaseInv, States
<1>6. slot.state = "production_restoring"
  <2>1. slot.state \in States \ TerminalStates /\ "failed-restored" \in AllowedTransitions[slot.state]
    BY <1>1, <1>4, LegalTargets
  <2> QED
    BY <2>1 DEF AllowedTransitions, States, TerminalStates
<1> QED
  BY <1>1, <1>2, <1>3, <1>4, <1>5, <1>6 DEF IsActive, IsTerminal, TerminalStates

\* NobodyIsOvertaken: one reconciler alone is not overtaken: nothing else closes what it
\* recovers, and nothing begins meanwhile.
LEMMA NobodyIsOvertaken ==
  ASSUME \A r, s \in Reconciler : r = s
  PROVE  BaseInv /\ NobodyOvertaken /\ [Next]_vars => NobodyOvertaken'
<1> SUFFICES ASSUME BaseInv, NobodyOvertaken, [Next]_vars, NEW s \in Reconciler, Busy(s)'
             PROVE  rec'[s].id = slot'.id /\ IsActive(slot')
  BY DEF NobodyOvertaken
<1>1. CASE Busy(s) /\ rec'[s].id = rec[s].id
  <2>1. rec[s].id = slot.id /\ IsActive(slot)
    BY <1>1 DEF NobodyOvertaken
  <2>2. \A c \in Commander : ~Live(c)
    BY <1>1, <2>1, NobodyLive
  <2>3. \A c \in Commander : ~Begins(c)
    BY <2>1, BeginEffect
  <2>4. SlotKept
    BY <2>3, SlotMoves
  <2>5. \A r \in Reconciler : ~Close(r)
    <3> SUFFICES ASSUME NEW r \in Reconciler, Close(r) PROVE FALSE
      OBVIOUS
    <3>1. rec'[s] = Away
      BY CloseFacts
    <3> QED
      BY <3>1 DEF Busy, Away
  <2>6. \A c \in Commander : ~Enter(c) /\ ~Journal(c) /\ ~Complete(c)
    BY <2>2 DEF Live, Enter, Journal, Complete
  <2>7. slot' = slot \/ slot'.state \in RecoveryStates
    BY <2>3, <2>5, <2>6, SlotSteps
  <2> QED
    BY <1>1, <2>1, <2>4, <2>7
    DEF SlotKept, IsActive, IsTerminal, RecoveryStates, TerminalStates
<1>2. CASE rec'[s].id = slot.id /\ IsActive(slot) /\ slot' = slot
  BY <1>2
<1> QED
  BY <1>1, <1>2, RecsMove

\* OneIsNeverOvertaken: with one reconciler, recovery never works on a transaction that
\* is over: no recovery it is in the middle of is closed or replaced by anybody else.
THEOREM OneIsNeverOvertaken ==
  ASSUME \A r, s \in Reconciler : r = s
  PROVE  Spec => []NobodyOvertaken
<1>1. Init => NobodyOvertaken
  BY DEF Init, NobodyOvertaken, Busy, Away
<1>2. BaseInv /\ NobodyOvertaken /\ [Next]_vars => NobodyOvertaken'
  BY NobodyIsOvertaken
<1> QED
  BY <1>1, <1>2, BaseIsInvariant, PTL DEF Spec
--------------------------------------------------------------------------------
(* The pointer                                                             *)

\* The pointer as transaction id found it, as it wrote it, and as its recovery put it
\* back.
UntouchedBy(id) == pointer = intent[id].previous
WrittenBy(id) == pointer = Successor(intent[id].previous, OwnActive(id), id)
UndoneBy(id) ==
  pointer = [generation |-> intent[id].previous.generation + 2,
             active |-> intent[id].previous.active, previous |-> OwnActive(id), by |-> id]

\* How many actions of its plan a command has carried out, journalled or not.
DoneActions(c) == IF cmd[c].at = "journal" THEN cmd[c].step + 1 ELSE cmd[c].step
GoesOn(c) == Live(c) /\ cmd[c].at # "failing"

\* The pointer of a rollout is in one of three places: a command that goes on has
\* written it exactly when its plan is done, and a recovery that read it knows
\* whether it has to be put back.
PointerOK ==
  /\ \A r \in Reconciler : rec[r].at \in {"pointer", "cas"} => RecoversRollout(r)
  /\ IsRollout(slot) =>
       /\ UntouchedBy(slot.id) \/ WrittenBy(slot.id) \/ UndoneBy(slot.id)
       /\ \A c \in Commander : GoesOn(c) =>
            IF DoneActions(c) = LenOf(slot.op) THEN WrittenBy(slot.id)
                                               ELSE UntouchedBy(slot.id)
       /\ \A r \in Reconciler :
            /\ rec[r].at = "cas" => ~UntouchedBy(slot.id)
            /\ rec[r].at \in {"resolve", "reopen", "close"} => ~WrittenBy(slot.id)
       /\ slot.state = "completed" => WrittenBy(slot.id)
       /\ slot.state = "failed-restored" => ~WrittenBy(slot.id)

\* LastIsPointer: the last action of a rollout is the pointer action.
LEMMA LastIsPointer ==
  ASSUME NEW op \in RolloutOperations, NEW n \in Nat, n + 1 = LenOf(op)
  PROVE  KindAt(op, n) \in {"publish-rollback", "clear-rollback"}
<1>1. CASE op = "upgrade"
  <2>1. n = Fetches + 5 /\ n = ActivateStep(op) + 3 /\ n # ActivateStep(op)
        /\ n # ActivateStep(op) + 1 /\ n # ActivateStep(op) + 2
        /\ n + 1 # ActivateStep(op) /\ n # 0
    BY <1>1, FetchesAssumption DEF LenOf, ActivateStep
  <2> QED
    BY <1>1, <2>1 DEF KindAt, TargetOperations, RolloutOperations
<1>2. CASE op = "rollback"
  <2>1. n = 4
    BY <1>2 DEF LenOf, ActivateStep
  <2> QED
    BY <1>2, <2>1 DEF KindAt, ActivateStep, TargetOperations
<1> QED
  BY <1>1, <1>2 DEF RolloutOperations

\* PointerTurns: a command writes the pointer, or a reconciler puts it back.
LEMMA PointerTurns ==
  BaseInv /\ [Next]_vars =>
    \/ pointer' = pointer
    \/ \E c \in Commander : PublishRollback(c) \/ ClearRollback(c)
    \/ \E r \in Reconciler : RestorePointer(r)
<1> DEFINE Goal ==
      \/ pointer' = pointer
      \/ \E c \in Commander : PublishRollback(c) \/ ClearRollback(c)
      \/ \E r \in Reconciler : RestorePointer(r)
<1> SUFFICES ASSUME BaseInv, [Next]_vars PROVE Goal
  OBVIOUS
<1>0. VarsOK /\ SlotOK /\ IntentsOK /\ ControlOK /\ WorksOK
  BY DEF BaseInv
<1>1. ASSUME NEW c \in Commander, CommandStep(c) PROVE Goal
  <2>1. CASE CaptureOriginal(c)
    BY <2>1 DEF store, CaptureOriginal
  <2>2. CASE Begins(c)
    BY <2>2, BeginEffect
  <2>3. CASE Enter(c)
    BY <2>3 DEF store, Enter, CommandTransition
  <2>4. CASE Fetch(c)
    BY <2>4 DEF store, Fetch
  <2>5. CASE QuickPasses(c)
    BY <2>5 DEF store, QuickPasses
  <2>6. CASE SpawnWork(c)
    BY <2>6 DEF store, SpawnWork
  <2>7. CASE ActivateAnchor(c)
    BY <2>7 DEF store, ActivateAnchor
  <2>8. CASE VerifyRelease(c)
    BY <2>8 DEF store, VerifyRelease
  <2>9. CASE AssertPointerAction(c)
    BY <2>9 DEF store, AssertPointerAction
  <2>10. CASE PublishRollback(c)
    BY <2>10
  <2>11. CASE ClearRollback(c)
    BY <2>11
  <2>12. CASE Journal(c)
    BY <2>12 DEF store, Journal
  <2>13. CASE Complete(c)
    BY <2>13 DEF store, Complete, CommandTransition
  <2>14. CASE Raise(c)
    BY <2>14 DEF store, Raise
  <2>15. CASE Mark(c)
    BY <2>15 DEF store, Mark
  <2>16. CASE Die(c)
    BY <2>16 DEF store, Die
  <2> QED
    BY <1>1, <2>1, <2>2, <2>3, <2>4, <2>5, <2>6, <2>7, <2>8, <2>9, <2>10, <2>11,
       <2>12, <2>13, <2>14, <2>15, <2>16 DEF CommandStep, Begins
<1>2. ASSUME NEW p \in Process, WorkStep(p) PROVE Goal
  <2>1. CASE WorkEnters(p)
    BY <2>1 DEF store, WorkEnters
  <2>2. CASE WorkFails(p)
    BY <2>2 DEF store, WorkFails
  <2>3. CASE WorkActs(p)
    BY <2>3, ActsEffect
  <2> QED
    BY <1>2, <2>1, <2>2, <2>3 DEF WorkStep
<1>3. ASSUME NEW r \in Reconciler, RecoveryStep(r) PROVE Goal
  <2>1. CASE FenceOrphan(r)
    BY <2>1 DEF store, FenceOrphan
  <2>2. CASE ReadPlan(r)
    BY <2>2 DEF store, ReadPlan
  <2>3. CASE Classify(r)
    BY <2>3 DEF store, Classify
  <2>4. CASE Confirm(r)
    BY <2>4 DEF store, Confirm
  <2>5. CASE BeginRestoring(r)
    BY <2>5 DEF store, BeginRestoring
  <2>6. CASE RestoreProfile(r)
    BY <2>6 DEF store, RestoreProfile
  <2>7. CASE SpawnRestore(r)
    BY <2>7 DEF store, SpawnRestore
  <2>8. CASE Verify(r)
    BY <2>8 DEF store, Verify
  <2>9. CASE ReadPointer(r)
    BY <2>9 DEF store, ReadPointer
  <2>10. CASE RestorePointer(r)
    BY <2>10
  <2>11. CASE Resolve(r)
    BY <2>11 DEF store, Resolve
  <2>12. CASE Reopen(r)
    BY <2>12 DEF store, Reopen
  <2>13. CASE Close(r)
    BY <2>13 DEF store, Close
  <2>14. CASE RecoveryRaises(r)
    BY <2>14 DEF store, RecoveryRaises
  <2>15. CASE MarkRecovery(r)
    BY <2>15 DEF store, MarkRecovery
  <2>16. CASE Leave(r)
    BY <2>16 DEF store, Leave
  <2> QED
    BY <1>3, <2>1, <2>2, <2>3, <2>4, <2>5, <2>6, <2>7, <2>8, <2>9, <2>10, <2>11,
       <2>12, <2>13, <2>14, <2>15, <2>16 DEF RecoveryStep
<1>4. CASE ContainerExits
  BY <1>4 DEF store, ContainerExits
<1>5. CASE CandidateExits
  BY <1>5 DEF store, CandidateExits
<1>6. CASE SupervisorStarts
  BY <1>6 DEF store, SupervisorStarts
<1>7. CASE UNCHANGED vars
  BY <1>7 DEF vars
<1> QED
  BY <1>1, <1>2, <1>3, <1>4, <1>5, <1>6, <1>7 DEF Next

\* What carries out an action of the plan of a command.
Carries(d) ==
  \/ Fetch(d) \/ QuickPasses(d) \/ ActivateAnchor(d) \/ VerifyRelease(d)
  \/ PublishRollback(d) \/ ClearRollback(d)
  \/ cmd[d].at = "wait" /\ WorkActs(d)

\* PlanSteps: a command goes on as it was, carries out the next action of its plan, or begins.
LEMMA PlanSteps ==
  BaseInv /\ [Next]_vars =>
    \A d \in Commander : GoesOn(d)' =>
      \/ Begins(d)
      \/ GoesOn(d) /\ DoneActions(d)' = DoneActions(d)
      \/ /\ GoesOn(d) /\ Carries(d)
         /\ cmd[d].step < LenOf(slot.op) /\ DoneActions(d) = cmd[d].step
         /\ DoneActions(d)' = DoneActions(d) + 1
<1> DEFINE Goal ==
      \A d \in Commander : GoesOn(d)' =>
        \/ Begins(d)
        \/ GoesOn(d) /\ DoneActions(d)' = DoneActions(d)
        \/ /\ GoesOn(d) /\ Carries(d)
           /\ cmd[d].step < LenOf(slot.op) /\ DoneActions(d) = cmd[d].step
           /\ DoneActions(d)' = DoneActions(d) + 1
<1> SUFFICES ASSUME BaseInv, [Next]_vars PROVE Goal
  OBVIOUS
<1>0. VarsOK /\ SlotOK /\ IntentsOK /\ ControlOK /\ WorksOK
  BY DEF BaseInv
<1>1. ASSUME NEW c \in Commander, CommandStep(c) PROVE Goal
  <2>1. CASE CaptureOriginal(c)
    <3>1. /\ cmd'[c].at = "captured"
          /\ \A d \in Commander \ {c} : cmd'[d] = cmd[d]
      BY <1>0, <2>1 DEF CaptureOriginal, VarsOK, Quiet
    <3> QED
      BY <3>1 DEF GoesOn, DoneActions, Live
  <2>2. CASE Begins(c)
    <3>1. \A d \in Commander \ {c} : cmd'[d] = cmd[d]
      BY <2>2, BeginEffect
    <3> QED
      BY <2>2, <3>1 DEF GoesOn, DoneActions, Live
  <2>3. CASE Enter(c)
    <3>1. cmd' = [cmd EXCEPT ![c].state = StateBefore(c)]
      BY <2>3 DEF Enter
    <3>2. \A d \in Commander : cmd'[d].at = cmd[d].at /\ cmd'[d].step = cmd[d].step
      BY <1>0, <3>1 DEF VarsOK, Cmds
    <3> QED
      BY <3>2 DEF GoesOn, DoneActions, Live
  <2>4. CASE Fetch(c)
    <3>1. Done(c) /\ cmd[c].at = "act" /\ HasNext(c) /\ Carries(c)
      BY <2>4 DEF Fetch, At, Carries
    <3>2. Live(c)
      BY <3>1 DEF Live
    <3>3. cmd[c].step \in Nat /\ cmd[c].step < LenOf(slot.op)
      BY <3>1, <3>2, MineFacts
    <3>4. \/ cmd'[c].at = "journal" /\ cmd'[c].step = cmd[c].step
          \/ cmd'[c].at = "act" /\ cmd'[c].step = cmd[c].step + 1
      BY <1>0, <3>1, DoneEffect
    <3>5. \A d \in Commander \ {c} : cmd'[d] = cmd[d]
      BY <1>0, <3>1, DoneEffect
    <3> QED
      BY <3>1, <3>2, <3>3, <3>4, <3>5 DEF GoesOn, DoneActions, Live
  <2>5. CASE QuickPasses(c)
    <3>1. Done(c) /\ cmd[c].at = "act" /\ HasNext(c) /\ Carries(c)
      BY <2>5 DEF QuickPasses, At, Carries
    <3>2. Live(c)
      BY <3>1 DEF Live
    <3>3. cmd[c].step \in Nat /\ cmd[c].step < LenOf(slot.op)
      BY <3>1, <3>2, MineFacts
    <3>4. \/ cmd'[c].at = "journal" /\ cmd'[c].step = cmd[c].step
          \/ cmd'[c].at = "act" /\ cmd'[c].step = cmd[c].step + 1
      BY <1>0, <3>1, DoneEffect
    <3>5. \A d \in Commander \ {c} : cmd'[d] = cmd[d]
      BY <1>0, <3>1, DoneEffect
    <3> QED
      BY <3>1, <3>2, <3>3, <3>4, <3>5 DEF GoesOn, DoneActions, Live
  <2>6. CASE SpawnWork(c)
    <3>1. cmd[c].at = "act" /\ cmd' = [cmd EXCEPT ![c].at = "wait"]
      BY <2>6 DEF SpawnWork, At
    <3> QED
      BY <1>0, <3>1, AtEffect DEF GoesOn, DoneActions, Live
  <2>7. CASE ActivateAnchor(c)
    <3>1. Done(c) /\ cmd[c].at = "act" /\ HasNext(c) /\ Carries(c)
      BY <2>7 DEF ActivateAnchor, At, Carries
    <3>2. Live(c)
      BY <3>1 DEF Live
    <3>3. cmd[c].step \in Nat /\ cmd[c].step < LenOf(slot.op)
      BY <3>1, <3>2, MineFacts
    <3>4. \/ cmd'[c].at = "journal" /\ cmd'[c].step = cmd[c].step
          \/ cmd'[c].at = "act" /\ cmd'[c].step = cmd[c].step + 1
      BY <1>0, <3>1, DoneEffect
    <3>5. \A d \in Commander \ {c} : cmd'[d] = cmd[d]
      BY <1>0, <3>1, DoneEffect
    <3> QED
      BY <3>1, <3>2, <3>3, <3>4, <3>5 DEF GoesOn, DoneActions, Live
  <2>8. CASE VerifyRelease(c)
    <3>1. Done(c) /\ cmd[c].at = "act" /\ HasNext(c) /\ Carries(c)
      BY <2>8 DEF VerifyRelease, At, Carries
    <3>2. Live(c)
      BY <3>1 DEF Live
    <3>3. cmd[c].step \in Nat /\ cmd[c].step < LenOf(slot.op)
      BY <3>1, <3>2, MineFacts
    <3>4. \/ cmd'[c].at = "journal" /\ cmd'[c].step = cmd[c].step
          \/ cmd'[c].at = "act" /\ cmd'[c].step = cmd[c].step + 1
      BY <1>0, <3>1, DoneEffect
    <3>5. \A d \in Commander \ {c} : cmd'[d] = cmd[d]
      BY <1>0, <3>1, DoneEffect
    <3> QED
      BY <3>1, <3>2, <3>3, <3>4, <3>5 DEF GoesOn, DoneActions, Live
  <2>9. CASE AssertPointerAction(c)
    <3>1. cmd[c].at = "act" /\ cmd' = [cmd EXCEPT ![c].at = "publish"]
      BY <2>9 DEF AssertPointerAction, At
    <3> QED
      BY <1>0, <3>1, AtEffect DEF GoesOn, DoneActions, Live
  <2>10. CASE PublishRollback(c)
    <3>1. /\ cmd[c].at = "publish" /\ cmd' = [cmd EXCEPT ![c].at = "journal"] /\ Carries(c)
      BY <2>10 DEF PublishRollback, Carries
    <3>2. cmd[c].step \in Nat /\ cmd[c].step < LenOf(slot.op)
      BY <1>0, <3>1, MineFacts DEF Live, ControlOK, CommandOK
    <3> QED
      BY <1>0, <3>1, <3>2, AtEffect DEF GoesOn, DoneActions, Live
  <2>11. CASE ClearRollback(c)
    <3>1. /\ cmd[c].at = "publish" /\ cmd' = [cmd EXCEPT ![c].at = "journal"] /\ Carries(c)
      BY <2>11 DEF ClearRollback, Carries
    <3>2. cmd[c].step \in Nat /\ cmd[c].step < LenOf(slot.op)
      BY <1>0, <3>1, MineFacts DEF Live, ControlOK, CommandOK
    <3> QED
      BY <1>0, <3>1, <3>2, AtEffect DEF GoesOn, DoneActions, Live
  <2>12. CASE Journal(c)
    <3>1. cmd[c].at = "journal" /\ cmd' = [cmd EXCEPT ![c].at = "act", ![c].step = @ + 1]
      BY <2>12 DEF Journal
    <3>2. /\ cmd[c].at = "journal"
          /\ cmd'[c].at = "act" /\ cmd'[c].step = cmd[c].step + 1
          /\ \A d \in Commander \ {c} : cmd'[d] = cmd[d]
      BY <1>0, <3>1 DEF VarsOK, Cmds
    <3> QED
      BY <3>2 DEF GoesOn, DoneActions, Live
  <2>13. CASE Complete(c)
    <3>1. cmd' = [cmd EXCEPT ![c] = Quiet]
      BY <2>13 DEF Complete
    <3> QED
      BY <1>0, <3>1, QuietEffect DEF GoesOn, DoneActions, Live
  <2>14. CASE Raise(c)
    <3>1. cmd' = [cmd EXCEPT ![c].at = "failing"]
      BY <2>14 DEF Raise
    <3> QED
      BY <1>0, <3>1, AtEffect DEF GoesOn, DoneActions, Live
  <2>15. CASE Mark(c)
    <3>1. cmd' = [cmd EXCEPT ![c] = Quiet]
      BY <2>15 DEF Mark
    <3> QED
      BY <1>0, <3>1, QuietEffect DEF GoesOn, DoneActions, Live
  <2>16. CASE Die(c)
    <3>1. cmd' = [cmd EXCEPT ![c] = Quiet]
      BY <2>16 DEF Die
    <3> QED
      BY <1>0, <3>1, QuietEffect DEF GoesOn, DoneActions, Live
  <2> QED
    BY <1>1, <2>1, <2>2, <2>3, <2>4, <2>5, <2>6, <2>7, <2>8, <2>9, <2>10, <2>11,
       <2>12, <2>13, <2>14, <2>15, <2>16 DEF CommandStep, Begins
<1>2. ASSUME NEW p \in Process, WorkStep(p) PROVE Goal
  <2>1. CASE WorkEnters(p)
    BY <2>1 DEF GoesOn, DoneActions, Live, WorkEnters
  <2>2. CASE WorkFails(p)
    <3>1. WorkOver(p, FALSE)
      BY <2>2 DEF WorkFails
    <3>2. /\ \A d \in Commander : d # p \/ cmd[d].at # "wait" => cmd'[d] = cmd[d]
          /\ p \in Commander /\ cmd[p].at = "wait" => cmd'[p].at = "failing"
      BY <1>0, <3>1, WorkOverEffect
    <3> QED
      BY <3>2 DEF GoesOn, DoneActions, Live
  <2>3. CASE WorkActs(p)
    <3>1. UNCHANGED cmd \/ \E ok \in BOOLEAN : WorkOver(p, ok)
      BY <2>3, ActsEffect
    <3>2. CASE UNCHANGED cmd
      BY <3>2 DEF GoesOn, DoneActions, Live
    <3>3. ASSUME NEW ok \in BOOLEAN, WorkOver(p, ok) PROVE Goal
      <4>1. /\ \A d \in Commander : d # p \/ cmd[d].at # "wait" => cmd'[d] = cmd[d]
            /\ p \in Commander /\ cmd[p].at = "wait" =>
                 \/ cmd'[p].at = "failing"
                 \/ cmd'[p].at = "journal" /\ cmd'[p].step = cmd[p].step
                 \/ cmd'[p].at = "act" /\ cmd'[p].step = cmd[p].step + 1
        BY <1>0, <3>3, WorkOverEffect
      <4>2. ASSUME p \in Commander, cmd[p].at = "wait"
            PROVE  cmd[p].step \in Nat /\ cmd[p].step < LenOf(slot.op) /\ Carries(p)
        BY <1>0, <4>2, <2>3, MineFacts DEF Live, ControlOK, CommandOK, Carries
      <4> QED
        BY <4>1, <4>2 DEF GoesOn, DoneActions, Live
    <3> QED
      BY <3>1, <3>2, <3>3
  <2> QED
    BY <1>2, <2>1, <2>2, <2>3 DEF WorkStep
<1>3. ASSUME NEW r \in Reconciler, RecoveryStep(r) PROVE Goal
  <2>1. CASE FenceOrphan(r)
    BY <2>1 DEF GoesOn, DoneActions, Live, FenceOrphan
  <2>2. CASE ReadPlan(r)
    BY <2>2 DEF GoesOn, DoneActions, Live, ReadPlan
  <2>3. CASE Classify(r)
    BY <2>3 DEF GoesOn, DoneActions, Live, Classify
  <2>4. CASE Confirm(r)
    BY <2>4 DEF GoesOn, DoneActions, Live, Confirm
  <2>5. CASE BeginRestoring(r)
    BY <2>5 DEF GoesOn, DoneActions, Live, BeginRestoring
  <2>6. CASE RestoreProfile(r)
    BY <2>6 DEF GoesOn, DoneActions, Live, RestoreProfile
  <2>7. CASE SpawnRestore(r)
    BY <2>7 DEF GoesOn, DoneActions, Live, SpawnRestore
  <2>8. CASE Verify(r)
    BY <2>8 DEF GoesOn, DoneActions, Live, Verify
  <2>9. CASE ReadPointer(r)
    BY <2>9 DEF GoesOn, DoneActions, Live, ReadPointer
  <2>10. CASE RestorePointer(r)
    BY <2>10 DEF GoesOn, DoneActions, Live, RestorePointer
  <2>11. CASE Resolve(r)
    BY <2>11 DEF GoesOn, DoneActions, Live, Resolve
  <2>12. CASE Reopen(r)
    BY <2>12 DEF GoesOn, DoneActions, Live, Reopen
  <2>13. CASE Close(r)
    BY <2>13 DEF GoesOn, DoneActions, Live, Close
  <2>14. CASE RecoveryRaises(r)
    BY <2>14 DEF GoesOn, DoneActions, Live, RecoveryRaises
  <2>15. CASE MarkRecovery(r)
    BY <2>15 DEF GoesOn, DoneActions, Live, MarkRecovery
  <2>16. CASE Leave(r)
    BY <2>16 DEF GoesOn, DoneActions, Live, Leave
  <2> QED
    BY <1>3, <2>1, <2>2, <2>3, <2>4, <2>5, <2>6, <2>7, <2>8, <2>9, <2>10, <2>11,
       <2>12, <2>13, <2>14, <2>15, <2>16 DEF RecoveryStep
<1>4. CASE ContainerExits
  BY <1>4 DEF GoesOn, DoneActions, Live, ContainerExits
<1>5. CASE CandidateExits
  BY <1>5 DEF GoesOn, DoneActions, Live, CandidateExits
<1>6. CASE SupervisorStarts
  BY <1>6 DEF GoesOn, DoneActions, Live, SupervisorStarts
<1>7. CASE UNCHANGED vars
  BY <1>7 DEF vars, GoesOn, DoneActions, Live
<1> QED
  BY <1>1, <1>2, <1>3, <1>4, <1>5, <1>6, <1>7 DEF Next

\* PublishFacts: the last action of a rollout writes the pointer for its transaction.
LEMMA PublishFacts ==
  ASSUME BaseInv, NEW c \in Commander, PublishRollback(c) \/ ClearRollback(c)
  PROVE  /\ GoesOn(c) /\ IsRollout(slot) /\ slot.id \in Ids /\ IsActive(slot)
         /\ DoneActions(c) = cmd[c].step /\ cmd[c].step \in Nat
         /\ cmd[c].step + 1 = LenOf(slot.op)
         /\ pointer' = Successor(pointer, OwnActive(slot.id), slot.id)
         /\ cmd'[c].at = "journal" /\ cmd'[c].step = cmd[c].step
         /\ \A d \in Commander \ {c} : cmd'[d] = cmd[d]
         /\ UNCHANGED <<slot, intent, objects, rec>>
<1>1. /\ cmd[c].at = "publish" /\ cmd' = [cmd EXCEPT ![c].at = "journal"]
      /\ UNCHANGED <<slot, intent, objects, rec>>
      /\ \/ Mine(c).op = "upgrade" /\ pointer' = Successor(pointer, Mine(c).spec, cmd[c].id)
         \/ Mine(c).op = "rollback" /\ pointer' = Successor(pointer, 0, cmd[c].id)
  BY DEF PublishRollback, ClearRollback
<1>2. Live(c) /\ VarsOK
  BY <1>1 DEF Live, BaseInv
<1>3. /\ IsRollout(slot) /\ cmd[c].step + 1 = LenOf(slot.op)
      /\ cmd[c].id = slot.id /\ slot.id \in Ids /\ Mine(c) = intent[slot.id] /\ IsActive(slot)
      /\ cmd[c].step \in Nat
  BY <1>1, <1>2, MineFacts, LiveFacts DEF BaseInv, ControlOK, CommandOK
<1>4. pointer' = Successor(pointer, OwnActive(slot.id), slot.id)
  BY <1>1, <1>3 DEF OwnActive
<1> QED
  BY <1>1, <1>2, <1>3, <1>4, AtEffect DEF GoesOn, DoneActions, Live

\* NotPointer: no other action of a rollout is its last.
LEMMA NotPointer ==
  ASSUME BaseInv, NEW c \in Commander, Carries(c), GoesOn(c), IsRollout(slot),
         ~PublishRollback(c), ~ClearRollback(c)
  PROVE  cmd[c].step + 1 # LenOf(slot.op)
<1>0. Live(c) /\ cmd[c].step \in Nat /\ slot.op \in RolloutOperations
  BY MineFacts DEF GoesOn, IsRollout
<1>1. CASE cmd[c].at = "wait"
  <2>1. PICK w \in work[c] : w.req.id = slot.id /\ CarriesOut(w, KindAt(slot.op, cmd[c].step))
    BY <1>0, <1>1 DEF BaseInv, WorksOK, WorkOfLive
  <2>2. CommandWork(w) /\ intent[slot.id].op = slot.op
    BY <1>0, MineFacts, ProcessesDiffer DEF BaseInv, WorksOK, WorkOK
  <2>3. w.does \in {"stop-source", "activate-target", "start-target"}
    BY <1>0, <2>1, <2>2 DEF CommandWork
  <2>4. KindAt(slot.op, cmd[c].step) \notin {"publish-rollback", "clear-rollback"}
    BY <2>1, <2>3 DEF CarriesOut, ReleaseSteps
  <2> QED
    BY <1>0, <2>4, LastIsPointer
<1>2. CASE Fetch(c) \/ QuickPasses(c) \/ ActivateAnchor(c) \/ VerifyRelease(c)
  <2>1. HasNext(c) /\ NextKind(c) \notin {"publish-rollback", "clear-rollback"}
    BY <1>2 DEF Fetch, QuickPasses, ActivateAnchor, VerifyRelease, At
  <2>2. KindAt(slot.op, cmd[c].step) \notin {"publish-rollback", "clear-rollback"}
    BY <1>0, <2>1, MineFacts
  <2> QED
    BY <1>0, <2>2, LastIsPointer
<1> QED
  BY <1>1, <1>2 DEF Carries

\* How a reconciler that has restored the runtime gets to its place.
Concludes(s) ==
  /\ rec'[s].id = rec[s].id
  /\ \/ rec'[s].at = rec[s].at
     \/ rec[s].at \in {"resolve", "reopen"} /\ rec'[s].at \in {"reopen", "close"}
     \/ ReadPointer(s) \/ RestorePointer(s)
     \/ /\ Confirm(s) \/ Verify(s)
        /\ rec'[s].at = IF RecoversRollout(s) THEN "pointer" ELSE "resolve"

\* Conclusions: a reconciler takes the conclusion of a recovery one place after the other.
LEMMA Conclusions ==
  BaseInv /\ [Next]_vars =>
    \A s \in Reconciler :
      rec'[s].at \in {"pointer", "cas", "resolve", "reopen", "close"} => Concludes(s)
<1> DEFINE Goal ==
      \A s \in Reconciler :
        rec'[s].at \in {"pointer", "cas", "resolve", "reopen", "close"} => Concludes(s)
<1> SUFFICES ASSUME BaseInv, [Next]_vars PROVE Goal
  OBVIOUS
<1>0. VarsOK /\ SlotOK /\ IntentsOK /\ ControlOK /\ WorksOK
  BY DEF BaseInv
<1>1. ASSUME NEW c \in Commander, CommandStep(c) PROVE Goal
  <2>1. CASE CaptureOriginal(c)
    BY <2>1 DEF Concludes, CaptureOriginal
  <2>2. CASE Begins(c)
    BY <2>2, BeginEffect DEF Concludes
  <2>3. CASE Enter(c)
    BY <2>3 DEF Concludes, Enter, CommandTransition
  <2>4. CASE Fetch(c)
    BY <2>4 DEF Concludes, Fetch
  <2>5. CASE QuickPasses(c)
    BY <2>5 DEF Concludes, QuickPasses
  <2>6. CASE SpawnWork(c)
    BY <2>6 DEF Concludes, SpawnWork
  <2>7. CASE ActivateAnchor(c)
    BY <2>7 DEF Concludes, ActivateAnchor
  <2>8. CASE VerifyRelease(c)
    BY <2>8 DEF Concludes, VerifyRelease
  <2>9. CASE AssertPointerAction(c)
    BY <2>9 DEF Concludes, AssertPointerAction
  <2>10. CASE PublishRollback(c)
    BY <2>10 DEF Concludes, PublishRollback
  <2>11. CASE ClearRollback(c)
    BY <2>11 DEF Concludes, ClearRollback
  <2>12. CASE Journal(c)
    BY <2>12 DEF Concludes, Journal
  <2>13. CASE Complete(c)
    BY <2>13 DEF Concludes, Complete, CommandTransition
  <2>14. CASE Raise(c)
    BY <2>14 DEF Concludes, Raise
  <2>15. CASE Mark(c)
    BY <2>15 DEF Concludes, Mark
  <2>16. CASE Die(c)
    BY <2>16 DEF Concludes, Die
  <2> QED
    BY <1>1, <2>1, <2>2, <2>3, <2>4, <2>5, <2>6, <2>7, <2>8, <2>9, <2>10, <2>11,
       <2>12, <2>13, <2>14, <2>15, <2>16 DEF CommandStep, Begins
<1>2. ASSUME NEW p \in Process, WorkStep(p) PROVE Goal
  <2>1. CASE WorkEnters(p)
    BY <2>1 DEF Concludes, WorkEnters
  <2>2. CASE WorkFails(p)
    <3>1. WorkOver(p, FALSE)
      BY <2>2 DEF WorkFails
    <3>2. /\ \A s \in Reconciler : s # p \/ rec[s].at # "wait" => rec'[s] = rec[s]
          /\ p \in Reconciler /\ rec[p].at = "wait" => rec'[p].at = "failing"
      BY <1>0, <3>1, WorkOverEffect
    <3> QED
      BY <3>2 DEF Concludes
  <2>3. CASE WorkActs(p)
    <3>1. UNCHANGED rec \/ \E ok \in BOOLEAN : WorkOver(p, ok)
      BY <2>3, ActsEffect
    <3>2. CASE UNCHANGED rec
      BY <3>2 DEF Concludes
    <3>3. ASSUME NEW ok \in BOOLEAN, WorkOver(p, ok) PROVE Goal
      <4>1. /\ \A s \in Reconciler : s # p \/ rec[s].at # "wait" => rec'[s] = rec[s]
            /\ p \in Reconciler /\ rec[p].at = "wait" =>
                 rec'[p].at \in {"verify", "failing"}
        BY <1>0, <3>3, WorkOverEffect
      <4> QED
        BY <4>1 DEF Concludes
    <3> QED
      BY <3>1, <3>2, <3>3
  <2> QED
    BY <1>2, <2>1, <2>2, <2>3 DEF WorkStep
<1>3. ASSUME NEW r \in Reconciler, RecoveryStep(r) PROVE Goal
  <2>1. CASE FenceOrphan(r)
    <3>1. rec'[r].at = "fenced" /\ \A s \in Reconciler \ {r} : rec'[s] = rec[s]
      BY <1>0, <2>1, GoesEffect DEF FenceOrphan, Places
    <3> QED
      BY <3>1 DEF Concludes
  <2>2. CASE ReadPlan(r)
    <3>1. rec'[r].at = "planned" /\ \A s \in Reconciler \ {r} : rec'[s] = rec[s]
      BY <1>0, <2>2 DEF ReadPlan, Away, VarsOK, Recs
    <3> QED
      BY <3>1 DEF Concludes
  <2>3. CASE Classify(r)
    <3>1. \E at \in {"confirm", "restore"} : Goes(r, at)
      BY <2>3 DEF Classify
    <3>2. rec'[r].at \in {"confirm", "restore"} /\ \A s \in Reconciler \ {r} : rec'[s] = rec[s]
      BY <1>0, <3>1, GoesEffect DEF Places
    <3> QED
      BY <3>2 DEF Concludes
  <2>4. CASE Confirm(r)
    <3> DEFINE at == IF RecoversRollout(r) THEN "pointer" ELSE "resolve"
    <3>1. at \in Places /\ Goes(r, at)
      BY <2>4 DEF Confirm, Places
    <3> HIDE DEF at
    <3>2. /\ rec'[r].at = at /\ rec'[r].id = rec[r].id
          /\ \A s \in Reconciler \ {r} : rec'[s] = rec[s]
      BY <1>0, <3>1, GoesEffect
    <3> QED
      BY <2>4, <3>2 DEF Concludes, at
  <2>5. CASE BeginRestoring(r)
    <3>1. rec'[r].at = "profile" /\ \A s \in Reconciler \ {r} : rec'[s] = rec[s]
      BY <1>0, <2>5, GoesEffect DEF BeginRestoring, Places
    <3> QED
      BY <3>1 DEF Concludes
  <2>6. CASE RestoreProfile(r)
    <3>1. rec'[r].at = "spawn" /\ \A s \in Reconciler \ {r} : rec'[s] = rec[s]
      BY <1>0, <2>6 DEF RestoreProfile, Away, VarsOK, Recs
    <3> QED
      BY <3>1 DEF Concludes
  <2>7. CASE SpawnRestore(r)
    <3>1. rec'[r].at = "wait" /\ \A s \in Reconciler \ {r} : rec'[s] = rec[s]
      BY <1>0, <2>7, GoesEffect DEF SpawnRestore, Places
    <3> QED
      BY <3>1 DEF Concludes
  <2>8. CASE Verify(r)
    <3> DEFINE at == IF RecoversRollout(r) THEN "pointer" ELSE "resolve"
    <3>1. at \in Places /\ Goes(r, at)
      BY <2>8 DEF Verify, Places
    <3> HIDE DEF at
    <3>2. /\ rec'[r].at = at /\ rec'[r].id = rec[r].id
          /\ \A s \in Reconciler \ {r} : rec'[s] = rec[s]
      BY <1>0, <3>1, GoesEffect
    <3> QED
      BY <2>8, <3>2 DEF Concludes, at
  <2>9. CASE ReadPointer(r)
    <3> DEFINE at == IF PointerIsBack(rec[r].id) THEN "resolve" ELSE "cas"
    <3>1. at \in Places /\ Goes(r, at)
      BY <2>9 DEF ReadPointer, Places
    <3> HIDE DEF at
    <3>2. /\ rec'[r].id = rec[r].id /\ \A s \in Reconciler \ {r} : rec'[s] = rec[s]
      BY <1>0, <3>1, GoesEffect
    <3> QED
      BY <2>9, <3>2 DEF Concludes
  <2>10. CASE RestorePointer(r)
    <3>1. /\ rec'[r].id = rec[r].id /\ \A s \in Reconciler \ {r} : rec'[s] = rec[s]
      BY <1>0, <2>10, GoesEffect DEF RestorePointer, Places
    <3> QED
      BY <2>10, <3>1 DEF Concludes
  <2>11. CASE Resolve(r)
    <3>1. rec[r].at = "resolve" /\ \E at \in {"reopen", "close"} : Goes(r, at)
      BY <2>11 DEF Resolve
    <3>2. /\ rec'[r].at \in {"reopen", "close"} /\ rec'[r].id = rec[r].id
          /\ \A s \in Reconciler \ {r} : rec'[s] = rec[s]
      BY <1>0, <3>1, GoesEffect DEF Places
    <3> QED
      BY <3>1, <3>2 DEF Concludes
  <2>12. CASE Reopen(r)
    <3>1. /\ rec[r].at = "reopen" /\ rec'[r].at = "close" /\ rec'[r].id = rec[r].id
          /\ \A s \in Reconciler \ {r} : rec'[s] = rec[s]
      BY <1>0, <2>12, GoesEffect DEF Reopen, Places
    <3> QED
      BY <3>1 DEF Concludes
  <2>13. CASE Close(r)
    <3>1. rec'[r].at = "idle" /\ \A s \in Reconciler \ {r} : rec'[s] = rec[s]
      BY <1>0, <2>13 DEF Close, Away, VarsOK, Recs
    <3> QED
      BY <3>1 DEF Concludes
  <2>14. CASE RecoveryRaises(r)
    <3>1. rec'[r].at = "failing" /\ \A s \in Reconciler \ {r} : rec'[s] = rec[s]
      BY <1>0, <2>14, GoesEffect DEF RecoveryRaises, Places
    <3> QED
      BY <3>1 DEF Concludes
  <2>15. CASE MarkRecovery(r)
    <3>1. rec'[r].at = "idle" /\ \A s \in Reconciler \ {r} : rec'[s] = rec[s]
      BY <1>0, <2>15 DEF MarkRecovery, Away, VarsOK, Recs
    <3> QED
      BY <3>1 DEF Concludes
  <2>16. CASE Leave(r)
    <3>1. rec'[r].at = "idle" /\ \A s \in Reconciler \ {r} : rec'[s] = rec[s]
      BY <1>0, <2>16 DEF Leave, Away, VarsOK, Recs
    <3> QED
      BY <3>1 DEF Concludes
  <2> QED
    BY <1>3, <2>1, <2>2, <2>3, <2>4, <2>5, <2>6, <2>7, <2>8, <2>9, <2>10, <2>11,
       <2>12, <2>13, <2>14, <2>15, <2>16 DEF RecoveryStep
<1>4. CASE ContainerExits
  BY <1>4 DEF Concludes, ContainerExits
<1>5. CASE CandidateExits
  BY <1>5 DEF Concludes, CandidateExits
<1>6. CASE SupervisorStarts
  BY <1>6 DEF Concludes, SupervisorStarts
<1>7. CASE UNCHANGED vars
  BY <1>7 DEF vars, Concludes
<1> QED
  BY <1>1, <1>2, <1>3, <1>4, <1>5, <1>6, <1>7 DEF Next

\* CompleteFacts: a change is completed by its own command, after its whole plan.
LEMMA CompleteFacts ==
  ASSUME BaseInv, NEW c \in Commander, Complete(c)
  PROVE  /\ GoesOn(c) /\ IsActive(slot) /\ slot.id \in Ids
         /\ cmd[c].step \in Nat /\ DoneActions(c) = LenOf(slot.op)
         /\ UNCHANGED <<intent, objects, pointer, selection, container, healthy, candidate,
                        rec, work>>
<1>1. /\ cmd[c].at = "act" /\ ~HasNext(c)
      /\ UNCHANGED <<intent, objects, pointer, selection, container, healthy, candidate,
                     rec, work>>
  BY DEF Complete, CommandTransition, store, runtime
<1>2. Live(c)
  BY <1>1 DEF Live
<1>3. /\ cmd[c].step \in Nat /\ LenOf(slot.op) \in Nat /\ slot.id \in Ids /\ IsActive(slot)
      /\ ~(cmd[c].step < LenOf(slot.op)) /\ cmd[c].step <= LenOf(slot.op)
  BY <1>1, <1>2, MineFacts, LiveFacts DEF BaseInv, ControlOK, CommandOK
<1> QED
  BY <1>1, <1>2, <1>3 DEF GoesOn, DoneActions

\* Verdicts: a verdict is given by its own command, or by the reconciler that closes.
LEMMA Verdicts ==
  ASSUME BaseInv, [Next]_vars
  PROVE  /\ EndsAs("completed") => \E c \in Commander : Complete(c)
         /\ EndsAs("failed-restored") => \E r \in Reconciler : Close(r)
<1>0. slot.state \in States \union {"none"} /\ VarsOK
  BY DEF BaseInv, VarsOK, Docs
<1>1. CASE \E c \in Commander : Begins(c)
  <2>1. slot'.state = "planned"
    BY <1>1, BeginEffect
  <2> QED
    BY <2>1 DEF EndsAs
<1>2. ASSUME NEW c \in Commander, Enter(c)
      PROVE  slot'.state \notin {"completed", "failed-restored"}
  <2>1. Live(c) /\ HasNext(c) /\ slot' = Transitioned(slot, StateBefore(c))
    BY <1>2 DEF Enter, CommandTransition, Live
  <2>2. StateBefore(c) \in States \ TerminalStates
    BY <2>1, StateBeforeFacts
  <2> QED
    BY <1>0, <2>1, <2>2, TransitionedFacts DEF TerminalStates
<1>3. ASSUME NEW c \in Commander, Journal(c) PROVE slot'.state = slot.state
  <2>1. slot' = Advanced(slot, cmd[c].step, NextKind(c)) /\ slot \in Docs
    BY <1>0, <1>3 DEF Journal, VarsOK
  <2> QED
    BY <2>1 DEF Advanced, Docs
<1>4. ASSUME NEW c \in Commander, Complete(c) PROVE slot'.state = "completed"
  <2>1. slot' = Transitioned(slot, "completed")
    BY <1>4 DEF Complete, CommandTransition
  <2> QED
    BY <1>0, <2>1, TransitionedFacts DEF States
<1>5. ASSUME NEW r \in Reconciler, Close(r) PROVE slot'.state = "failed-restored"
  BY <1>5, CloseFacts
<1> QED
  BY <1>1, <1>2, <1>3, <1>4, <1>5, SlotSteps DEF EndsAs, RecoveryStates

\* UndoFacts: what a reconciler that nobody overtook puts back is the pointer its rollout
\* wrote.
LEMMA UndoFacts ==
  ASSUME BaseInv, NobodyOvertaken, PointerOK, NEW r \in Reconciler, RestorePointer(r)
  PROVE  /\ IsActive(slot) /\ slot.id \in Ids /\ rec[r].id = slot.id /\ IsRollout(slot)
         /\ WrittenBy(slot.id) /\ UndoneBy(slot.id)'
         /\ \A s \in Reconciler \ {r} : rec'[s] = rec[s]
         /\ UNCHANGED <<slot, intent, objects, cmd>>
<1>1. /\ rec[r].at = "cas" /\ CanUndoPointer(rec[r].id) /\ Goes(r, "resolve")
      /\ pointer' = Successor(pointer, Recovers(r).previous.active, rec[r].id)
      /\ UNCHANGED <<slot, intent, objects, cmd>>
  BY DEF RestorePointer
<1>2. Busy(r) /\ VarsOK /\ SlotOK
  BY <1>1 DEF Busy, BaseInv
<1>3. rec[r].id = slot.id /\ IsActive(slot) /\ slot.id \in Ids /\ Recovers(r) = intent[slot.id]
      /\ intent[slot.id] \in Intents
  BY <1>2, RecoversFacts DEF NobodyOvertaken
<1>4. IsRollout(slot)
  <2>1. RecoversRollout(r) /\ slot.id # 0
    BY <1>1, <1>3, RuntimeChangeAssumption DEF PointerOK, Ids
  <2> QED
    BY <1>2, <1>3, <2>1 DEF RecoversRollout, SlotOK, IsRollout
<1>5. /\ UntouchedBy(slot.id) \/ WrittenBy(slot.id) \/ UndoneBy(slot.id)
      /\ ~UntouchedBy(slot.id)
  BY <1>1, <1>4 DEF PointerOK
<1>6. /\ pointer.generation = intent[slot.id].previous.generation + 1
      /\ intent[slot.id].previous.generation \in Nat
  BY <1>1, <1>3 DEF CanUndoPointer, CanRestore, AssertCas, Intents, PointerDocs
<1>7. WrittenBy(slot.id)
  BY <1>5, <1>6 DEF UndoneBy
<1>8. UndoneBy(slot.id)'
  <2>1. /\ pointer.generation + 1 = intent[slot.id].previous.generation + 2
        /\ pointer.active = OwnActive(slot.id)
    BY <1>6, <1>7 DEF WrittenBy, Successor
  <2>2. OwnActive(slot.id)' = OwnActive(slot.id)
    BY <1>1 DEF OwnActive
  <2> QED
    BY <1>1, <1>3, <2>1, <2>2 DEF UndoneBy, Successor
<1>9. \A s \in Reconciler \ {r} : rec'[s] = rec[s]
  BY <1>1, <1>2, GoesEffect DEF Places
<1> QED
  BY <1>1, <1>3, <1>4, <1>7, <1>8, <1>9

\* PlacesDiffer: the three places of the pointer are told apart by its generation.
LEMMA PlacesDiffer ==
  ASSUME VarsOK, NEW id \in Ids
  PROVE  /\ intent[id].previous.generation \in Nat
         /\ UntouchedBy(id) => pointer.generation = intent[id].previous.generation
         /\ WrittenBy(id) => pointer.generation = intent[id].previous.generation + 1
         /\ UndoneBy(id) => pointer.generation = intent[id].previous.generation + 2
         /\ PointerIsBack(id) => pointer.generation \in
              {intent[id].previous.generation, intent[id].previous.generation + 2}
<1>1. intent[id].previous.generation \in Nat
  BY DEF VarsOK, Intents, PointerDocs
<1> QED
  BY <1>1 DEF UntouchedBy, WrittenBy, UndoneBy, PointerIsBack, Successor

\* ReaderFacts: a reconciler that goes to the pointer or away from it recovers the rollout
\* in the slot.
LEMMA ReaderFacts ==
  ASSUME BaseInv, NobodyOvertaken, NEW s \in Reconciler, Busy(s)
  PROVE  /\ rec[s].id = slot.id /\ slot.id \in Ids /\ IsActive(slot)
         /\ RecoversRollout(s) <=> IsRollout(slot)
<1>1. rec[s].id = slot.id /\ IsActive(slot) /\ rec[s].id \in Ids
  BY RecoversFacts DEF NobodyOvertaken
<1>2. slot.id # 0
  BY <1>1, RuntimeChangeAssumption DEF Ids
<1> QED
  BY <1>1, <1>2 DEF BaseInv, SlotOK, RecoversRollout, Recovers, IsRollout

\* RecoversStays: the operation a reconciler recovers stays what it was.
LEMMA RecoversStays ==
  ASSUME BaseInv, [Next]_vars, NEW s \in Reconciler,
         rec'[s].at \in {"pointer", "cas"},
         \A r \in Reconciler : rec[r].at \in {"pointer", "cas"} => RecoversRollout(r)
  PROVE  RecoversRollout(s)'
<1>1. Concludes(s)
  BY Conclusions
<1>2. rec'[s].id = rec[s].id
  BY <1>1 DEF Concludes
<1>3. Busy(s) /\ RecoversRollout(s)
  <2>1. CASE rec'[s].at = rec[s].at
    BY <2>1 DEF Busy
  <2>2. CASE ReadPointer(s)
    BY <2>2 DEF ReadPointer, Busy
  <2>3. CASE RestorePointer(s)
    BY <2>3 DEF RestorePointer, Busy
  <2>4. CASE (Confirm(s) \/ Verify(s)) /\ rec'[s].at = IF RecoversRollout(s) THEN "pointer" ELSE "resolve"
    BY <2>4 DEF Confirm, Verify, Busy
  <2> QED
    BY <1>1, <2>1, <2>2, <2>3, <2>4 DEF Concludes
<1>4. intent'[rec[s].id] = intent[rec[s].id]
  BY <1>3, RecoversFacts, IntentsStay
<1> QED
  BY <1>2, <1>3, <1>4 DEF RecoversRollout, Recovers

\* PointerIsKept: the pointer of a rollout stays where its command and its recovery expect
\* it.
LEMMA PointerIsKept ==
  BaseInv /\ NobodyOvertaken /\ PointerOK /\ [Next]_vars => PointerOK'
<1> SUFFICES ASSUME BaseInv, NobodyOvertaken, PointerOK, [Next]_vars PROVE PointerOK'
  OBVIOUS
<1> DEFINE Place == UntouchedBy(slot.id) \/ WrittenBy(slot.id) \/ UndoneBy(slot.id)
           OfCommands ==
             \A c \in Commander : GoesOn(c) =>
               IF DoneActions(c) = LenOf(slot.op) THEN WrittenBy(slot.id)
                                                  ELSE UntouchedBy(slot.id)
           OfRecovery ==
             \A r \in Reconciler :
               /\ rec[r].at = "cas" => ~UntouchedBy(slot.id)
               /\ rec[r].at \in {"resolve", "reopen", "close"} => ~WrittenBy(slot.id)
           OfVerdict ==
             /\ slot.state = "completed" => WrittenBy(slot.id)
             /\ slot.state = "failed-restored" => ~WrittenBy(slot.id)
<1>1. \A s \in Reconciler : rec'[s].at \in {"pointer", "cas"} => RecoversRollout(s)'
  BY RecoversStays DEF PointerOK
<1>2. VarsOK /\ VarsOK' /\ SlotOK
  BY VarsAreKept DEF BaseInv
<1>3. IsRollout(slot) => Place /\ OfCommands /\ OfRecovery /\ OfVerdict
  BY DEF PointerOK
<1>4. CASE \E c \in Commander : Begins(c)
  <2>1. PICK c \in Commander : Begins(c)
    BY <1>4
  <2>2. PICK frozen \in Intents :
          /\ slot.id + 1 \in Ids /\ ~IsActive(slot)
          /\ slot'.id = slot.id + 1 /\ slot'.op = frozen.op /\ slot'.state = "planned"
          /\ intent'[slot.id + 1] = frozen
          /\ cmd'[c].at = "act" /\ cmd'[c].step = 0
          /\ \A d \in Commander \ {c} : cmd'[d] = cmd[d]
          /\ UNCHANGED <<pointer, rec>>
          /\ frozen.op \in RolloutOperations => frozen.previous = pointer
    BY <2>1, BeginEffect
  <2>3. \A d \in Commander : ~Live(d)
    BY <2>2, NobodyLive
  <2>4. \A r \in Reconciler : ~Busy(r)
    BY <2>2 DEF NobodyOvertaken
  <2>5. ASSUME IsRollout(slot)' PROVE UntouchedBy(slot.id)' /\ LenOf(slot.op)' # 0
    <3>1. frozen.op \in RolloutOperations
      BY <2>2, <2>5 DEF IsRollout
    <3>2. LenOf(frozen.op) # 0
      BY <3>1, FetchesAssumption DEF LenOf, ActivateStep, RolloutOperations
    <3>3. pointer' = intent'[slot'.id].previous
      BY <2>2, <3>1
    <3> QED
      BY <2>2, <3>2, <3>3 DEF UntouchedBy
  <2>6. \A d \in Commander : GoesOn(d)' => d = c /\ DoneActions(d)' = 0
    BY <2>2, <2>3 DEF GoesOn, Live, DoneActions
  <2>7. \A r \in Reconciler : rec'[r].at \in {"idle", "fenced"}
    BY <2>2, <2>4 DEF Busy
  <2> QED
    BY <1>1, <2>2, <2>5, <2>6, <2>7 DEF PointerOK
<1>5. CASE SlotKept
  <2>1. /\ slot'.id = slot.id /\ slot'.op = slot.op /\ UNCHANGED <<intent, objects>>
        /\ IsRollout(slot)' <=> IsRollout(slot)
    BY <1>5 DEF SlotKept, IsRollout
  <2> SUFFICES ASSUME IsRollout(slot)
               PROVE  Place' /\ OfCommands' /\ OfRecovery' /\ OfVerdict'
    BY <1>1, <2>1 DEF PointerOK
  <2>2. slot.id \in Ids
    BY <1>2, RuntimeChangeAssumption
    DEF SlotOK, VarsOK, Docs, IsRollout, RolloutOperations, Ids
  <2>3. OwnActive(slot.id)' = OwnActive(slot.id)
    BY <2>1 DEF OwnActive
  <2>4. CASE \E c \in Commander : PublishRollback(c) \/ ClearRollback(c)
    <3>1. PICK c \in Commander : PublishRollback(c) \/ ClearRollback(c)
      BY <2>4
    <3>2. /\ GoesOn(c) /\ IsActive(slot) /\ DoneActions(c) = cmd[c].step /\ cmd[c].step \in Nat
          /\ cmd[c].step + 1 = LenOf(slot.op)
          /\ pointer' = Successor(pointer, OwnActive(slot.id), slot.id)
          /\ cmd'[c].at = "journal" /\ cmd'[c].step = cmd[c].step
          /\ \A d \in Commander \ {c} : cmd'[d] = cmd[d]
          /\ UNCHANGED <<slot, rec>>
      BY <3>1, PublishFacts
    <3>3. UntouchedBy(slot.id)
      BY <1>3, <3>2
    <3>4. WrittenBy(slot.id)'
      BY <2>1, <2>3, <3>2, <3>3 DEF UntouchedBy, WrittenBy
    <3>5. Live(c)
      BY <3>2 DEF GoesOn
    <3>6. \A d \in Commander : GoesOn(d)' => d = c
      BY <3>2, <3>5, LiveFacts DEF GoesOn, Live
    <3>7. DoneActions(c)' = LenOf(slot.op)
      BY <3>2 DEF DoneActions
    <3>8. \A r \in Reconciler : ~Busy(r)
      BY <3>5, LiveFacts DEF NobodyOvertaken
    <3>9. OfRecovery'
      BY <3>2, <3>8 DEF Busy
    <3>10. OfCommands'
      BY <2>1, <3>4, <3>6, <3>7
    <3>11. OfVerdict'
      BY <3>2 DEF IsActive, IsTerminal, VarsOK, Docs, TerminalStates, BaseInv
    <3> QED
      BY <3>4, <3>9, <3>10, <3>11
  <2>5. CASE \E r \in Reconciler : RestorePointer(r)
    <3>1. PICK r \in Reconciler : RestorePointer(r)
      BY <2>5
    <3>2. /\ IsActive(slot) /\ rec[r].id = slot.id /\ UndoneBy(slot.id)'
          /\ UNCHANGED <<slot, cmd>>
      BY <3>1, UndoFacts
    <3>3. ~UntouchedBy(slot.id)' /\ ~WrittenBy(slot.id)'
      <4>1. /\ intent'[slot.id].previous.generation \in Nat
            /\ UntouchedBy(slot.id)' =>
                 pointer'.generation = intent'[slot.id].previous.generation
            /\ WrittenBy(slot.id)' =>
                 pointer'.generation = intent'[slot.id].previous.generation + 1
            /\ pointer'.generation = intent'[slot.id].previous.generation + 2
        <5>1. intent'[slot.id].previous.generation \in Nat
          BY <1>2, <2>1, <2>2 DEF VarsOK, Intents, PointerDocs
        <5> QED
          BY <2>1, <3>2, <5>1 DEF UntouchedBy, WrittenBy, UndoneBy, Successor
      <4> QED
        BY <4>1
    <3>4. Busy(r)
      BY <3>1 DEF RestorePointer, Busy
    <3>5. \A d \in Commander : ~Live(d)
      BY <3>2, <3>4, NobodyLive
    <3>6. \A d \in Commander : ~GoesOn(d)'
      BY <3>2, <3>5 DEF GoesOn, Live
    <3>7. OfVerdict'
      BY <3>2 DEF IsActive, IsTerminal, VarsOK, Docs, TerminalStates, BaseInv
    <3> QED
      BY <3>2, <3>3, <3>6, <3>7
  <2>6. CASE /\ \A c \in Commander : ~PublishRollback(c) /\ ~ClearRollback(c)
             /\ \A r \in Reconciler : ~RestorePointer(r)
    <3>1. pointer' = pointer
      BY <2>6, PointerTurns
    <3>2. /\ UntouchedBy(slot.id)' <=> UntouchedBy(slot.id)
          /\ WrittenBy(slot.id)' <=> WrittenBy(slot.id)
          /\ UndoneBy(slot.id)' <=> UndoneBy(slot.id)
      BY <2>1, <2>3, <3>1 DEF UntouchedBy, WrittenBy, UndoneBy
    <3>3. ASSUME NEW d \in Commander, GoesOn(d)'
          PROVE  IF DoneActions(d)' = LenOf(slot.op) THEN WrittenBy(slot.id)
                                                     ELSE UntouchedBy(slot.id)
      <4>1. ~Begins(d)
        <5>1. slot.id \in Nat
          BY <2>2 DEF Ids
        <5> QED
          BY <2>1, <5>1, BeginEffect
      <4>2. CASE GoesOn(d) /\ DoneActions(d)' = DoneActions(d)
        BY <1>3, <4>2
      <4>3. CASE /\ GoesOn(d) /\ Carries(d)
                 /\ cmd[d].step < LenOf(slot.op) /\ DoneActions(d) = cmd[d].step
                 /\ DoneActions(d)' = DoneActions(d) + 1
        <5>1. cmd[d].step + 1 # LenOf(slot.op)
          BY <2>6, <4>3, NotPointer
        <5>2. cmd[d].step \in Nat /\ LenOf(slot.op) \in Nat
          BY <4>3, MineFacts DEF GoesOn
        <5>3. DoneActions(d) # LenOf(slot.op)
          BY <4>3, <5>2
        <5>4. UntouchedBy(slot.id)
          BY <1>3, <4>3, <5>3
        <5> QED
          BY <4>3, <5>1, <5>4
      <4> QED
        BY <3>3, <4>1, <4>2, <4>3, PlanSteps
    <3>4. ASSUME NEW s \in Reconciler
          PROVE  /\ rec'[s].at = "cas" => ~UntouchedBy(slot.id)
                 /\ rec'[s].at \in {"resolve", "reopen", "close"} => ~WrittenBy(slot.id)
      <4>0. CASE rec'[s].at \notin {"cas", "resolve", "reopen", "close"}
        BY <4>0
      <4>1. CASE rec'[s].at \in {"cas", "resolve", "reopen", "close"}
        <5>0. Concludes(s)
          BY <4>1, Conclusions
        <5>1. CASE rec'[s].at = rec[s].at
          BY <1>3, <5>1
        <5>2. CASE rec[s].at \in {"resolve", "reopen"} /\ rec'[s].at \in {"reopen", "close"}
          BY <1>3, <5>2
        <5>3. CASE ReadPointer(s)
          <6>1. Busy(s) /\ Goes(s, IF PointerIsBack(rec[s].id) THEN "resolve" ELSE "cas")
            BY <5>3 DEF ReadPointer, Busy
          <6>2. rec[s].id = slot.id
            BY <6>1, ReaderFacts
          <6>3. rec'[s].at = IF PointerIsBack(slot.id) THEN "resolve" ELSE "cas"
            BY <1>2, <6>1, <6>2 DEF Goes, VarsOK, Recs
          <6>4. ~PointerIsBack(slot.id) => ~UntouchedBy(slot.id)
            BY DEF PointerIsBack, UntouchedBy
          <6>5. PointerIsBack(slot.id) => ~WrittenBy(slot.id)
            BY <1>2, <2>2, PlacesDiffer
          <6> QED
            BY <6>3, <6>4, <6>5
        <5>4. CASE /\ Confirm(s) \/ Verify(s)
                   /\ rec'[s].at = IF RecoversRollout(s) THEN "pointer" ELSE "resolve"
          <6>1. Busy(s)
            BY <5>4 DEF Confirm, Verify, Busy
          <6>2. rec'[s].at = "pointer"
            BY <5>4, <6>1, ReaderFacts
          <6> QED
            BY <6>2
        <5> QED
          BY <2>6, <5>0, <5>1, <5>2, <5>3, <5>4 DEF Concludes
      <4> QED
        BY <4>0, <4>1
    <3>5. /\ slot'.state = "completed" => WrittenBy(slot.id)
          /\ slot'.state = "failed-restored" => ~WrittenBy(slot.id)
      <4>1. CASE slot'.state = slot.state
        BY <1>3, <4>1
      <4>2. ASSUME NEW c \in Commander, Complete(c) PROVE WrittenBy(slot.id)
        BY <1>3, <4>2, CompleteFacts
      <4>3. ASSUME NEW r \in Reconciler, Close(r) PROVE ~WrittenBy(slot.id)
        <5>1. rec[r].at = "close"
          BY <4>3, CloseFacts
        <5> QED
          BY <1>3, <5>1
      <4> QED
        BY <4>1, <4>2, <4>3, Verdicts DEF EndsAs
    <3>6. OfCommands'
      BY <2>1, <3>2, <3>3
    <3>7. OfRecovery'
      BY <2>1, <3>2, <3>4
    <3>8. OfVerdict'
      BY <2>1, <3>2, <3>5
    <3>9. Place'
      BY <1>3, <2>1, <3>2
    <3> QED
      BY <3>6, <3>7, <3>8, <3>9
  <2> QED
    BY <2>4, <2>5, <2>6
<1> QED
  BY <1>4, <1>5, SlotMoves

\* PointerIsFollowed: as long as no reconciler is overtaken, the pointer is where the
\* command and the recovery of the rollout in the slot expect it.
THEOREM PointerIsFollowed == Spec /\ []NobodyOvertaken => []PointerOK
<1>1. Init => PointerOK
  BY DEF Init, PointerOK, NoDoc, Away, IsRollout, RolloutOperations
<1>2. BaseInv /\ NobodyOvertaken /\ PointerOK /\ [Next]_vars => PointerOK'
  BY PointerIsKept
<1> QED
  BY <1>1, <1>2, BaseIsInvariant, PTL DEF Spec

\* RolloutFacts: what the rollout in the slot froze.
LEMMA RolloutFacts ==
  ASSUME BaseInv, IsRollout(slot)
  PROVE  /\ slot.id \in Ids /\ slot.id # 0 /\ intent[slot.id].op = slot.op
         /\ intent[slot.id] \in Intents
         /\ intent[slot.id].spec \in objects
         /\ intent[slot.id].previous.active \in objects \union {0}
         /\ intent[slot.id].previous.active < slot.id
         /\ slot.op = "upgrade" => intent[slot.id].spec = slot.id
         /\ slot.op = "rollback" => intent[slot.id].spec = intent[slot.id].previous.active
         /\ objects \subseteq Ids
<1>1. slot.id # 0
  BY DEF BaseInv, SlotOK, IsRollout, RolloutOperations
<1>2. slot.id \in Ids
  BY <1>1, RuntimeChangeAssumption DEF BaseInv, VarsOK, Docs, Ids
<1>3. intent[slot.id].op = slot.op /\ slot.op \in RolloutOperations
  BY <1>1 DEF BaseInv, SlotOK, IsRollout
<1>4. IntentOK(slot.id)
  BY <1>2 DEF BaseInv, IntentsOK
<1>5. intent[slot.id] \in Intents /\ objects \subseteq Ids
  BY <1>2 DEF BaseInv, VarsOK
<1> QED
  BY <1>1, <1>2, <1>3, <1>4, <1>5 DEF IntentOK

\* WrittenIsUndoable: what a rollout wrote, it can put back.
LEMMA WrittenIsUndoable ==
  ASSUME BaseInv, IsRollout(slot), WrittenBy(slot.id)
  PROVE  CanUndoPointer(slot.id)
<1> DEFINE it == intent[slot.id]
           gen == it.previous.generation
<1>1. /\ pointer.generation = gen + 1 /\ pointer.active = OwnActive(slot.id)
      /\ pointer.previous = it.previous.active
  BY DEF WrittenBy, Successor
<1>2. gen \in Nat /\ it.previous.active \in 0 .. MaxTx
  BY RolloutFacts, RuntimeChangeAssumption DEF Intents, PointerDocs, Ids
<1>3. /\ {OwnActive(slot.id), it.previous.active} \ {0} \subseteq objects
      /\ OwnActive(slot.id) # it.previous.active
      /\ OwnActive(slot.id) # 0 \/ it.previous.active # 0
  <2>1. CASE slot.op = "upgrade"
    <3>1. OwnActive(slot.id) = slot.id /\ slot.id \in objects /\ slot.id # 0
      BY <2>1, RolloutFacts DEF OwnActive
    <3>2. it.previous.active \in objects \union {0} /\ it.previous.active # slot.id
      BY <1>2, RolloutFacts, RuntimeChangeAssumption DEF Ids
    <3> QED
      BY <3>1, <3>2
  <2>2. CASE slot.op = "rollback"
    <3>1. OwnActive(slot.id) = 0
      BY <2>2, RolloutFacts DEF OwnActive
    <3>2. it.previous.active \in objects /\ it.previous.active # 0
      BY <2>2, RolloutFacts, RuntimeChangeAssumption DEF Ids
    <3> QED
      BY <3>1, <3>2
  <2> QED
    BY <2>1, <2>2 DEF IsRollout, RolloutOperations
<1>4. ValidPointer(Successor(pointer, it.previous.active, 0))
  BY <1>1, <1>2, <1>3 DEF ValidPointer, Successor
<1>5. pointer # NoPointer
  BY <1>1, <1>2 DEF NoPointer
<1> QED
  BY <1>1, <1>3, <1>4, <1>5 DEF CanUndoPointer, CanRestore, AssertCas

\* RecoverableFacts: from each of the three places the pointer can be put back.
LEMMA RecoverableFacts == BaseInv /\ PointerOK => PointerIsRecoverable
<1> SUFFICES ASSUME BaseInv, PointerOK, IsRollout(slot)
             PROVE  PointerIsBack(slot.id) \/ CanUndoPointer(slot.id)
  BY DEF PointerIsRecoverable
<1>1. CASE UntouchedBy(slot.id)
  BY <1>1 DEF UntouchedBy, PointerIsBack
<1>2. CASE UndoneBy(slot.id)
  BY <1>2 DEF UndoneBy, PointerIsBack
<1>3. CASE WrittenBy(slot.id)
  BY <1>3, WrittenIsUndoable
<1> QED
  BY <1>1, <1>2, <1>3 DEF PointerOK

\* PointerStaysRecoverable: as long as no reconciler is overtaken, wherever a rollout and
\* its recoveries die, the next one can put the pointer back, and none replays a
\* compare-and-swap that has to fail for ever.
THEOREM PointerStaysRecoverable == Spec /\ []NobodyOvertaken => []PointerIsRecoverable
BY PointerIsFollowed, BaseIsInvariant, RecoverableFacts, PTL

\* OwnerFacts: as long as no reconciler is overtaken, who moves the pointer.
LEMMA OwnerFacts ==
  ASSUME BaseInv, NobodyOvertaken, PointerOK, [Next]_vars, pointer' # pointer
  PROVE  /\ IsActive(slot) /\ IsRollout(slot) /\ slot' = slot
         /\ UNCHANGED <<intent, objects>>
         /\ WrittenBy(slot.id)' \/ UndoneBy(slot.id)'
<1>1. ASSUME NEW c \in Commander, PublishRollback(c) \/ ClearRollback(c)
      PROVE  /\ IsActive(slot) /\ IsRollout(slot) /\ UNCHANGED <<slot, intent, objects>>
             /\ WrittenBy(slot.id)'
  <2>1. /\ GoesOn(c) /\ IsRollout(slot) /\ IsActive(slot) /\ DoneActions(c) = cmd[c].step
        /\ cmd[c].step \in Nat /\ cmd[c].step + 1 = LenOf(slot.op)
        /\ pointer' = Successor(pointer, OwnActive(slot.id), slot.id)
        /\ UNCHANGED <<slot, intent, objects>>
    BY <1>1, PublishFacts
  <2>2. UntouchedBy(slot.id)
    BY <2>1 DEF PointerOK
  <2>3. OwnActive(slot.id)' = OwnActive(slot.id)
    BY <2>1 DEF OwnActive
  <2> QED
    BY <2>1, <2>2, <2>3 DEF UntouchedBy, WrittenBy
<1>2. ASSUME NEW r \in Reconciler, RestorePointer(r)
      PROVE  /\ IsActive(slot) /\ IsRollout(slot) /\ UNCHANGED <<slot, intent, objects>>
             /\ UndoneBy(slot.id)'
  BY <1>2, UndoFacts
<1> QED
  BY <1>1, <1>2, PointerTurns

\* AnchorStaysInStep: the anchor that is active after a verdict is the one the verdict
\* says: the source of a completed upgrade, none after a completed rollback, and the one
\* before it after either is undone.
THEOREM AnchorStaysInStep == Spec /\ []NobodyOvertaken => AnchorFollowsVerdict
<1> DEFINE Agrees ==
      /\ EndsAs("completed") /\ intent[slot.id].op = "upgrade"
           => pointer.active = intent[slot.id].spec
      /\ EndsAs("completed") /\ intent[slot.id].op = "rollback"
           => pointer.active = 0
      /\ EndsAs("failed-restored") /\ IsRollout(slot)
           => pointer.active = intent[slot.id].previous.active
<1>1. BaseInv /\ NobodyOvertaken /\ PointerOK /\ [Next]_vars => Agrees
  <2> SUFFICES ASSUME BaseInv, NobodyOvertaken, PointerOK, [Next]_vars PROVE Agrees
    OBVIOUS
  <2>1. ASSUME EndsAs("completed"), intent[slot.id].op \in RolloutOperations
        PROVE  WrittenBy(slot.id)
    <3>1. PICK c \in Commander : Complete(c)
      BY <2>1, Verdicts
    <3>2. GoesOn(c) /\ slot.id \in Ids /\ DoneActions(c) = LenOf(slot.op)
      BY <3>1, CompleteFacts
    <3>3. IsRollout(slot)
      BY <2>1, <3>2, RuntimeChangeAssumption DEF BaseInv, SlotOK, IsRollout, Ids
    <3> QED
      BY <3>2, <3>3 DEF PointerOK
  <2>2. ASSUME EndsAs("failed-restored"), IsRollout(slot)
        PROVE  UntouchedBy(slot.id) \/ UndoneBy(slot.id)
    <3>1. PICK r \in Reconciler : Close(r)
      BY <2>2, Verdicts
    <3>2. rec[r].at = "close"
      BY <3>1, CloseFacts
    <3> QED
      BY <2>2, <3>2 DEF PointerOK
  <2>3. WrittenBy(slot.id) => pointer.active = OwnActive(slot.id)
    BY DEF WrittenBy, Successor
  <2> QED
    BY <2>1, <2>2, <2>3 DEF UntouchedBy, UndoneBy, OwnActive, RolloutOperations
<1>2. BaseInv /\ NobodyOvertaken /\ PointerOK /\ [Next]_vars => [Agrees]_vars
  BY <1>1
<1> QED
  BY <1>2, PointerIsFollowed, BaseIsInvariant, PTL DEF Spec, AnchorFollowsVerdict

--------------------------------------------------------------------------------
(* The pointer and its types, however many reconcilers overtake each other *)

\* A rollout writes the pointer twice at most: when its plan is done, and when it is
\* undone; its last writer left what its own compare-and-swap had asked for.
GrowthOK ==
  /\ pointer.generation <= 2 * slot.id
  /\ \A id \in Ids :
       /\ id > slot.id => intent[id].previous = NoPointer
       /\ intent[id].previous.generation + 2 <= 2 * id
  /\ pointer.by # 0 =>
       pointer.by <= slot.id /\ (WrittenBy(pointer.by) \/ UndoneBy(pointer.by))
  /\ \A r \in Reconciler : rec[r].at \in {"pointer", "cas"} => RecoversRollout(r)

\* PublishWrites: a command writes the successor of the pointer its rollout froze.
LEMMA PublishWrites ==
  ASSUME BaseInv, NEW c \in Commander, PublishRollback(c) \/ ClearRollback(c)
  PROVE  /\ IsActive(slot) /\ IsRollout(slot) /\ slot.id \in Ids
         /\ WrittenBy(slot.id)'
         /\ UNCHANGED <<slot, intent, objects>>
<1>1. /\ GoesOn(c) /\ IsRollout(slot) /\ slot.id \in Ids /\ IsActive(slot)
      /\ pointer' = Successor(pointer, OwnActive(slot.id), slot.id)
      /\ UNCHANGED <<slot, intent, objects>>
  BY PublishFacts
<1>2. Mine(c) = intent[slot.id] /\ intent[slot.id].op = slot.op
  BY <1>1, MineFacts, RolloutFacts DEF GoesOn
<1>3. /\ pointer.generation = intent[slot.id].previous.generation
      /\ pointer.active = intent[slot.id].previous.active
  <2>1. CASE PublishRollback(c)
    BY <1>2, <2>1 DEF PublishRollback, CanPublish, AssertCas
  <2>2. CASE ClearRollback(c)
    BY <1>1, <1>2, <2>2, RolloutFacts DEF ClearRollback, CanClear, AssertCas
  <2> QED
    BY <2>1, <2>2
<1>4. WrittenBy(slot.id)'
  <2>1. OwnActive(slot.id)' = OwnActive(slot.id)
    BY <1>1 DEF OwnActive
  <2> QED
    BY <1>1, <1>3, <2>1 DEF WrittenBy, Successor
<1> QED
  BY <1>1, <1>4

\* RestoreUndoes: a reconciler, overtaken or not, writes what undoes its own rollout.
LEMMA RestoreUndoes ==
  ASSUME BaseInv, NEW r \in Reconciler, RestorePointer(r)
  PROVE  /\ rec[r].id \in Ids /\ rec[r].id <= slot.id
         /\ Recovers(r) = intent[rec[r].id]
         /\ UndoneBy(rec[r].id)'
         /\ UNCHANGED <<slot, intent, objects>>
<1>1. /\ rec[r].at = "cas" /\ CanUndoPointer(rec[r].id)
      /\ pointer' = Successor(pointer, Recovers(r).previous.active, rec[r].id)
      /\ UNCHANGED <<slot, intent, objects>>
  BY DEF RestorePointer
<1>2. /\ rec[r].id \in Ids /\ rec[r].id <= slot.id
      /\ Recovers(r) = intent[rec[r].id] /\ Recovers(r) \in Intents
  BY <1>1, RecoversFacts DEF Busy
<1>3. /\ pointer.generation = intent[rec[r].id].previous.generation + 1
      /\ pointer.active = OwnActive(rec[r].id)
      /\ intent[rec[r].id].previous.generation \in Nat
  BY <1>1, <1>2 DEF CanUndoPointer, CanRestore, AssertCas, Intents, PointerDocs
<1>4. UndoneBy(rec[r].id)'
  <2> DEFINE id == rec[r].id
  <2>1. pointer.generation + 1 = intent[id].previous.generation + 2
    BY <1>3
  <2>2. pointer' = [generation |-> intent[id].previous.generation + 2,
                    active |-> intent[id].previous.active,
                    previous |-> OwnActive(id), by |-> id]
    BY <1>1, <1>2, <1>3, <2>1 DEF Successor
  <2>3. rec'[r].id = id
    <3>1. Goes(r, "resolve") /\ VarsOK
      BY DEF RestorePointer, BaseInv
    <3> QED
      BY <3>1, GoesEffect DEF Places
  <2>4. intent' = intent
    BY <1>1
  <2> QED
    BY <2>2, <2>3, <2>4 DEF UndoneBy, OwnActive
<1> QED
  BY <1>1, <1>2, <1>4

\* FrozenPointer: a transaction freezes the pointer as it is, or none.
LEMMA FrozenPointer ==
  ASSUME BaseInv, NEW c \in Commander, Begins(c)
  PROVE  intent'[slot.id + 1].previous \in {pointer, NoPointer}
<1>1. slot.id + 1 \in Ids /\ intent \in [Ids -> Intents]
  BY BeginEffect DEF BaseInv, VarsOK
<1>2. ASSUME NEW f \in {NoIntent.previous, pointer}, NEW it, it.previous = f, BeginWith(c, it)
      PROVE  intent'[slot.id + 1].previous \in {pointer, NoPointer}
  BY <1>1, <1>2 DEF BeginWith, NoIntent
<1>3. CASE \E target \in Model : BeginDeploy(c, target)
  <2>1. PICK target \in Model : BeginDeploy(c, target)
    BY <1>3
  <2>2. [NoIntent EXCEPT !.op = "deploy", !.target = target,
                         !.original = cmd[c].original].previous = NoIntent.previous
    BY DEF NoIntent
  <2> QED
    BY <1>2, <2>1, <2>2 DEF BeginDeploy
<1>4. CASE \E target \in Model : BeginUpgrade(c, target)
  <2>1. PICK target \in Model : BeginUpgrade(c, target)
    BY <1>4
  <2>2. RolloutIntent("upgrade", Current, target, slot.id + 1).previous = pointer
    BY DEF RolloutIntent
  <2> QED
    BY <1>2, <2>1, <2>2 DEF BeginUpgrade
<1>5. CASE BeginRollback(c)
  <2>1. PICK o, t, s : BeginWith(c, RolloutIntent("rollback", o, t, s))
    BY <1>5 DEF BeginRollback
  <2>2. RolloutIntent("rollback", o, t, s).previous = pointer
    BY DEF RolloutIntent
  <2> QED
    BY <1>2, <2>1, <2>2
<1>6. CASE BeginRelease(c)
  <2>1. [NoIntent EXCEPT !.op = "release", !.original = cmd[c].original].previous
          = NoIntent.previous
    BY DEF NoIntent
  <2> QED
    BY <1>2, <1>6, <2>1 DEF BeginRelease
<1>7. CASE BeginProfile(c)
  <2>1. [NoIntent EXCEPT !.op = "profile", !.original = cmd[c].original].previous
          = NoIntent.previous
    BY DEF NoIntent
  <2> QED
    BY <1>2, <1>7, <2>1 DEF BeginProfile
<1> QED
  BY <1>3, <1>4, <1>5, <1>6, <1>7 DEF Begins

\* GrowthIsKept: no step writes the pointer a third time for a rollout, nor in the name
\* of one that did not look for it.
LEMMA GrowthIsKept == BaseInv /\ GrowthOK /\ [Next]_vars => GrowthOK'
<1> SUFFICES ASSUME BaseInv, GrowthOK, [Next]_vars PROVE GrowthOK'
  OBVIOUS
<1>0. /\ pointer.generation \in Nat /\ slot.id \in Nat /\ MaxTx \in Nat
      /\ pointer.by # 0 => pointer.by \in Ids
      /\ \A id \in Ids : id \in Nat /\ id >= 1 /\ intent[id].previous.generation \in Nat
  BY RuntimeChangeAssumption DEF BaseInv, VarsOK, PointerDocs, Docs, Intents, Ids
<1>1. \A r \in Reconciler : rec'[r].at \in {"pointer", "cas"} => RecoversRollout(r)'
  BY RecoversStays DEF GrowthOK
<1>2. ASSUME pointer' = pointer, slot.id <= slot'.id, slot'.id \in Nat
      PROVE  pointer'.by # 0 =>
               pointer'.by <= slot'.id /\ (WrittenBy(pointer.by)' \/ UndoneBy(pointer.by)')
  <2> SUFFICES ASSUME pointer.by # 0
               PROVE  pointer'.by <= slot'.id /\ (WrittenBy(pointer.by)' \/ UndoneBy(pointer.by)')
    BY <1>2
  <2>1. pointer.by \in Ids /\ pointer.by \in Nat /\ pointer.by <= slot.id
    BY <1>0 DEF GrowthOK
  <2>2. WrittenBy(pointer.by) \/ UndoneBy(pointer.by)
    BY DEF GrowthOK
  <2>3. pointer'.by = pointer.by
    BY <1>2
  <2>4. \A id \in Ids : id = pointer.by => (WrittenBy(id) => WrittenBy(pointer.by)')
                                           /\ (UndoneBy(id) => UndoneBy(pointer.by)')
    <3> SUFFICES ASSUME NEW id \in Ids, id = pointer.by
                 PROVE  /\ WrittenBy(id) => WrittenBy(pointer.by)'
                        /\ UndoneBy(id) => UndoneBy(pointer.by)'
      OBVIOUS
    <3>1. intent'[id] = intent[id] /\ pointer' = pointer
      BY <1>2, <2>1, IntentsStay
    <3> QED
      BY <2>3, <3>1 DEF WrittenBy, UndoneBy, OwnActive
  <2> QED
    BY <1>0, <1>2, <2>1, <2>2, <2>3, <2>4
<1>3. CASE \E c \in Commander : Begins(c)
  <2>1. PICK c \in Commander : Begins(c)
    BY <1>3
  <2>2. /\ slot.id + 1 \in Ids /\ slot'.id = slot.id + 1 /\ UNCHANGED pointer
        /\ \A i \in Ids \ {slot.id + 1} : intent'[i] = intent[i]
    BY <2>1, BeginEffect
  <2>3. intent'[slot.id + 1].previous \in {pointer, NoPointer}
    BY <2>1, FrozenPointer
  <2>4. intent'[slot.id + 1].previous.generation <= 2 * slot.id
    BY <1>0, <2>3 DEF GrowthOK, NoPointer
  <2>5. ASSUME NEW id \in Ids
        PROVE  /\ id > slot'.id => intent'[id].previous = NoPointer
               /\ intent'[id].previous.generation + 2 <= 2 * id
    <3>1. CASE id = slot.id + 1
      <4>1. intent'[id].previous.generation \in Nat
        BY <1>0, <2>3, <3>1 DEF NoPointer
      <4> QED
        BY <1>0, <2>2, <2>4, <3>1, <4>1
    <3>2. CASE id # slot.id + 1
      BY <1>0, <2>2, <3>2 DEF GrowthOK
    <3> QED
      BY <3>1, <3>2
  <2>6. pointer'.generation <= 2 * slot'.id
    BY <1>0, <2>2 DEF GrowthOK
  <2>7. pointer'.by # 0 =>
          pointer'.by <= slot'.id /\ (WrittenBy(pointer.by)' \/ UndoneBy(pointer.by)')
    BY <1>0, <1>2, <2>2
  <2> QED
    BY <1>1, <2>5, <2>6, <2>7 DEF GrowthOK
<1>4. CASE SlotKept
  <2>1. slot'.id = slot.id /\ intent' = intent
    BY <1>4 DEF SlotKept
  <2>2. \A id \in Ids :
          /\ id > slot'.id => intent'[id].previous = NoPointer
          /\ intent'[id].previous.generation + 2 <= 2 * id
    BY <2>1 DEF GrowthOK
  <2>3. CASE pointer' = pointer
    <3>1. pointer'.by # 0 =>
            pointer'.by <= slot'.id /\ (WrittenBy(pointer.by)' \/ UndoneBy(pointer.by)')
      BY <1>0, <1>2, <2>1, <2>3
    <3>2. pointer'.generation <= 2 * slot'.id
      BY <2>1, <2>3 DEF GrowthOK
    <3> QED
      BY <1>1, <2>2, <3>1, <3>2 DEF GrowthOK
  <2>4. ASSUME NEW id \in Ids, id <= slot.id,
               pointer'.generation \in {intent[id].previous.generation + 1,
                                        intent[id].previous.generation + 2}
        PROVE  pointer'.generation <= 2 * slot'.id
    <3>1. intent[id].previous.generation + 2 <= 2 * id
      BY DEF GrowthOK
    <3> QED
      BY <1>0, <2>1, <2>4, <3>1
  <2>5. ASSUME NEW c \in Commander, PublishRollback(c) \/ ClearRollback(c) PROVE GrowthOK'
    <3>1. slot.id \in Ids /\ WrittenBy(slot.id)'
      BY <2>5, PublishWrites
    <3>2. /\ pointer'.by = slot.id
          /\ pointer'.generation = intent[slot.id].previous.generation + 1
      BY <2>1, <3>1 DEF WrittenBy, Successor
    <3>3. pointer'.generation <= 2 * slot'.id
      BY <1>0, <2>4, <3>1, <3>2
    <3>4. WrittenBy(pointer.by)'
      BY <2>1, <3>1, <3>2 DEF WrittenBy
    <3> QED
      BY <1>0, <1>1, <2>1, <2>2, <3>2, <3>3, <3>4 DEF GrowthOK
  <2>6. ASSUME NEW r \in Reconciler, RestorePointer(r) PROVE GrowthOK'
    <3>1. rec[r].id \in Ids /\ rec[r].id <= slot.id /\ UndoneBy(rec[r].id)'
      BY <2>6, RestoreUndoes
    <3>2. rec'[r].id = rec[r].id
      <4>1. Goes(r, "resolve") /\ VarsOK
        BY <2>6 DEF RestorePointer, BaseInv
      <4> QED
        BY <4>1, GoesEffect DEF Places
    <3>3. /\ pointer'.by = rec[r].id
          /\ pointer'.generation = intent[rec[r].id].previous.generation + 2
      BY <2>1, <3>1, <3>2 DEF UndoneBy
    <3>4. pointer'.generation <= 2 * slot'.id
      BY <2>4, <3>1, <3>3
    <3>5. UndoneBy(pointer.by)'
      BY <3>1, <3>2, <3>3 DEF UndoneBy
    <3> QED
      BY <1>1, <2>1, <2>2, <3>1, <3>3, <3>4, <3>5 DEF GrowthOK
  <2> QED
    BY <2>3, <2>5, <2>6, PointerTurns
<1> QED
  BY <1>3, <1>4, SlotMoves

\* PointerGrows: whoever recovers, the pointer is what its last writer was to make of it.
THEOREM PointerGrows == Spec => []GrowthOK
<1>1. Init => GrowthOK
  BY RuntimeChangeAssumption DEF Init, GrowthOK, NoPointer, NoIntent, NoDoc, Ids, Away
<1>2. BaseInv /\ GrowthOK /\ [Next]_vars => GrowthOK'
  BY GrowthIsKept
<1> QED
  BY <1>1, <1>2, BaseIsInvariant, PTL DEF Spec

\* OwnWriteStaysUndoable: whatever other reconcilers do, a rollout that was the last to
\* write the pointer can put it back, or has done so.
THEOREM OwnWriteStaysUndoable == Spec => []OwnWriteIsUndoable
<1>1. BaseInv /\ GrowthOK => OwnWriteIsUndoable
  <2> SUFFICES ASSUME BaseInv, GrowthOK, IsRollout(slot), pointer.by = slot.id
               PROVE  PointerIsBack(slot.id) \/ CanUndoPointer(slot.id)
    BY DEF OwnWriteIsUndoable
  <2>1. WrittenBy(slot.id) \/ UndoneBy(slot.id)
    BY RolloutFacts DEF GrowthOK
  <2>2. CASE WrittenBy(slot.id)
    BY <2>2, WrittenIsUndoable
  <2>3. CASE UndoneBy(slot.id)
    BY <2>3 DEF UndoneBy, PointerIsBack
  <2> QED
    BY <2>1, <2>2, <2>3
<1> QED
  BY <1>1, PointerGrows, BaseIsInvariant, PTL

\* PointerStaysOwned: the pointer moves for the open rollout, or for a reconciler that was
\* overtaken, which makes the anchor active its own transaction found; it moves from one
\* stored anchor to another.
THEOREM PointerStaysOwned == Spec => PointerHasOwner
<1> DEFINE Owned ==
      /\ {pointer'.active, pointer'.previous} \ {0} \subseteq objects
      /\ \/ IsActive(slot) /\ IsRollout(slot) /\ pointer'.by = slot.id
         \/ \E r \in Reconciler :
              /\ rec[r].at = "cas" /\ Overtaken(r)
              /\ pointer'.by = rec[r].id
              /\ pointer'.active = Recovers(r).previous.active
<1>1. ASSUME BaseInv, GrowthOK, [Next]_vars, pointer' # pointer PROVE Owned
  <2>1. {pointer'.active, pointer'.previous} \subseteq objects' \union {0}
    BY <1>1, PointerMoves
  <2>2. ASSUME NEW c \in Commander, PublishRollback(c) \/ ClearRollback(c) PROVE Owned
    <3>1. /\ IsActive(slot) /\ IsRollout(slot) /\ WrittenBy(slot.id)'
          /\ UNCHANGED <<slot, objects>>
      BY <1>1, <2>2, PublishWrites
    <3>2. pointer'.by = slot.id
      BY <3>1 DEF WrittenBy, Successor
    <3> QED
      BY <2>1, <3>1, <3>2
  <2>3. ASSUME NEW r \in Reconciler, RestorePointer(r) PROVE Owned
    <3>1. /\ rec[r].at = "cas"
          /\ pointer' = Successor(pointer, Recovers(r).previous.active, rec[r].id)
          /\ UNCHANGED <<slot, objects>>
      BY <2>3 DEF RestorePointer
    <3>2. /\ pointer'.by = rec[r].id
          /\ pointer'.active = Recovers(r).previous.active
      BY <3>1 DEF Successor
    <3>3. CASE Overtaken(r)
      BY <2>1, <3>1, <3>2, <3>3
    <3>4. CASE ~Overtaken(r)
      <4>1. rec[r].id = slot.id /\ IsActive(slot)
        BY <3>4 DEF Overtaken
      <4>2. RecoversRollout(r)
        BY <1>1, <3>1 DEF GrowthOK
      <4>3. slot.id # 0
        BY <1>1, <2>3, <4>1, RestoreUndoes, RuntimeChangeAssumption DEF Ids
      <4>4. IsRollout(slot)
        BY <1>1, <4>1, <4>2, <4>3
        DEF BaseInv, SlotOK, RecoversRollout, Recovers, IsRollout
      <4> QED
        BY <2>1, <3>1, <3>2, <4>1, <4>4
    <3> QED
      BY <3>3, <3>4
  <2> QED
    BY <1>1, <2>2, <2>3, PointerTurns
<1>2. BaseInv /\ GrowthOK /\ [Next]_vars => [pointer' # pointer => Owned]_vars
  BY <1>1
<1> QED
  BY <1>2, PointerGrows, BaseIsInvariant, PTL DEF Spec, PointerHasOwner

\* GrowthFacts: with the bound, the types of the base are those of TypeOK.
LEMMA GrowthFacts == BaseInv /\ GrowthOK => TypeOK
<1> SUFFICES ASSUME BaseInv, GrowthOK PROVE TypeOK
  OBVIOUS
<1>1. VarsOK /\ slot.id \in 0 .. MaxTx /\ MaxTx \in Nat
  BY RuntimeChangeAssumption DEF BaseInv, VarsOK, Docs
<1>2. ASSUME NEW p \in PointerDocs(Ids, Nat), p.generation <= 2 * slot.id
      PROVE  p \in Pointers
  <2>1. p.generation \in 0 .. 2 * slot.id
    BY <1>1, <1>2 DEF PointerDocs
  <2> QED
    BY <1>2, <2>1 DEF Pointers, PointerDocs
<1>3. pointer \in Pointers
  BY <1>1, <1>2 DEF VarsOK, GrowthOK
<1>4. ASSUME NEW id \in Ids PROVE intent[id].previous \in Pointers
  <2>1. intent[id].previous \in PointerDocs(Ids, Nat) /\ id \in Nat
    BY <1>1 DEF VarsOK, Intents, Ids
  <2>2. intent[id].previous.generation \in Nat
    BY <2>1 DEF PointerDocs
  <2>3. intent[id].previous.generation <= 2 * slot.id
    <3>1. CASE id > slot.id
      BY <1>1, <3>1 DEF GrowthOK, NoPointer
    <3>2. CASE ~(id > slot.id)
      BY <1>1, <2>1, <2>2, <3>2 DEF GrowthOK
    <3> QED
      BY <3>1, <3>2
  <2> QED
    BY <1>2, <2>1, <2>3
<1>5. intent \in [Ids -> [op : Operations \union {"none"}, original : Originals,
                          target : Model \union {NoModel}, spec : 0 .. MaxTx,
                          previous : Pointers]]
  BY <1>1, <1>4 DEF VarsOK, Intents
<1>6. \A c \in Commander :
        /\ cmd[c].at \in {"idle", "captured", "act", "publish", "wait", "journal", "failing"}
        /\ cmd[c].id \in 0 .. MaxTx
        /\ cmd[c].state \in States \union {"none"}
  BY <1>1 DEF VarsOK, Cmds
<1>7. \A r \in Reconciler :
        /\ rec[r].at \in {"idle", "fenced", "planned", "confirm", "restore", "profile",
                          "spawn", "wait", "verify", "pointer", "cas", "resolve",
                          "reopen", "close", "failing"}
        /\ rec[r].id \in 0 .. MaxTx
  BY <1>1 DEF VarsOK, Recs
<1>8. slot.state \in States \union {"none"}
  BY <1>1 DEF VarsOK, Docs
<1> QED
  BY <1>1, <1>3, <1>5, <1>6, <1>7, <1>8 DEF TypeOK, VarsOK

\* ChangeIsTyped: every reachable state has the shape TypeOK says; above all, each
\* rollout writes the pointer twice at most, however many reconcilers undo it.
THEOREM ChangeIsTyped == Spec => []TypeOK
BY PointerGrows, BaseIsInvariant, GrowthFacts, PTL

--------------------------------------------------------------------------------
(* An anchor that was consumed                                             *)

\* Anchor spec is consumed: nothing that is or was the pointer of an open rollout leads
\* back to it.
Gone(spec) ==
  /\ pointer.active # spec
  /\ spec <= slot.id
  /\ IsActive(slot) => spec < slot.id
  /\ IsActive(slot) /\ IsRollout(slot) => intent[slot.id].previous.active # spec

\* GoneStays: an anchor that was consumed stays so.
LEMMA GoneStays ==
  ASSUME NEW spec \in Ids
  PROVE  BaseInv /\ NobodyOvertaken /\ PointerOK /\ Gone(spec) /\ [Next]_vars => Gone(spec)'
<1> SUFFICES ASSUME BaseInv, NobodyOvertaken, PointerOK, Gone(spec), [Next]_vars
             PROVE  Gone(spec)'
  OBVIOUS
<1>0. spec \in Nat /\ spec # 0 /\ slot.id \in Nat
  BY RuntimeChangeAssumption DEF Ids, BaseInv, VarsOK, Docs
<1>1. CASE \E c \in Commander : Begins(c)
  <2>1. PICK c \in Commander : Begins(c)
    BY <1>1
  <2>2. PICK frozen \in Intents :
          /\ slot'.id = slot.id + 1 /\ slot'.op = frozen.op
          /\ intent'[slot.id + 1] = frozen /\ UNCHANGED pointer
          /\ frozen.op \in RolloutOperations => frozen.previous = pointer
    BY <2>1, BeginEffect
  <2>3. spec < slot'.id
    BY <1>0, <2>2 DEF Gone
  <2>4. IsRollout(slot)' => intent'[slot'.id].previous.active # spec
    BY <2>2 DEF Gone, IsRollout
  <2> QED
    BY <1>0, <2>2, <2>3, <2>4 DEF Gone
<1>2. CASE SlotKept
  <2>1. /\ slot'.id = slot.id /\ slot'.op = slot.op /\ intent' = intent
        /\ slot'.schema = slot.schema
    BY <1>2 DEF SlotKept
  <2>2. IsActive(slot') => IsActive(slot)
    <3>1. CASE slot' = slot
      BY <3>1
    <3>2. CASE \E c \in Commander : Begins(c) \/ Enter(c) \/ Journal(c) \/ Complete(c)
      <4>1. CASE \E c \in Commander : Begins(c)
        BY <1>0, <2>1, <4>1, BeginEffect
      <4>2. CASE \E c \in Commander : Enter(c) \/ Journal(c) \/ Complete(c)
        <5>1. \E c \in Commander : Live(c)
          BY <4>2 DEF Enter, Journal, Complete, Live
        <5> QED
          BY <5>1, LiveFacts
      <4> QED
        BY <3>2, <4>1, <4>2
    <3>3. CASE \E r \in Reconciler : Close(r)
      BY <3>3, CloseFacts
    <3> QED
      BY <3>1, <3>2, <3>3, SlotSteps
  <2>3. pointer'.active # spec
    <3>1. CASE pointer' = pointer
      BY <3>1 DEF Gone
    <3>2. CASE pointer' # pointer
      <4>1. /\ IsActive(slot) /\ IsRollout(slot)
            /\ WrittenBy(slot.id)' \/ UndoneBy(slot.id)'
        BY <3>2, OwnerFacts
      <4>2. spec < slot.id /\ intent[slot.id].previous.active # spec
        BY <4>1 DEF Gone
      <4>3. OwnActive(slot.id) # spec
        BY <1>0, <4>1, <4>2, RolloutFacts DEF OwnActive
      <4>4. OwnActive(slot.id)' = OwnActive(slot.id)
        BY <2>1 DEF OwnActive
      <4> QED
        BY <2>1, <4>1, <4>2, <4>3, <4>4 DEF WrittenBy, UndoneBy, Successor
    <3> QED
      BY <3>1, <3>2
  <2> QED
    BY <2>1, <2>2, <2>3 DEF Gone, IsRollout
<1> QED
  BY <1>1, <1>2, SlotMoves

\* AnchorsAreOneShot: the anchor of a completed rollback is never active again.
THEOREM AnchorsAreOneShot == Spec /\ []NobodyOvertaken => AnchorIsOneShot
<1>1. ASSUME NEW spec \in Ids
      PROVE  Spec /\ []NobodyOvertaken =>
               [](slot.state = "completed" /\ slot.op = "rollback"
                    /\ intent[slot.id].spec = spec => [](pointer.active # spec))
  <2>1. BaseInv /\ PointerOK =>
          (slot.state = "completed" /\ slot.op = "rollback" /\ intent[slot.id].spec = spec
             => Gone(spec))
    <3> SUFFICES ASSUME BaseInv, PointerOK, slot.state = "completed", slot.op = "rollback",
                        intent[slot.id].spec = spec
                 PROVE  Gone(spec)
      OBVIOUS
    <3>1. IsRollout(slot) /\ WrittenBy(slot.id)
      BY DEF PointerOK, IsRollout, RolloutOperations
    <3>2. ~IsActive(slot)
      BY DEF IsActive, IsTerminal, TerminalStates, BaseInv, VarsOK, Docs
    <3>3. pointer.active = 0 /\ spec # 0
      BY <3>1, RolloutFacts, RuntimeChangeAssumption DEF WrittenBy, Successor, OwnActive, Ids
    <3>4. spec <= slot.id
      BY <3>1, RolloutFacts, RuntimeChangeAssumption DEF Ids
    <3> QED
      BY <3>2, <3>3, <3>4 DEF Gone
  <2>2. BaseInv /\ NobodyOvertaken /\ PointerOK /\ Gone(spec) /\ [Next]_vars => Gone(spec)'
    BY GoneStays
  <2>3. Gone(spec) => pointer.active # spec
    BY DEF Gone
  <2> QED
    BY <2>1, <2>2, <2>3, PointerIsFollowed, BaseIsInvariant, PTL DEF Spec
<1> QED
  BY <1>1 DEF AnchorIsOneShot

--------------------------------------------------------------------------------
(* The runtime under recovery                                              *)

\* SelectionMoves: a rollback, runtime work or a recovery selects a model.
LEMMA SelectionMoves ==
  BaseInv /\ [Next]_vars =>
    \/ selection' = selection
    \/ \E c \in Commander : ActivateAnchor(c)
    \/ \E r \in Reconciler : RestoreProfile(r)
    \/ \E p \in Process : WorkActs(p)
<1> DEFINE Goal ==
      \/ selection' = selection
      \/ \E c \in Commander : ActivateAnchor(c)
      \/ \E r \in Reconciler : RestoreProfile(r)
      \/ \E p \in Process : WorkActs(p)
<1> SUFFICES ASSUME BaseInv, [Next]_vars PROVE Goal
  OBVIOUS
<1>0. VarsOK /\ SlotOK /\ IntentsOK /\ ControlOK /\ WorksOK
  BY DEF BaseInv
<1>1. ASSUME NEW c \in Commander, CommandStep(c) PROVE Goal
  <2>1. CASE CaptureOriginal(c)
    BY <2>1 DEF runtime, CaptureOriginal
  <2>2. CASE Begins(c)
    BY <2>2, BeginEffect
  <2>3. CASE Enter(c)
    BY <2>3 DEF runtime, CommandTransition, Enter
  <2>4. CASE Fetch(c)
    BY <2>4 DEF runtime, Fetch
  <2>5. CASE QuickPasses(c)
    BY <2>5 DEF runtime, QuickPasses
  <2>6. CASE SpawnWork(c)
    BY <2>6 DEF runtime, SpawnWork
  <2>7. CASE ActivateAnchor(c)
    BY <2>7
  <2>8. CASE VerifyRelease(c)
    BY <2>8 DEF runtime, VerifyRelease
  <2>9. CASE AssertPointerAction(c)
    BY <2>9 DEF runtime, AssertPointerAction
  <2>10. CASE PublishRollback(c)
    BY <2>10 DEF runtime, PublishRollback
  <2>11. CASE ClearRollback(c)
    BY <2>11 DEF runtime, ClearRollback
  <2>12. CASE Journal(c)
    BY <2>12 DEF runtime, Journal
  <2>13. CASE Complete(c)
    BY <2>13 DEF runtime, CommandTransition, Complete
  <2>14. CASE Raise(c)
    BY <2>14 DEF runtime, Raise
  <2>15. CASE Mark(c)
    BY <2>15 DEF runtime, Mark
  <2>16. CASE Die(c)
    BY <2>16 DEF runtime, Die
  <2> QED
    BY <1>1, <2>1, <2>2, <2>3, <2>4, <2>5, <2>6, <2>7, <2>8, <2>9, <2>10, <2>11,
       <2>12, <2>13, <2>14, <2>15, <2>16 DEF CommandStep, Begins
<1>2. ASSUME NEW p \in Process, WorkStep(p) PROVE Goal
  <2>1. CASE WorkEnters(p)
    BY <2>1 DEF runtime, WorkEnters
  <2>2. CASE WorkFails(p)
    BY <2>2 DEF runtime, WorkFails
  <2>3. CASE WorkActs(p)
    BY <2>3
  <2> QED
    BY <1>2, <2>1, <2>2, <2>3 DEF WorkStep
<1>3. ASSUME NEW r \in Reconciler, RecoveryStep(r) PROVE Goal
  <2>1. CASE FenceOrphan(r)
    BY <2>1 DEF runtime, FenceOrphan
  <2>2. CASE ReadPlan(r)
    BY <2>2 DEF runtime, ReadPlan
  <2>3. CASE Classify(r)
    BY <2>3 DEF runtime, Classify
  <2>4. CASE Confirm(r)
    BY <2>4 DEF runtime, Confirm
  <2>5. CASE BeginRestoring(r)
    BY <2>5 DEF runtime, BeginRestoring
  <2>6. CASE RestoreProfile(r)
    BY <2>6
  <2>7. CASE SpawnRestore(r)
    BY <2>7 DEF runtime, SpawnRestore
  <2>8. CASE Verify(r)
    BY <2>8 DEF runtime, Verify
  <2>9. CASE ReadPointer(r)
    BY <2>9 DEF runtime, ReadPointer
  <2>10. CASE RestorePointer(r)
    BY <2>10 DEF runtime, RestorePointer
  <2>11. CASE Resolve(r)
    BY <2>11 DEF runtime, Resolve
  <2>12. CASE Reopen(r)
    BY <2>12 DEF runtime, Reopen
  <2>13. CASE Close(r)
    BY <2>13 DEF runtime, Close
  <2>14. CASE RecoveryRaises(r)
    BY <2>14 DEF runtime, RecoveryRaises
  <2>15. CASE MarkRecovery(r)
    BY <2>15 DEF runtime, MarkRecovery
  <2>16. CASE Leave(r)
    BY <2>16 DEF runtime, Leave
  <2> QED
    BY <1>3, <2>1, <2>2, <2>3, <2>4, <2>5, <2>6, <2>7, <2>8, <2>9, <2>10, <2>11,
       <2>12, <2>13, <2>14, <2>15, <2>16 DEF RecoveryStep
<1>4. CASE ContainerExits
  BY <1>4 DEF runtime, ContainerExits
<1>5. CASE CandidateExits
  BY <1>5 DEF runtime, CandidateExits
<1>6. CASE SupervisorStarts
  BY <1>6 DEF runtime, SupervisorStarts
<1>7. CASE UNCHANGED vars
  BY <1>7 DEF vars
<1> QED
  BY <1>1, <1>2, <1>3, <1>4, <1>5, <1>6, <1>7 DEF Next

\* ContainerMoves: runtime work or the supervisor starts a container; one may always stop.
LEMMA ContainerMoves ==
  BaseInv /\ [Next]_vars =>
    \/ container' \in {container, NoModel}
    \/ \E p \in Process : WorkActs(p)
    \/ SupervisorStarts
<1> DEFINE Goal ==
      \/ container' \in {container, NoModel}
      \/ \E p \in Process : WorkActs(p)
      \/ SupervisorStarts
<1> SUFFICES ASSUME BaseInv, [Next]_vars PROVE Goal
  OBVIOUS
<1>0. VarsOK /\ SlotOK /\ IntentsOK /\ ControlOK /\ WorksOK
  BY DEF BaseInv
<1>1. ASSUME NEW c \in Commander, CommandStep(c) PROVE Goal
  <2>1. CASE CaptureOriginal(c)
    BY <2>1 DEF runtime, CaptureOriginal
  <2>2. CASE Begins(c)
    BY <2>2, BeginEffect
  <2>3. CASE Enter(c)
    BY <2>3 DEF runtime, CommandTransition, Enter
  <2>4. CASE Fetch(c)
    BY <2>4 DEF runtime, Fetch
  <2>5. CASE QuickPasses(c)
    BY <2>5 DEF runtime, QuickPasses
  <2>6. CASE SpawnWork(c)
    BY <2>6 DEF runtime, SpawnWork
  <2>7. CASE ActivateAnchor(c)
    BY <2>7 DEF runtime, ActivateAnchor
  <2>8. CASE VerifyRelease(c)
    BY <2>8 DEF runtime, VerifyRelease
  <2>9. CASE AssertPointerAction(c)
    BY <2>9 DEF runtime, AssertPointerAction
  <2>10. CASE PublishRollback(c)
    BY <2>10 DEF runtime, PublishRollback
  <2>11. CASE ClearRollback(c)
    BY <2>11 DEF runtime, ClearRollback
  <2>12. CASE Journal(c)
    BY <2>12 DEF runtime, Journal
  <2>13. CASE Complete(c)
    BY <2>13 DEF runtime, CommandTransition, Complete
  <2>14. CASE Raise(c)
    BY <2>14 DEF runtime, Raise
  <2>15. CASE Mark(c)
    BY <2>15 DEF runtime, Mark
  <2>16. CASE Die(c)
    BY <2>16 DEF runtime, Die
  <2> QED
    BY <1>1, <2>1, <2>2, <2>3, <2>4, <2>5, <2>6, <2>7, <2>8, <2>9, <2>10, <2>11,
       <2>12, <2>13, <2>14, <2>15, <2>16 DEF CommandStep, Begins
<1>2. ASSUME NEW p \in Process, WorkStep(p) PROVE Goal
  <2>1. CASE WorkEnters(p)
    BY <2>1 DEF runtime, WorkEnters
  <2>2. CASE WorkFails(p)
    BY <2>2 DEF runtime, WorkFails
  <2>3. CASE WorkActs(p)
    BY <2>3
  <2> QED
    BY <1>2, <2>1, <2>2, <2>3 DEF WorkStep
<1>3. ASSUME NEW r \in Reconciler, RecoveryStep(r) PROVE Goal
  <2>1. CASE FenceOrphan(r)
    BY <2>1 DEF runtime, FenceOrphan
  <2>2. CASE ReadPlan(r)
    BY <2>2 DEF runtime, ReadPlan
  <2>3. CASE Classify(r)
    BY <2>3 DEF runtime, Classify
  <2>4. CASE Confirm(r)
    BY <2>4 DEF runtime, Confirm
  <2>5. CASE BeginRestoring(r)
    BY <2>5 DEF runtime, BeginRestoring
  <2>6. CASE RestoreProfile(r)
    BY <2>6 DEF runtime, RestoreProfile
  <2>7. CASE SpawnRestore(r)
    BY <2>7 DEF runtime, SpawnRestore
  <2>8. CASE Verify(r)
    BY <2>8 DEF runtime, Verify
  <2>9. CASE ReadPointer(r)
    BY <2>9 DEF runtime, ReadPointer
  <2>10. CASE RestorePointer(r)
    BY <2>10 DEF runtime, RestorePointer
  <2>11. CASE Resolve(r)
    BY <2>11 DEF runtime, Resolve
  <2>12. CASE Reopen(r)
    BY <2>12 DEF runtime, Reopen
  <2>13. CASE Close(r)
    BY <2>13 DEF runtime, Close
  <2>14. CASE RecoveryRaises(r)
    BY <2>14 DEF runtime, RecoveryRaises
  <2>15. CASE MarkRecovery(r)
    BY <2>15 DEF runtime, MarkRecovery
  <2>16. CASE Leave(r)
    BY <2>16 DEF runtime, Leave
  <2> QED
    BY <1>3, <2>1, <2>2, <2>3, <2>4, <2>5, <2>6, <2>7, <2>8, <2>9, <2>10, <2>11,
       <2>12, <2>13, <2>14, <2>15, <2>16 DEF RecoveryStep
<1>4. CASE ContainerExits
  BY <1>4 DEF ContainerExits
<1>5. CASE CandidateExits
  BY <1>5 DEF runtime, CandidateExits
<1>6. CASE SupervisorStarts
  BY <1>6
<1>7. CASE UNCHANGED vars
  BY <1>7 DEF vars
<1> QED
  BY <1>1, <1>2, <1>3, <1>4, <1>5, <1>6, <1>7 DEF Next


\* The rollout in the slot is restored where a recovery has verified it.
RestoredOK ==
  IsRollout(slot) => \A r \in Reconciler :
    rec[r].at \in {"pointer", "cas", "resolve", "reopen", "close"} =>
      /\ selection = intent[slot.id].original.selection
      /\ container \in {selection, NoModel}

\* SubjectFacts: the subject of a rollout ran when it was captured.
LEMMA SubjectFacts ==
  ASSUME BaseInv, NEW id \in Ids, intent[id].op \in RolloutOperations
  PROVE  /\ intent[id].original.healthy
         /\ intent[id].original.model = intent[id].original.selection
         /\ intent[id].original.selection \in Model
<1>1. IntentOK(id)
  BY DEF BaseInv, IntentsOK
<1> QED
  BY <1>1, RuntimeChangeAssumption DEF IntentOK, Found, RolloutOperations

\* RestoreWork: only a restore works on the runtime while a rollout is recovered.
LEMMA RestoreWork ==
  ASSUME BaseInv, NobodyOvertaken, IsRollout(slot), NEW r \in Reconciler, Busy(r),
         NEW p \in Process, WorkActs(p)
  PROVE  selection' = selection /\ container' \in {container, selection}
<1>1. PICK w \in work[p] :
        /\ w.at = "running"
        /\ \/ WorkSelects(p, w) \/ WorkStops(p, w) \/ WorkStarts(p, w)
           \/ WorkRestores(p, w) \/ ReleaseStep(p, w)
  BY DEF WorkActs
<1>2. /\ Authorized(slot, w.req) /\ IsActive(slot) /\ slot.state \in RecoveryStates
      /\ slot.id \in Ids /\ intent[slot.id].op \in RolloutOperations
  <2>1. rec[r].id = slot.id /\ IsActive(slot) /\ slot.id \in Ids
    BY ReaderFacts
  <2>2. slot.state \in RecoveryStates
    BY <2>1 DEF BaseInv, ControlOK, ReconcilerOK
  <2>3. intent[slot.id].op \in RolloutOperations
    BY RolloutFacts DEF IsRollout
  <2> QED
    BY <1>1, <2>1, <2>2, <2>3 DEF BaseInv, WorksOK, WorkOK
<1>3. w.req.id = slot.id
  BY <1>2 DEF Authorized
<1>4. p \notin Commander
  <2> SUFFICES ASSUME p \in Commander PROVE FALSE
    OBVIOUS
  <2>1. CommandWork(w)
    BY <1>1 DEF BaseInv, WorksOK, WorkOK
  <2>2. w.req.mode = "action"
    BY <1>2, <1>3, <2>1 DEF CommandWork
  <2> QED
    BY <1>2, <2>2 DEF Authorized, IsPendingAction
<1>5. ReconcilerWork(w)
  BY <1>1, <1>4 DEF BaseInv, WorksOK, WorkOK, Process
<1>6. w.does = "restore"
  BY <1>5 DEF ReconcilerWork
<1>7. WorkRestores(p, w)
  BY <1>1, <1>6
  DEF WorkSelects, WorkStops, WorkStarts, ReleaseStep, ReleaseBegins, ReleaseStops,
      ReleaseStartsCandidate, ReleaseAccepts, ReleaseStopsCandidate, ReleaseRestores
<1>8. intent[w.req.id].original.healthy
  BY <1>2, <1>3, SubjectFacts
<1> QED
  BY <1>7, <1>8 DEF WorkRestores

\* RestoredIsKept: what a recovery has verified stays so until it closes.
LEMMA RestoredIsKept ==
  BaseInv /\ NobodyOvertaken /\ RestoredOK /\ [Next]_vars => RestoredOK'
<1> SUFFICES ASSUME BaseInv, NobodyOvertaken, RestoredOK, [Next]_vars, IsRollout(slot)',
                    NEW s \in Reconciler,
                    rec'[s].at \in {"pointer", "cas", "resolve", "reopen", "close"}
             PROVE  /\ selection' = intent'[slot'.id].original.selection
                    /\ container' \in {selection', NoModel}
  BY DEF RestoredOK
<1>0. Concludes(s)
  BY Conclusions
<1>1. Busy(s)
  <2>1. CASE rec'[s].at = rec[s].at
    BY <2>1 DEF Busy
  <2>2. CASE ReadPointer(s)
    BY <2>2 DEF ReadPointer, Busy
  <2>3. CASE RestorePointer(s)
    BY <2>3 DEF RestorePointer, Busy
  <2>4. CASE Confirm(s) \/ Verify(s)
    BY <2>4 DEF Confirm, Verify, Busy
  <2>5. CASE rec[s].at \in {"resolve", "reopen"}
    BY <2>5 DEF Busy
  <2> QED
    BY <1>0, <2>1, <2>2, <2>3, <2>4, <2>5 DEF Concludes
<1>2. rec[s].id = slot.id /\ slot.id \in Ids /\ IsActive(slot)
  BY <1>1, ReaderFacts
<1>3. \A c \in Commander : ~Begins(c) /\ ~Live(c)
  <2>1. \A c \in Commander : ~Begins(c)
    BY <1>2, BeginEffect
  <2> QED
    BY <1>1, <1>2, <2>1, NobodyLive
<1>4. slot'.id = slot.id /\ intent' = intent /\ IsRollout(slot)
  BY <1>3, SlotMoves DEF SlotKept, IsRollout
<1>5. /\ selection = intent[slot.id].original.selection
      /\ container \in {selection, NoModel}
  <2>1. CASE rec[s].at \in {"pointer", "cas", "resolve", "reopen", "close"}
    BY <1>4, <2>1 DEF RestoredOK
  <2>2. CASE Confirm(s) \/ Verify(s)
    <3>1. RecoversRollout(s) /\ Recovers(s) = intent[slot.id]
      BY <1>1, <1>2, <1>4, ReaderFacts DEF Recovers
    <3>2. Restored(intent[slot.id].original)
      BY <2>2, <3>1 DEF Confirm, Verify
    <3>3. /\ intent[slot.id].original.healthy
          /\ intent[slot.id].original.model = intent[slot.id].original.selection
      BY <1>2, <3>1, SubjectFacts DEF RecoversRollout
    <3> QED
      BY <3>2, <3>3 DEF Restored
  <2>3. CASE ReadPointer(s) \/ RestorePointer(s)
    BY <2>1, <2>3 DEF ReadPointer, RestorePointer
  <2> QED
    BY <1>0, <2>1, <2>2, <2>3 DEF Concludes
<1>6. selection' = selection
  <2>1. \A c \in Commander : ~ActivateAnchor(c)
    BY <1>3 DEF ActivateAnchor, At, Live
  <2>2. ASSUME NEW r \in Reconciler, RestoreProfile(r) PROVE selection' = selection
    <3>1. Busy(r) /\ selection' = intent[rec[r].id].original.selection
      BY <2>2 DEF RestoreProfile, Busy, Recovers
    <3> QED
      BY <1>5, <3>1, ReaderFacts
  <2>3. ASSUME NEW p \in Process, WorkActs(p) PROVE selection' = selection
    BY <1>1, <1>4, <2>3, RestoreWork
  <2> QED
    BY <2>1, <2>2, <2>3, SelectionMoves
<1>7. container' \in {container, selection, NoModel}
  <2>1. ~SupervisorStarts
    BY <1>2 DEF SupervisorStarts
  <2>2. ASSUME NEW p \in Process, WorkActs(p) PROVE container' \in {container, selection}
    BY <1>1, <1>4, <2>2, RestoreWork
  <2> QED
    BY <2>1, <2>2, ContainerMoves
<1> QED
  BY <1>4, <1>5, <1>6, <1>7

\* FailureIsUndone: an upgrade or a rollback that ended failed-restored left the runtime it
\* captured selected, and running if anything runs.
THEOREM FailureIsUndone ==
  Spec /\ []NobodyOvertaken =>
    [][EndsAs("failed-restored") /\ IsRollout(slot) =>
         /\ selection = intent[slot.id].original.selection
         /\ container \in {intent[slot.id].original.model, NoModel}]_vars
<1> DEFINE Undone == EndsAs("failed-restored") /\ IsRollout(slot) =>
             /\ selection = intent[slot.id].original.selection
             /\ container \in {intent[slot.id].original.model, NoModel}
<1>1. Init => RestoredOK
  BY DEF Init, RestoredOK, NoDoc, IsRollout, RolloutOperations
<1>2. BaseInv /\ NobodyOvertaken /\ RestoredOK /\ [Next]_vars => RestoredOK'
  BY RestoredIsKept
<1>3. BaseInv /\ NobodyOvertaken /\ RestoredOK /\ [Next]_vars => [Undone]_vars
  <2> SUFFICES ASSUME BaseInv, RestoredOK, [Next]_vars, EndsAs("failed-restored"),
                      IsRollout(slot)
               PROVE  /\ selection = intent[slot.id].original.selection
                      /\ container \in {intent[slot.id].original.model, NoModel}
    OBVIOUS
  <2>1. PICK r \in Reconciler : Close(r)
    BY Verdicts
  <2>2. rec[r].at = "close" /\ slot.id \in Ids
    BY <2>1, CloseFacts
  <2>3. intent[slot.id].original.model = intent[slot.id].original.selection
    BY <2>2, RolloutFacts, SubjectFacts DEF IsRollout
  <2> QED
    BY <2>2, <2>3 DEF RestoredOK
<1> QED
  BY <1>1, <1>2, <1>3, BaseIsInvariant, PTL DEF Spec

\* What begins is one of the commands that are run.
OnlyCommands == \A id \in Ids : intent[id].op \in Commands \union {"none"}

\* FrozenOperation: a transaction is of an operation that is run.
LEMMA FrozenOperation ==
  ASSUME BaseInv, NEW c \in Commander, Begins(c)
  PROVE  intent'[slot.id + 1].op \in Commands
<1>1. slot.id + 1 \in Ids /\ intent \in [Ids -> Intents]
  BY BeginEffect DEF BaseInv, VarsOK
<1>2. ASSUME NEW it, it.op \in Commands, BeginWith(c, it)
      PROVE  intent'[slot.id + 1].op \in Commands
  BY <1>1, <1>2 DEF BeginWith
<1>3. CASE \E target \in Model : BeginDeploy(c, target)
  <2>1. PICK target \in Model : BeginDeploy(c, target)
    BY <1>3
  <2>2. [NoIntent EXCEPT !.op = "deploy", !.target = target,
                         !.original = cmd[c].original].op = "deploy"
    BY DEF NoIntent
  <2> QED
    BY <1>2, <2>1, <2>2 DEF BeginDeploy
<1>4. CASE \E target \in Model : BeginUpgrade(c, target)
  <2>1. PICK target \in Model : BeginUpgrade(c, target)
    BY <1>4
  <2>2. RolloutIntent("upgrade", Current, target, slot.id + 1).op = "upgrade"
    BY DEF RolloutIntent
  <2> QED
    BY <1>2, <2>1, <2>2 DEF BeginUpgrade
<1>5. CASE BeginRollback(c)
  <2>1. PICK o, t, s : BeginWith(c, RolloutIntent("rollback", o, t, s))
    BY <1>5 DEF BeginRollback
  <2>2. RolloutIntent("rollback", o, t, s).op = "rollback" /\ "rollback" \in Commands
    BY <1>5 DEF RolloutIntent, BeginRollback
  <2> QED
    BY <1>2, <2>1, <2>2
<1>6. CASE BeginRelease(c)
  <2>1. [NoIntent EXCEPT !.op = "release", !.original = cmd[c].original].op = "release"
    BY DEF NoIntent
  <2> QED
    BY <1>2, <1>6, <2>1 DEF BeginRelease
<1>7. CASE BeginProfile(c)
  <2>1. [NoIntent EXCEPT !.op = "profile", !.original = cmd[c].original].op = "profile"
    BY DEF NoIntent
  <2> QED
    BY <1>2, <1>7, <2>1 DEF BeginProfile
<1> QED
  BY <1>3, <1>4, <1>5, <1>6, <1>7 DEF Begins

\* OnlyTheCommands: no transaction is of another operation.
LEMMA OnlyTheCommands == Spec => []OnlyCommands
<1>1. Init => OnlyCommands
  BY DEF Init, OnlyCommands, NoIntent
<1>2. BaseInv /\ OnlyCommands /\ [Next]_vars => OnlyCommands'
  <2> SUFFICES ASSUME BaseInv, OnlyCommands, [Next]_vars PROVE OnlyCommands'
    OBVIOUS
  <2>1. CASE \E c \in Commander : Begins(c)
    <3>1. PICK c \in Commander : Begins(c)
      BY <2>1
    <3>2. \A i \in Ids \ {slot.id + 1} : intent'[i] = intent[i]
      BY <3>1, BeginEffect
    <3>3. intent'[slot.id + 1].op \in Commands
      BY <3>1, FrozenOperation
    <3> QED
      BY <3>2, <3>3 DEF OnlyCommands
  <2>2. CASE SlotKept
    BY <2>2 DEF SlotKept, OnlyCommands
  <2> QED
    BY <2>1, <2>2, SlotMoves
<1> QED
  BY <1>1, <1>2, BaseIsInvariant, PTL DEF Spec

\* FailuresAreUndone: where upgrades and rollbacks are all that is run, every change that
\* ended failed-restored is undone.
THEOREM FailuresAreUndone ==
  ASSUME Commands \subseteq RolloutOperations
  PROVE  Spec /\ []NobodyOvertaken => FailedIsUndone
<1>1. BaseInv /\ OnlyCommands /\ [Next]_vars /\ EndsAs("failed-restored") => IsRollout(slot)
  <2> SUFFICES ASSUME BaseInv, OnlyCommands, [Next]_vars, EndsAs("failed-restored")
               PROVE  IsRollout(slot)
    OBVIOUS
  <2>1. PICK r \in Reconciler : Close(r)
    BY Verdicts
  <2>2. slot.id \in Ids /\ slot.id # 0
    BY <2>1, CloseFacts, RuntimeChangeAssumption DEF Ids
  <2>3. slot.op = intent[slot.id].op /\ slot.op # "none"
    BY <2>2, RuntimeChangeAssumption
    DEF BaseInv, SlotOK, IntentsOK, IntentOK, VarsOK, Docs
  <2> QED
    BY <2>2, <2>3 DEF OnlyCommands, IsRollout
<1>2. BaseInv /\ OnlyCommands /\ [Next]_vars
        /\ [EndsAs("failed-restored") /\ IsRollout(slot) =>
              /\ selection = intent[slot.id].original.selection
              /\ container \in {intent[slot.id].original.model, NoModel}]_vars
      => [EndsAs("failed-restored") =>
              /\ selection = intent[slot.id].original.selection
              /\ container \in {intent[slot.id].original.model, NoModel}]_vars
  BY <1>1
<1> QED
  BY <1>2, OnlyTheCommands, FailureIsUndone, BaseIsInvariant, PTL DEF Spec, FailedIsUndone

\* WorkSelectsFacts: work that selects a model is that of the open transaction, and selects
\* its target.
LEMMA WorkSelectsFacts ==
  ASSUME BaseInv, NEW p \in Process, WorkActs(p), selection' # selection
  PROVE  IsActive(slot) /\ selection' = intent[slot.id].target
<1>1. PICK w \in work[p] :
        w.at = "running" /\ w.does = "activate-target" /\ selection' = w.model
  BY ActsEffect
<1>2. Authorized(slot, w.req)
  BY <1>1 DEF BaseInv, WorksOK, WorkOK
<1>3. p \in Commander
  BY <1>1 DEF BaseInv, WorksOK, WorkOK, ReconcilerWork, Process
<1>4. CommandWork(w)
  BY <1>1, <1>3 DEF BaseInv, WorksOK, WorkOK
<1>5. w.req.id \in 1 .. slot.id /\ intent[w.req.id].op \in Operations
  BY <1>4, OperationOf DEF CommandWork
<1>6. intent[w.req.id].op \in TargetOperations /\ w.model = intent[w.req.id].target
  BY <1>1, <1>4, <1>5 DEF CommandWork, Operations, TargetOperations, ReleaseSteps
<1>7. w.req.mode # "unbound"
  BY <1>4 DEF CommandWork, Presented
<1> QED
  BY <1>1, <1>2, <1>6, <1>7 DEF Authorized

\* SelectionFacts: the selection moves for the open transaction alone.
LEMMA SelectionFacts ==
  BaseInv /\ NobodyOvertaken /\ [Next]_vars => SelectionIsOwned
<1> SUFFICES ASSUME BaseInv, NobodyOvertaken, [Next]_vars, selection' # selection
             PROVE  /\ IsActive(slot)
                    /\ selection' \in {intent[slot.id].target,
                                       intent[slot.id].original.selection}
  BY DEF SelectionIsOwned
<1>1. ASSUME NEW c \in Commander, ActivateAnchor(c)
      PROVE  IsActive(slot) /\ selection' = intent[slot.id].original.selection
  <2>1. /\ Live(c) /\ Mine(c).op = "rollback"
        /\ selection' = intent[Mine(c).spec].original.selection
    BY <1>1 DEF ActivateAnchor, AnchorOriginal, At, Live
  <2>2. slot.id \in Ids /\ Mine(c) = intent[slot.id] /\ IsActive(slot)
    BY <2>1, MineFacts, LiveFacts
  <2>3. IntentOK(slot.id)
    BY <2>2 DEF BaseInv, IntentsOK
  <2> QED
    BY <2>1, <2>2, <2>3 DEF IntentOK
<1>2. ASSUME NEW r \in Reconciler, RestoreProfile(r)
      PROVE  IsActive(slot) /\ selection' = intent[slot.id].original.selection
  <2>1. Busy(r) /\ selection' = intent[rec[r].id].original.selection
    BY <1>2 DEF RestoreProfile, Busy, Recovers
  <2> QED
    BY <2>1, ReaderFacts
<1>3. ASSUME NEW p \in Process, WorkActs(p)
      PROVE  IsActive(slot) /\ selection' = intent[slot.id].target
  BY <1>3, WorkSelectsFacts
<1> QED
  BY <1>1, <1>2, <1>3, SelectionMoves

\* SelectionStaysOwned: whatever is run, the selection moves for the open transaction
\* alone, to the model it deploys or to the one it recovers.
THEOREM SelectionStaysOwned == Spec /\ []NobodyOvertaken => [][SelectionIsOwned]_vars
<1>1. BaseInv /\ NobodyOvertaken /\ [Next]_vars => [SelectionIsOwned]_vars
  BY SelectionFacts
<1> QED
  BY <1>1, BaseIsInvariant, PTL DEF Spec

--------------------------------------------------------------------------------
(* Recovery has the runtime to itself                                      *)

\* FencedFacts: what a rollout left behind does not enter the runtime once it is fenced.
LEMMA FencedFacts ==
  ASSUME BaseInv, [Next]_vars, NEW c \in Commander, NEW w \in work'[c],
         w.at = "running", w \notin work[c],
         intent[w.req.id].op \in RolloutOperations
  PROVE  slot.state \notin RecoveryStates
<1>1. PICK p \in Process : Turns(p)
  BY WorkMoves, ProcessesDiffer
<1>2. p = c
  BY <1>1, ProcessesDiffer DEF Turns
<1>3. PICK u \in work[c] : w.req = u.req /\ Authorized(slot, u.req)
  <2>1. ~\E v \in Works : work'[c] = {v} /\ Starts(c, v)
    BY DEF Starts
  <2>2. PICK u \in work[c], v \in Works :
          /\ work'[c] = {v} /\ Follows(v, u)
          /\ u.at = "running" \/ (LocksFree /\ Authorized(slot, u.req))
    BY <1>1, <1>2, <2>1 DEF Turns
  <2>3. Authorized(slot, u.req)
    BY <2>2, ProcessesDiffer DEF BaseInv, WorksOK, WorkOK
  <2> QED
    BY <2>2, <2>3 DEF Follows
<1>4. u.req.mode = "action"
  BY <1>3, ProcessesDiffer DEF BaseInv, WorksOK, WorkOK, CommandWork
<1> QED
  BY <1>3, <1>4 DEF Authorized, IsPendingAction

\* Confirming: a recovery that only has to confirm was classified so.
LEMMA Confirming ==
  BaseInv /\ [Next]_vars =>
    \A s \in Reconciler : rec'[s].at = "confirm" => rec'[s] = rec[s] \/ Classify(s)
<1> DEFINE Goal ==
      \A s \in Reconciler : rec'[s].at = "confirm" => rec'[s] = rec[s] \/ Classify(s)
<1> SUFFICES ASSUME BaseInv, [Next]_vars PROVE Goal
  OBVIOUS
<1>0. VarsOK /\ SlotOK /\ IntentsOK /\ ControlOK /\ WorksOK
  BY DEF BaseInv
<1>1. ASSUME NEW c \in Commander, CommandStep(c) PROVE Goal
  <2>1. CASE CaptureOriginal(c)
    BY <2>1 DEF CaptureOriginal
  <2>2. CASE Begins(c)
    BY <2>2, BeginEffect
  <2>3. CASE Enter(c)
    BY <2>3 DEF CommandTransition, Enter
  <2>4. CASE Fetch(c)
    BY <2>4 DEF Fetch
  <2>5. CASE QuickPasses(c)
    BY <2>5 DEF QuickPasses
  <2>6. CASE SpawnWork(c)
    BY <2>6 DEF SpawnWork
  <2>7. CASE ActivateAnchor(c)
    BY <2>7 DEF ActivateAnchor
  <2>8. CASE VerifyRelease(c)
    BY <2>8 DEF VerifyRelease
  <2>9. CASE AssertPointerAction(c)
    BY <2>9 DEF AssertPointerAction
  <2>10. CASE PublishRollback(c)
    BY <2>10 DEF PublishRollback
  <2>11. CASE ClearRollback(c)
    BY <2>11 DEF ClearRollback
  <2>12. CASE Journal(c)
    BY <2>12 DEF Journal
  <2>13. CASE Complete(c)
    BY <2>13 DEF CommandTransition, Complete
  <2>14. CASE Raise(c)
    BY <2>14 DEF Raise
  <2>15. CASE Mark(c)
    BY <2>15 DEF Mark
  <2>16. CASE Die(c)
    BY <2>16 DEF Die
  <2> QED
    BY <1>1, <2>1, <2>2, <2>3, <2>4, <2>5, <2>6, <2>7, <2>8, <2>9, <2>10, <2>11,
       <2>12, <2>13, <2>14, <2>15, <2>16 DEF CommandStep, Begins
<1>2. ASSUME NEW p \in Process, WorkStep(p) PROVE Goal
  <2>1. CASE WorkEnters(p)
    BY <2>1 DEF WorkEnters
  <2>2. CASE WorkFails(p)
    BY <1>0, <2>2, WorkOverEffect, ProcessesDiffer DEF WorkFails
  <2>3. CASE WorkActs(p)
    <3>1. UNCHANGED rec \/ \E ok \in BOOLEAN : WorkOver(p, ok)
      BY <2>3, ActsEffect
    <3> QED
      BY <1>0, <3>1, WorkOverEffect, ProcessesDiffer
  <2> QED
    BY <1>2, <2>1, <2>2, <2>3 DEF WorkStep
<1>3. ASSUME NEW r \in Reconciler, RecoveryStep(r) PROVE Goal
  <2>1. CASE FenceOrphan(r)
    <3>1. rec'[r].at # "confirm" /\ \A s \in Reconciler \ {r} : rec'[s] = rec[s]
      BY <1>0, <2>1, GoesEffect DEF FenceOrphan, Places
    <3> QED
      BY <3>1
  <2>2. CASE ReadPlan(r)
    <3>1. rec'[r].at # "confirm" /\ \A s \in Reconciler \ {r} : rec'[s] = rec[s]
      BY <1>0, <2>2 DEF ReadPlan, VarsOK, Recs, Away
    <3> QED
      BY <3>1
  <2>3. CASE Classify(r)
    <3>1. \A s \in Reconciler \ {r} : rec'[s] = rec[s]
      BY <1>0, <2>3, GoesEffect DEF Classify, Places
    <3> QED
      BY <2>3, <3>1
  <2>4. CASE Confirm(r)
    <3>1. rec'[r].at # "confirm" /\ \A s \in Reconciler \ {r} : rec'[s] = rec[s]
      BY <1>0, <2>4, GoesEffect DEF Confirm, Places
    <3> QED
      BY <3>1
  <2>5. CASE BeginRestoring(r)
    <3>1. rec'[r].at # "confirm" /\ \A s \in Reconciler \ {r} : rec'[s] = rec[s]
      BY <1>0, <2>5, GoesEffect DEF BeginRestoring, Places
    <3> QED
      BY <3>1
  <2>6. CASE RestoreProfile(r)
    <3>1. rec'[r].at # "confirm" /\ \A s \in Reconciler \ {r} : rec'[s] = rec[s]
      BY <1>0, <2>6 DEF RestoreProfile, VarsOK, Recs, Away
    <3> QED
      BY <3>1
  <2>7. CASE SpawnRestore(r)
    <3>1. rec'[r].at # "confirm" /\ \A s \in Reconciler \ {r} : rec'[s] = rec[s]
      BY <1>0, <2>7, GoesEffect DEF SpawnRestore, Places
    <3> QED
      BY <3>1
  <2>8. CASE Verify(r)
    <3>1. rec'[r].at # "confirm" /\ \A s \in Reconciler \ {r} : rec'[s] = rec[s]
      BY <1>0, <2>8, GoesEffect DEF Verify, Places
    <3> QED
      BY <3>1
  <2>9. CASE ReadPointer(r)
    <3>1. rec'[r].at # "confirm" /\ \A s \in Reconciler \ {r} : rec'[s] = rec[s]
      BY <1>0, <2>9, GoesEffect DEF ReadPointer, Places
    <3> QED
      BY <3>1
  <2>10. CASE RestorePointer(r)
    <3>1. rec'[r].at # "confirm" /\ \A s \in Reconciler \ {r} : rec'[s] = rec[s]
      BY <1>0, <2>10, GoesEffect DEF RestorePointer, Places
    <3> QED
      BY <3>1
  <2>11. CASE Resolve(r)
    <3>1. rec'[r].at # "confirm" /\ \A s \in Reconciler \ {r} : rec'[s] = rec[s]
      BY <1>0, <2>11, GoesEffect DEF Resolve, Places
    <3> QED
      BY <3>1
  <2>12. CASE Reopen(r)
    <3>1. rec'[r].at # "confirm" /\ \A s \in Reconciler \ {r} : rec'[s] = rec[s]
      BY <1>0, <2>12, GoesEffect DEF Reopen, Places
    <3> QED
      BY <3>1
  <2>13. CASE Close(r)
    <3>1. rec'[r].at # "confirm" /\ \A s \in Reconciler \ {r} : rec'[s] = rec[s]
      BY <1>0, <2>13 DEF Close, VarsOK, Recs, Away
    <3> QED
      BY <3>1
  <2>14. CASE RecoveryRaises(r)
    <3>1. rec'[r].at # "confirm" /\ \A s \in Reconciler \ {r} : rec'[s] = rec[s]
      BY <1>0, <2>14, GoesEffect DEF RecoveryRaises, Places
    <3> QED
      BY <3>1
  <2>15. CASE MarkRecovery(r)
    <3>1. rec'[r].at # "confirm" /\ \A s \in Reconciler \ {r} : rec'[s] = rec[s]
      BY <1>0, <2>15 DEF MarkRecovery, VarsOK, Recs, Away
    <3> QED
      BY <3>1
  <2>16. CASE Leave(r)
    <3>1. rec'[r].at # "confirm" /\ \A s \in Reconciler \ {r} : rec'[s] = rec[s]
      BY <1>0, <2>16 DEF Leave, VarsOK, Recs, Away
    <3> QED
      BY <3>1
  <2> QED
    BY <1>3, <2>1, <2>2, <2>3, <2>4, <2>5, <2>6, <2>7, <2>8, <2>9, <2>10, <2>11,
       <2>12, <2>13, <2>14, <2>15, <2>16 DEF RecoveryStep
<1>4. CASE ContainerExits
  BY <1>4 DEF ContainerExits
<1>5. CASE CandidateExits
  BY <1>5 DEF CandidateExits
<1>6. CASE SupervisorStarts
  BY <1>6 DEF SupervisorStarts
<1>7. CASE UNCHANGED vars
  BY <1>7 DEF vars
<1> QED
  BY <1>1, <1>2, <1>3, <1>4, <1>5, <1>6, <1>7 DEF Next


\* ConfirmedFacts: the subject of a rollout counts as restored only while it is selected.
LEMMA ConfirmedFacts ==
  ASSUME BaseInv, [Next]_vars, NEW r \in Reconciler,
         rec[r].at = "planned", rec'[r].at = "confirm", RecoversRollout(r)
  PROVE  selection = Recovers(r).original.selection
<1>1. Classify(r) /\ Busy(r)
  BY Confirming DEF Busy
<1>2. rec[r].id \in Ids
  BY <1>1, RecoversFacts
<1>3. Recovers(r).original.healthy /\ Recovers(r).original.model = Recovers(r).original.selection
  BY <1>2, SubjectFacts DEF RecoversRollout, Recovers
<1>4. CASE Restored(Recovers(r).original)
  BY <1>3, <1>4 DEF Restored
<1>5. CASE ~Restored(Recovers(r).original)
  <2>1. Goes(r, "restore")
    BY <1>1, <1>5 DEF Classify
  <2>2. rec'[r].at = "restore"
    BY <2>1, GoesEffect DEF Places, BaseInv
  <2> QED
    BY <2>2
<1> QED
  BY <1>4, <1>5

\* RolloutsAreRecovered: where upgrades and rollbacks are all that is run, recovery has the
\* runtime to itself: only the open transaction moves the selection, nothing its command
\* left behind enters the runtime once it is fenced, and the subject is confirmed only
\* while it is selected.
THEOREM RolloutsAreRecovered ==
  ASSUME Commands \subseteq RolloutOperations
  PROVE  Spec /\ []NobodyOvertaken => RecoveryIsExclusive
<1>1. BaseInv /\ OnlyCommands =>
        \A id \in 1 .. slot.id : intent[id].op \in RolloutOperations
  BY OperationOf DEF OnlyCommands, Operations
<1>2. BaseInv /\ OnlyCommands /\ [Next]_vars => FencedWorkIsOver
  <2> SUFFICES ASSUME BaseInv, OnlyCommands, [Next]_vars, NEW c \in Commander,
                      NEW w \in work'[c], w.at = "running", w \notin work[c]
               PROVE  slot.state \notin RecoveryStates
    BY DEF FencedWorkIsOver
  <2>1. PICK p \in Process : Turns(p)
    BY WorkMoves, ProcessesDiffer
  <2>2. p = c
    BY <2>1, ProcessesDiffer DEF Turns
  <2>3. ~\E v \in Works : work'[c] = {v} /\ Starts(c, v)
    BY DEF Starts
  <2>4. \E u \in work[c] : w.req = u.req
    BY <2>1, <2>2, <2>3 DEF Turns, Follows
  <2>5. w.req.id \in 1 .. slot.id
    BY <2>4, ProcessesDiffer DEF BaseInv, WorksOK, WorkOK, CommandWork
  <2> QED
    BY <1>1, <2>5, FencedFacts
<1>3. BaseInv /\ OnlyCommands /\ [Next]_vars => ConfirmedIsOriginal
  <2> SUFFICES ASSUME BaseInv, OnlyCommands, [Next]_vars, NEW r \in Reconciler,
                      rec[r].at = "planned", rec'[r].at = "confirm"
               PROVE  selection = Recovers(r).original.selection
    BY DEF ConfirmedIsOriginal
  <2>1. rec[r].id \in 1 .. slot.id
    BY DEF BaseInv, ControlOK, ReconcilerOK, Busy
  <2> QED
    BY <1>1, <2>1, ConfirmedFacts DEF RecoversRollout, Recovers
<1>4. BaseInv /\ OnlyCommands /\ NobodyOvertaken /\ [Next]_vars
        => [SelectionIsOwned /\ FencedWorkIsOver /\ ConfirmedIsOriginal]_vars
  BY <1>2, <1>3, SelectionFacts
<1> QED
  BY <1>4, OnlyTheCommands, BaseIsInvariant, PTL DEF Spec, RecoveryIsExclusive

--------------------------------------------------------------------------------
(* What a command has brought about                                        *)

\* CandidateMoves: runtime work starts a candidate; one may always stop.
LEMMA CandidateMoves ==
  BaseInv /\ [Next]_vars =>
    \/ candidate' \in {candidate, "none"}
    \/ \E p \in Process : WorkActs(p)
<1> DEFINE Goal ==
      \/ candidate' \in {candidate, "none"}
      \/ \E p \in Process : WorkActs(p)
<1> SUFFICES ASSUME BaseInv, [Next]_vars PROVE Goal
  OBVIOUS
<1>0. VarsOK /\ SlotOK /\ IntentsOK /\ ControlOK /\ WorksOK
  BY DEF BaseInv
<1>1. ASSUME NEW c \in Commander, CommandStep(c) PROVE Goal
  <2>1. CASE CaptureOriginal(c)
    BY <2>1 DEF runtime, CaptureOriginal
  <2>2. CASE Begins(c)
    BY <2>2, BeginEffect
  <2>3. CASE Enter(c)
    BY <2>3 DEF runtime, CommandTransition, Enter
  <2>4. CASE Fetch(c)
    BY <2>4 DEF runtime, Fetch
  <2>5. CASE QuickPasses(c)
    BY <2>5 DEF runtime, QuickPasses
  <2>6. CASE SpawnWork(c)
    BY <2>6 DEF runtime, SpawnWork
  <2>7. CASE ActivateAnchor(c)
    BY <2>7 DEF runtime, ActivateAnchor
  <2>8. CASE VerifyRelease(c)
    BY <2>8 DEF runtime, VerifyRelease
  <2>9. CASE AssertPointerAction(c)
    BY <2>9 DEF runtime, AssertPointerAction
  <2>10. CASE PublishRollback(c)
    BY <2>10 DEF runtime, PublishRollback
  <2>11. CASE ClearRollback(c)
    BY <2>11 DEF runtime, ClearRollback
  <2>12. CASE Journal(c)
    BY <2>12 DEF runtime, Journal
  <2>13. CASE Complete(c)
    BY <2>13 DEF runtime, CommandTransition, Complete
  <2>14. CASE Raise(c)
    BY <2>14 DEF runtime, Raise
  <2>15. CASE Mark(c)
    BY <2>15 DEF runtime, Mark
  <2>16. CASE Die(c)
    BY <2>16 DEF runtime, Die
  <2> QED
    BY <1>1, <2>1, <2>2, <2>3, <2>4, <2>5, <2>6, <2>7, <2>8, <2>9, <2>10, <2>11,
       <2>12, <2>13, <2>14, <2>15, <2>16 DEF CommandStep, Begins
<1>2. ASSUME NEW p \in Process, WorkStep(p) PROVE Goal
  <2>1. CASE WorkEnters(p)
    BY <2>1 DEF runtime, WorkEnters
  <2>2. CASE WorkFails(p)
    BY <2>2 DEF runtime, WorkFails
  <2>3. CASE WorkActs(p)
    BY <2>3
  <2> QED
    BY <1>2, <2>1, <2>2, <2>3 DEF WorkStep
<1>3. ASSUME NEW r \in Reconciler, RecoveryStep(r) PROVE Goal
  <2>1. CASE FenceOrphan(r)
    BY <2>1 DEF runtime, FenceOrphan
  <2>2. CASE ReadPlan(r)
    BY <2>2 DEF runtime, ReadPlan
  <2>3. CASE Classify(r)
    BY <2>3 DEF runtime, Classify
  <2>4. CASE Confirm(r)
    BY <2>4 DEF runtime, Confirm
  <2>5. CASE BeginRestoring(r)
    BY <2>5 DEF runtime, BeginRestoring
  <2>6. CASE RestoreProfile(r)
    BY <2>6 DEF runtime, RestoreProfile
  <2>7. CASE SpawnRestore(r)
    BY <2>7 DEF runtime, SpawnRestore
  <2>8. CASE Verify(r)
    BY <2>8 DEF runtime, Verify
  <2>9. CASE ReadPointer(r)
    BY <2>9 DEF runtime, ReadPointer
  <2>10. CASE RestorePointer(r)
    BY <2>10 DEF runtime, RestorePointer
  <2>11. CASE Resolve(r)
    BY <2>11 DEF runtime, Resolve
  <2>12. CASE Reopen(r)
    BY <2>12 DEF runtime, Reopen
  <2>13. CASE Close(r)
    BY <2>13 DEF runtime, Close
  <2>14. CASE RecoveryRaises(r)
    BY <2>14 DEF runtime, RecoveryRaises
  <2>15. CASE MarkRecovery(r)
    BY <2>15 DEF runtime, MarkRecovery
  <2>16. CASE Leave(r)
    BY <2>16 DEF runtime, Leave
  <2> QED
    BY <1>3, <2>1, <2>2, <2>3, <2>4, <2>5, <2>6, <2>7, <2>8, <2>9, <2>10, <2>11,
       <2>12, <2>13, <2>14, <2>15, <2>16 DEF RecoveryStep
<1>4. CASE ContainerExits
  BY <1>4 DEF ContainerExits
<1>5. CASE CandidateExits
  BY <1>5 DEF CandidateExits
<1>6. CASE SupervisorStarts
  BY <1>6 DEF SupervisorStarts
<1>7. CASE UNCHANGED vars
  BY <1>7 DEF vars
<1> QED
  BY <1>1, <1>2, <1>3, <1>4, <1>5, <1>6, <1>7 DEF Next

\* WorkTurns: the work of a command is changed by the command and by itself.
LEMMA WorkTurns ==
  BaseInv /\ [Next]_vars =>
    \A d \in Commander : work'[d] # work[d] =>
      SpawnWork(d) \/ Raise(d) \/ WorkEnters(d) \/ WorkFails(d) \/ WorkActs(d)
<1> DEFINE Goal ==
      \A d \in Commander : work'[d] # work[d] =>
        SpawnWork(d) \/ Raise(d) \/ WorkEnters(d) \/ WorkFails(d) \/ WorkActs(d)
<1> SUFFICES ASSUME BaseInv, [Next]_vars PROVE Goal
  OBVIOUS
<1>0. VarsOK /\ SlotOK /\ IntentsOK /\ ControlOK /\ WorksOK
  BY DEF BaseInv
<1>1. ASSUME NEW c \in Commander, CommandStep(c) PROVE Goal
  <2>1. CASE CaptureOriginal(c)
    BY <2>1 DEF CaptureOriginal
  <2>2. CASE Begins(c)
    BY <2>2, BeginEffect
  <2>3. CASE Enter(c)
    BY <2>3 DEF CommandTransition, Enter
  <2>4. CASE Fetch(c)
    BY <2>4 DEF Fetch
  <2>5. CASE QuickPasses(c)
    BY <2>5 DEF QuickPasses
  <2>6. CASE SpawnWork(c)
    <3>1. \A d \in Commander \ {c} : work'[d] = work[d]
      BY <1>0, <2>6 DEF SpawnWork, VarsOK
    <3> QED
      BY <2>6, <3>1
  <2>7. CASE ActivateAnchor(c)
    BY <2>7 DEF ActivateAnchor
  <2>8. CASE VerifyRelease(c)
    BY <2>8 DEF VerifyRelease
  <2>9. CASE AssertPointerAction(c)
    BY <2>9 DEF AssertPointerAction
  <2>10. CASE PublishRollback(c)
    BY <2>10 DEF PublishRollback
  <2>11. CASE ClearRollback(c)
    BY <2>11 DEF ClearRollback
  <2>12. CASE Journal(c)
    BY <2>12 DEF Journal
  <2>13. CASE Complete(c)
    BY <2>13 DEF CommandTransition, Complete
  <2>14. CASE Raise(c)
    <3>1. \A d \in Commander \ {c} : work'[d] = work[d]
      BY <1>0, <2>14 DEF Raise, VarsOK
    <3> QED
      BY <2>14, <3>1
  <2>15. CASE Mark(c)
    BY <2>15 DEF Mark
  <2>16. CASE Die(c)
    BY <2>16 DEF Die
  <2> QED
    BY <1>1, <2>1, <2>2, <2>3, <2>4, <2>5, <2>6, <2>7, <2>8, <2>9, <2>10, <2>11,
       <2>12, <2>13, <2>14, <2>15, <2>16 DEF CommandStep, Begins
<1>2. ASSUME NEW p \in Process, WorkStep(p) PROVE Goal
  <2>1. CASE WorkEnters(p)
    <3>1. \A d \in Commander \ {p} : work'[d] = work[d]
      BY <1>0, <2>1 DEF WorkEnters, VarsOK
    <3> QED
      BY <2>1, <3>1
  <2>2. CASE WorkFails(p)
    <3>1. \A d \in Commander \ {p} : work'[d] = work[d]
      <4>1. WorkOver(p, FALSE)
        BY <2>2 DEF WorkFails
      <4>2. work' = [work EXCEPT ![p] = {}]
        BY <1>0, <4>1, WorkOverEffect
      <4> QED
        BY <1>0, <4>2 DEF VarsOK
    <3> QED
      BY <2>2, <3>1
  <2>3. CASE WorkActs(p)
    <3>1. \A d \in Commander \ {p} : work'[d] = work[d]
      <4>1. \E next : work' = [work EXCEPT ![p] = next]
        BY <1>0, <2>3, ActsEffect, WorkOverEffect
      <4> QED
        BY <1>0, <4>1 DEF VarsOK
    <3> QED
      BY <2>3, <3>1
  <2> QED
    BY <1>2, <2>1, <2>2, <2>3 DEF WorkStep
<1>3. ASSUME NEW r \in Reconciler, RecoveryStep(r) PROVE Goal
  <2>1. CASE FenceOrphan(r)
    BY <2>1 DEF FenceOrphan
  <2>2. CASE ReadPlan(r)
    BY <2>2 DEF ReadPlan
  <2>3. CASE Classify(r)
    BY <2>3 DEF Classify
  <2>4. CASE Confirm(r)
    BY <2>4 DEF Confirm
  <2>5. CASE BeginRestoring(r)
    BY <2>5 DEF BeginRestoring
  <2>6. CASE RestoreProfile(r)
    BY <2>6 DEF RestoreProfile
  <2>7. CASE SpawnRestore(r)
    BY <1>0, <2>7, ProcessesDiffer DEF SpawnRestore, VarsOK
  <2>8. CASE Verify(r)
    BY <2>8 DEF Verify
  <2>9. CASE ReadPointer(r)
    BY <2>9 DEF ReadPointer
  <2>10. CASE RestorePointer(r)
    BY <2>10 DEF RestorePointer
  <2>11. CASE Resolve(r)
    BY <2>11 DEF Resolve
  <2>12. CASE Reopen(r)
    BY <2>12 DEF Reopen
  <2>13. CASE Close(r)
    BY <2>13 DEF Close
  <2>14. CASE RecoveryRaises(r)
    BY <1>0, <2>14, ProcessesDiffer DEF RecoveryRaises, VarsOK
  <2>15. CASE MarkRecovery(r)
    BY <2>15 DEF MarkRecovery
  <2>16. CASE Leave(r)
    BY <2>16 DEF Leave
  <2> QED
    BY <1>3, <2>1, <2>2, <2>3, <2>4, <2>5, <2>6, <2>7, <2>8, <2>9, <2>10, <2>11,
       <2>12, <2>13, <2>14, <2>15, <2>16 DEF RecoveryStep
<1>4. CASE ContainerExits
  BY <1>4 DEF ContainerExits
<1>5. CASE CandidateExits
  BY <1>5 DEF CandidateExits
<1>6. CASE SupervisorStarts
  BY <1>6 DEF SupervisorStarts
<1>7. CASE UNCHANGED vars
  BY <1>7 DEF vars
<1> QED
  BY <1>1, <1>2, <1>3, <1>4, <1>5, <1>6, <1>7 DEF Next


\* LiveWorkActs: while a command goes on, nothing but its own work acts on the runtime.
LEMMA LiveWorkActs ==
  ASSUME BaseInv, NEW c \in Commander, Live(c), NEW p \in Process, WorkActs(p)
  PROVE  p = c /\ cmd[c].at \in {"wait", "failing"}
<1>1. PICK w \in work[p] : w.at = "running"
  BY ActsEffect
<1>2. w.req.id = slot.id /\ slot.id \in Nat
  <2>1. Authorized(slot, w.req) /\ IsActive(slot)
    BY <1>1, LiveFacts DEF BaseInv, WorksOK, WorkOK
  <2> QED
    BY <2>1 DEF Authorized, BaseInv, VarsOK, Docs
<1>3. WorkOfLive(c) /\ ~(w.req.id < slot.id)
  BY <1>2 DEF BaseInv, WorksOK
<1>4. p = c
  BY <1>3 DEF WorkOfLive
<1>5. cmd[c].at \in {"act", "publish", "journal", "wait", "failing"}
  BY DEF Live, BaseInv, VarsOK, Cmds
<1> QED
  BY <1>3, <1>4, <1>5 DEF WorkOfLive

\* RuntimeIsMine: while a command goes on, nobody else selects a model or starts a
\* container.
LEMMA RuntimeIsMine ==
  ASSUME BaseInv, NobodyOvertaken, [Next]_vars, NEW c \in Commander, Live(c)
  PROVE  \/ ActivateAnchor(c)
         \/ WorkActs(c) /\ cmd[c].at \in {"wait", "failing"}
         \/ /\ selection' = selection
            /\ container' \in {container, NoModel}
            /\ candidate' \in {candidate, "none"}
<1>1. CASE \E p \in Process : WorkActs(p)
  BY <1>1, LiveWorkActs
<1>2. CASE \E d \in Commander : ActivateAnchor(d)
  <2>1. PICK d \in Commander : ActivateAnchor(d)
    BY <1>2
  <2>2. Live(d)
    BY <2>1 DEF ActivateAnchor, At, Live
  <2> QED
    BY <2>1, <2>2, LiveFacts
<1>3. CASE ~(\E p \in Process : WorkActs(p)) /\ ~(\E d \in Commander : ActivateAnchor(d))
  <2>1. \A r \in Reconciler : ~RestoreProfile(r)
    <3> SUFFICES ASSUME NEW r \in Reconciler, RestoreProfile(r) PROVE FALSE
      OBVIOUS
    <3>1. Busy(r)
      BY DEF RestoreProfile, Busy
    <3> QED
      BY <3>1, LiveFacts DEF NobodyOvertaken
  <2>2. ~SupervisorStarts
    BY LiveFacts DEF SupervisorStarts
  <2> QED
    BY <1>3, <2>1, <2>2, SelectionMoves, ContainerMoves, CandidateMoves
<1> QED
  BY <1>1, <1>2, <1>3

\* What a command has brought about, by the actions of its plan that are done.
ForwardOK(c) ==
  GoesOn(c) =>
    LET it == intent[slot.id]
        n == DoneActions(c)
    IN  /\ slot.op \in TargetOperations /\ n > ActivateStep(slot.op)
             => selection = it.target
        /\ slot.op \in TargetOperations /\ n > ActivateStep(slot.op) + 1
             => container \in {it.target, NoModel}
        /\ slot.op = "profile" /\ n > 0 => container \in {selection, NoModel}
        /\ slot.op = "release" /\ n > 0 => candidate = "none"
        /\ slot.op = "release" /\ n > 1 =>
             IF it.original.healthy
             THEN /\ selection = it.original.selection
                  /\ container \in {it.original.model, NoModel}
             ELSE container # it.original.selection

\* A release script that is about to succeed has stopped its candidate.
ScriptOK(c) ==
  \A w \in work[c] :
    w.at = "running" /\ w.does = "restore-production" /\ w.script = "passing"
      => candidate = "none"

EffectOK == \A c \in Commander : ForwardOK(c) /\ ScriptOK(c)

\* ForwardKinds: which actions come last in a plan.
LEMMA ForwardKinds ==
  ASSUME NEW op \in Operations, NEW n \in Nat, n < LenOf(op)
  PROVE  /\ op \in TargetOperations /\ n + 1 > ActivateStep(op) =>
              \/ n = ActivateStep(op) /\ KindAt(op, n) = "activate-target"
              \/ n = ActivateStep(op) + 1 /\ KindAt(op, n) = "start-target"
              \/ /\ n > ActivateStep(op) + 1
                 /\ KindAt(op, n) \in {"target-quick", "publish-rollback", "clear-rollback"}
         /\ op = "profile" => KindAt(op, n) = "switch-profile"
         /\ op = "release" =>
              \/ n = 0 /\ KindAt(op, n) = "release"
              \/ n = 1 /\ KindAt(op, n) = "verify-restored"
<1>1. ActivateStep(op) \in Nat
  BY FetchesAssumption DEF ActivateStep
<1>2. CASE op \in TargetOperations /\ n + 1 > ActivateStep(op)
  <2>1. n \in {ActivateStep(op), ActivateStep(op) + 1, ActivateStep(op) + 2, ActivateStep(op) + 3}
    BY <1>1, <1>2, FetchesAssumption DEF LenOf, TargetOperations, ActivateStep
  <2>2. CASE n \in {ActivateStep(op), ActivateStep(op) + 1, ActivateStep(op) + 2}
    BY <1>1, <1>2, <2>2, FetchesAssumption
    DEF KindAt, TargetOperations, RolloutOperations, ActivateStep
  <2>3. CASE n = ActivateStep(op) + 3
    <3>1. op \in {"upgrade", "rollback"}
      BY <1>1, <1>2, <2>3, FetchesAssumption DEF LenOf, TargetOperations, ActivateStep
    <3> QED
      BY <1>1, <2>3, <3>1 DEF KindAt, TargetOperations
  <2>4. op # "profile" /\ op # "release"
    BY <1>2 DEF TargetOperations
  <2> QED
    BY <1>1, <2>1, <2>2, <2>3, <2>4
<1>3. CASE op = "profile"
  BY <1>3 DEF KindAt, TargetOperations, RolloutOperations
<1>4. CASE op = "release"
  <2>1. n = 0 \/ n = 1
    BY <1>4 DEF LenOf
  <2> QED
    BY <1>4, <2>1 DEF KindAt, TargetOperations, RolloutOperations
<1> QED
  BY <1>2, <1>3, <1>4 DEF TargetOperations

\* AwaitedFacts: what a command waits for is the action of its plan that is due.
LEMMA AwaitedFacts ==
  ASSUME BaseInv, NEW c \in Commander, Live(c), cmd[c].at = "wait", NEW w \in work[c]
  PROVE  /\ CommandWork(w) /\ w.req.id = slot.id /\ w.script # "killed"
         /\ CarriesOut(w, KindAt(slot.op, cmd[c].step))
         /\ slot.op = intent[slot.id].op /\ slot.op \in Operations
         /\ w.does \in ReleaseSteps \union {"release"} =>
              slot.op = "release" /\ cmd[c].step = 0
         /\ w.does \in {"activate-target", "start-target"} =>
              w.model = intent[slot.id].target
<1>1. PICK v \in work[c] :
        /\ v.req.id = slot.id /\ v.script # "killed"
        /\ CarriesOut(v, KindAt(slot.op, cmd[c].step))
  BY DEF BaseInv, WorksOK, WorkOfLive
<1>2. v = w /\ CommandWork(w)
  BY ProcessesDiffer DEF BaseInv, WorksOK, WorkOK
<1>3. slot.op = intent[slot.id].op /\ slot.op \in Operations /\ cmd[c].step \in Nat
  BY MineFacts
<1>4. cmd[c].step < LenOf(slot.op)
  BY DEF BaseInv, ControlOK, CommandOK
<1>5. ASSUME w.does \in ReleaseSteps \union {"release"}
      PROVE  slot.op = "release" /\ cmd[c].step = 0
  <2>1. slot.op = "release"
    BY <1>1, <1>2, <1>3, <1>5
    DEF CommandWork, Operations, RolloutOperations, ReleaseSteps
  <2>2. KindAt(slot.op, cmd[c].step) = "release"
    BY <1>1, <1>2, <1>5 DEF CarriesOut
  <2> QED
    BY <1>3, <1>4, <2>1, <2>2, ForwardKinds
<1>6. ASSUME w.does \in {"activate-target", "start-target"}
      PROVE  w.model = intent[slot.id].target
  <2>1. slot.op \in TargetOperations
    BY <1>1, <1>2, <1>3, <1>6
    DEF CommandWork, Operations, RolloutOperations, ReleaseSteps, TargetOperations
  <2> QED
    BY <1>1, <1>2, <1>3, <2>1 DEF CommandWork
<1> QED
  BY <1>1, <1>2, <1>3, <1>5, <1>6

\* What carrying out the action that is due brings about.
BringsAbout(c) ==
  LET kind == KindAt(slot.op, cmd[c].step)
      it == intent[slot.id]
  IN  /\ kind = "activate-target" => selection' = it.target
      /\ kind = "start-target" => /\ selection' = selection /\ selection = it.target
                                  /\ container' = selection
      /\ kind = "switch-profile" => selection' = selection /\ container' = selection
      /\ kind = "release" => candidate' = "none"
      /\ kind = "verify-restored" => Restored(it.original)
      /\ kind \in {"verify-restored", "target-quick", "publish-rollback", "clear-rollback"}
           => UNCHANGED <<selection, container, candidate>>

\* WorkBringsAbout: what its work brings about before the command that waited goes on.
LEMMA WorkBringsAbout ==
  ASSUME BaseInv, NEW c \in Commander, ScriptOK(c), GoesOn(c), cmd[c].at = "wait",
         WorkActs(c), GoesOn(c)', DoneActions(c)' # DoneActions(c)
  PROVE  BringsAbout(c)
<1>0. VarsOK /\ Live(c) /\ c \in Process
  BY ProcessesDiffer DEF BaseInv, GoesOn
<1>1. PICK w \in work[c] :
        /\ w.at = "running"
        /\ \/ WorkSelects(c, w) \/ WorkStops(c, w) \/ WorkStarts(c, w)
           \/ WorkRestores(c, w) \/ ReleaseStep(c, w)
  BY DEF WorkActs
<1>2. /\ CommandWork(w) /\ w.script # "killed"
      /\ CarriesOut(w, KindAt(slot.op, cmd[c].step))
      /\ w.does \in {"activate-target", "start-target"} => w.model = intent[slot.id].target
  BY <1>0, AwaitedFacts
<1>3. w.does # "restore"
  <2>1. intent[w.req.id].op \in Operations
    BY <1>0, AwaitedFacts
  <2> QED
    BY <1>2, <2>1 DEF CommandWork, Operations, RolloutOperations, ReleaseSteps
<1>4. CASE WorkSelects(c, w)
  <2>1. w.does = "activate-target" /\ selection' = w.model
    BY <1>4 DEF WorkSelects
  <2>2. KindAt(slot.op, cmd[c].step) = "activate-target"
    BY <1>2, <2>1 DEF CarriesOut, ReleaseSteps
  <2> QED
    BY <1>2, <2>1, <2>2 DEF BringsAbout
<1>5. CASE WorkStops(c, w)
  <2>1. KindAt(slot.op, cmd[c].step) = "stop-source"
    BY <1>2, <1>5 DEF WorkStops, CarriesOut, ReleaseSteps
  <2> QED
    BY <2>1 DEF BringsAbout
<1>6. CASE WorkStarts(c, w)
  <2>1. /\ \/ w.does = "start-target" /\ selection = w.model
           \/ w.does = "switch-profile"
        /\ container' = selection /\ selection' = selection
    BY <1>6 DEF WorkStarts, SelectedIsApproved
  <2>2. KindAt(slot.op, cmd[c].step) = w.does
    BY <1>2, <2>1 DEF CarriesOut, ReleaseSteps
  <2> QED
    BY <1>2, <2>1, <2>2 DEF BringsAbout
<1>7. CASE WorkRestores(c, w)
  BY <1>3, <1>7 DEF WorkRestores
<1>8. CASE ReleaseStep(c, w)
  <2>1. w.does \in ReleaseSteps \union {"release"}
    BY <1>0, <1>1, <1>8, ReleaseStepEffect
  <2>2. KindAt(slot.op, cmd[c].step) = "release"
    BY <1>2, <2>1 DEF CarriesOut
  <2>3. ~UNCHANGED cmd
    BY DEF DoneActions
  <2>4. ~WorkOver(c, FALSE)
    <3> SUFFICES ASSUME WorkOver(c, FALSE) PROVE FALSE
      OBVIOUS
    <3>1. cmd'[c].at = "failing"
      BY <1>0, WorkOverEffect
    <3> QED
      BY <3>1 DEF GoesOn
  <2>5. ASSUME NEW next PROVE ~ScriptGoesOn(c, w, next)
    BY <1>2, <2>3 DEF ScriptGoesOn
  <2>6. ReleaseRestores(c, w)
    BY <1>8, <2>5
    DEF ReleaseStep, ReleaseBegins, ReleaseStops, ReleaseStartsCandidate, ReleaseAccepts,
        ReleaseStopsCandidate
  <2>7. w.does = "restore-production" /\ candidate' = candidate
    BY <2>6 DEF ReleaseRestores
  <2>8. w.script = "passing"
    <3> SUFFICES ASSUME w.script # "passing" PROVE FALSE
      OBVIOUS
    <3>1. (healthy' /\ w.script = "passing") = FALSE
      OBVIOUS
    <3>2. (w.model = NoModel /\ w.script = "passing") = FALSE
      OBVIOUS
    <3> QED
      BY <2>4, <2>6, <3>1, <3>2 DEF ReleaseRestores
  <2>9. candidate = "none"
    BY <1>1, <2>7, <2>8 DEF ScriptOK
  <2> QED
    BY <2>2, <2>7, <2>9 DEF BringsAbout
<1> QED
  BY <1>1, <1>4, <1>5, <1>6, <1>7, <1>8

\* StepBringsAbout: what an action of its plan brings about.
LEMMA StepBringsAbout ==
  ASSUME BaseInv, NEW c \in Commander, ScriptOK(c), GoesOn(c), Carries(c), GoesOn(c)',
         DoneActions(c)' # DoneActions(c)
  PROVE  BringsAbout(c)
<1>0. /\ Live(c) /\ Mine(c) = intent[slot.id] /\ slot.id \in Ids /\ slot.op \in Operations
      /\ HasNext(c) => NextKind(c) = KindAt(slot.op, cmd[c].step)
  BY MineFacts DEF GoesOn
<1>1. CASE Fetch(c)
  <2>1. KindAt(slot.op, cmd[c].step) = "fetch-target-artifact"
    BY <1>0, <1>1 DEF Fetch, At
  <2> QED
    BY <2>1 DEF BringsAbout
<1>2. CASE QuickPasses(c)
  <2>1. KindAt(slot.op, cmd[c].step) \in {"source-quick", "target-quick"}
    BY <1>0, <1>2 DEF QuickPasses, At
  <2> QED
    BY <1>2, <2>1 DEF BringsAbout, QuickPasses, runtime
<1>3. CASE ActivateAnchor(c)
  <2>1. /\ KindAt(slot.op, cmd[c].step) = "activate-target"
        /\ Mine(c).op = "rollback"
        /\ selection' = intent[Mine(c).spec].original.selection
    BY <1>0, <1>3 DEF ActivateAnchor, At, AnchorOriginal
  <2>2. IntentOK(slot.id)
    BY <1>0 DEF BaseInv, IntentsOK
  <2>3. selection' = intent[slot.id].target
    BY <1>0, <2>1, <2>2 DEF IntentOK
  <2> QED
    BY <2>1, <2>3 DEF BringsAbout
<1>4. CASE VerifyRelease(c)
  <2>1. KindAt(slot.op, cmd[c].step) = "verify-restored" /\ Restored(intent[slot.id].original)
    BY <1>0, <1>4 DEF VerifyRelease, At
  <2> QED
    BY <1>4, <2>1 DEF BringsAbout, VerifyRelease, runtime
<1>5. CASE PublishRollback(c) \/ ClearRollback(c)
  <2>1. IsRollout(slot) /\ cmd[c].step \in Nat /\ cmd[c].step + 1 = LenOf(slot.op)
    BY <1>5, PublishFacts
  <2>2. KindAt(slot.op, cmd[c].step) \in {"publish-rollback", "clear-rollback"}
    BY <2>1, LastIsPointer DEF IsRollout
  <2>3. UNCHANGED <<selection, container, candidate>>
    BY <1>5 DEF PublishRollback, ClearRollback, runtime
  <2> QED
    BY <2>2, <2>3 DEF BringsAbout
<1>6. CASE cmd[c].at = "wait" /\ WorkActs(c)
  BY <1>6, WorkBringsAbout
<1> QED
  BY <1>1, <1>2, <1>3, <1>4, <1>5, <1>6 DEF Carries

\* EffectStays: while no action of its plan is done, what a command has brought about
\* stays.
LEMMA EffectStays ==
  ASSUME BaseInv, NobodyOvertaken, [Next]_vars, NEW c \in Commander, GoesOn(c), GoesOn(c)',
         DoneActions(c)' = DoneActions(c)
  PROVE  \/ /\ selection' = selection
            /\ container' \in {container, NoModel}
            /\ candidate' \in {candidate, "none"}
         \/ slot.op = "release" /\ DoneActions(c) = 0
<1>0. VarsOK /\ Live(c) /\ c \in Process /\ cmd[c].at # "failing"
  BY ProcessesDiffer DEF BaseInv, GoesOn
<1>1. ASSUME ActivateAnchor(c) PROVE FALSE
  <2>1. Mine(c).op = "rollback" /\ Done(c) /\ cmd[c].at = "act"
    BY <1>1 DEF ActivateAnchor, At
  <2>2. cmd'[c].at = "journal" /\ cmd'[c].step = cmd[c].step /\ cmd[c].step \in Nat
    BY <1>0, <2>1, DoneEffect DEF IsMineRollout, RolloutOperations, VarsOK, Cmds
  <2> QED
    BY <2>1, <2>2 DEF DoneActions
<1>2. ASSUME WorkActs(c), cmd[c].at = "wait"
      PROVE  slot.op = "release" /\ DoneActions(c) = 0
  <2>0. cmd[c].step \in Nat
    BY <1>0 DEF VarsOK, Cmds
  <2>1. ASSUME NEW ok \in BOOLEAN, WorkOver(c, ok) PROVE FALSE
    <3>1. \/ cmd'[c].at = "failing"
          \/ cmd'[c].at = "journal" /\ cmd'[c].step = cmd[c].step
          \/ cmd'[c].at = "act" /\ cmd'[c].step = cmd[c].step + 1
      BY <1>0, <1>2, <2>1, WorkOverEffect
    <3> QED
      BY <1>2, <2>0, <3>1 DEF GoesOn, DoneActions
  <2>2. PICK w \in work[c] : w.does \in ReleaseSteps \union {"release"}
    BY <1>0, <1>2, <2>1, ActsEffect
  <2> QED
    BY <1>0, <1>2, <2>2, AwaitedFacts DEF DoneActions
<1> QED
  BY <1>0, <1>1, <1>2, RuntimeIsMine

\* ForwardIsKept: a command has brought about what its plan says.
LEMMA ForwardIsKept ==
  ASSUME BaseInv, NobodyOvertaken, EffectOK, [Next]_vars, NEW c \in Commander
  PROVE  ForwardOK(c)'
<1> SUFFICES ASSUME GoesOn(c)' PROVE ForwardOK(c)'
  BY DEF ForwardOK
<1>1. CASE Begins(c)
  <2>1. DoneActions(c)' = 0
    BY <1>1, BeginEffect DEF DoneActions
  <2>2. ActivateStep(slot'.op) \in Nat
    BY FetchesAssumption DEF ActivateStep
  <2>3. ~(0 > ActivateStep(slot'.op)) /\ ~(0 > ActivateStep(slot'.op) + 1)
    BY <2>2
  <2> QED
    BY <2>1, <2>3 DEF ForwardOK
<1>2. ASSUME GoesOn(c) PROVE /\ slot'.id = slot.id /\ slot'.op = slot.op /\ intent' = intent
                             /\ slot.op \in Operations /\ slot.op = intent[slot.id].op
                             /\ Found(intent[slot.id].original) /\ cmd[c].step \in Nat
                             /\ ForwardOK(c) /\ ScriptOK(c)
  <2>1. Live(c) /\ IsActive(slot) /\ slot.id \in Ids
    BY <1>2, LiveFacts, MineFacts DEF GoesOn
  <2>2. \A d \in Commander : ~Begins(d)
    BY <2>1, BeginEffect
  <2>3. SlotKept /\ slot.op \in Operations /\ slot.op = intent[slot.id].op /\ cmd[c].step \in Nat
    BY <2>1, <2>2, SlotMoves, MineFacts
  <2>4. IntentOK(slot.id)
    BY <2>1 DEF BaseInv, IntentsOK
  <2>5. Found(intent[slot.id].original)
    BY <2>3, <2>4 DEF IntentOK, Operations
  <2> QED
    BY <2>3, <2>5 DEF SlotKept, EffectOK
<1>3. CASE GoesOn(c) /\ DoneActions(c)' = DoneActions(c)
  <2>1. CASE slot.op = "release" /\ DoneActions(c) = 0
    BY <1>2, <1>3, <2>1 DEF ForwardOK, TargetOperations
  <2>2. CASE /\ selection' = selection
             /\ container' \in {container, NoModel}
             /\ candidate' \in {candidate, "none"}
    <3>1. intent[slot.id].original.selection # NoModel
      BY <1>2, <1>3, RuntimeChangeAssumption DEF Found
    <3> QED
      BY <1>2, <1>3, <2>2, <3>1 DEF ForwardOK
  <2> QED
    BY <1>3, <2>1, <2>2, EffectStays
<1>4. CASE /\ GoesOn(c) /\ Carries(c)
           /\ cmd[c].step < LenOf(slot.op) /\ DoneActions(c) = cmd[c].step
           /\ DoneActions(c)' = DoneActions(c) + 1
  <2> DEFINE n == cmd[c].step
  <2>0. n \in Nat /\ DoneActions(c) = n /\ DoneActions(c)' = n + 1 /\ n < LenOf(slot.op)
    BY <1>2, <1>4
  <2>1. BringsAbout(c)
    BY <1>2, <1>4, <2>0, StepBringsAbout
  <2>2. ActivateStep(slot.op) \in Nat
    BY FetchesAssumption DEF ActivateStep
  <2> HIDE DEF n
  <2>3. CASE slot.op \in TargetOperations
    <3>1. ASSUME n + 1 > ActivateStep(slot.op)
          PROVE  /\ selection' = intent[slot.id].target
                 /\ n + 1 > ActivateStep(slot.op) + 1
                      => container' \in {intent[slot.id].target, NoModel}
      <4>1. CASE n = ActivateStep(slot.op) /\ KindAt(slot.op, n) = "activate-target"
        BY <2>1, <2>2, <4>1 DEF BringsAbout, n
      <4>2. CASE n = ActivateStep(slot.op) + 1 /\ KindAt(slot.op, n) = "start-target"
        BY <2>1, <4>2 DEF BringsAbout, n
      <4>3. CASE /\ n > ActivateStep(slot.op) + 1
                 /\ KindAt(slot.op, n) \in {"target-quick", "publish-rollback", "clear-rollback"}
        <5>1. UNCHANGED <<selection, container>>
          BY <2>1, <4>3 DEF BringsAbout, n
        <5>2. n > ActivateStep(slot.op)
          BY <2>0, <2>2, <4>3
        <5> QED
          BY <1>2, <1>4, <2>0, <2>3, <4>3, <5>1, <5>2 DEF ForwardOK
      <4> QED
        BY <1>2, <1>4, <2>0, <2>3, <3>1, <4>1, <4>2, <4>3, ForwardKinds
    <3>2. n + 1 > ActivateStep(slot.op) + 1 => n + 1 > ActivateStep(slot.op)
      BY <2>0, <2>2
    <3>3. slot.op # "profile" /\ slot.op # "release"
      BY <2>3 DEF TargetOperations
    <3> QED
      BY <1>2, <1>4, <2>0, <3>1, <3>2, <3>3 DEF ForwardOK
  <2>4. CASE slot.op = "profile"
    <3>1. KindAt(slot.op, n) = "switch-profile"
      BY <1>2, <1>4, <2>0, <2>4, ForwardKinds
    <3>2. selection' = selection /\ container' = selection
      BY <2>1, <3>1 DEF BringsAbout, n
    <3>3. slot.op \notin TargetOperations /\ slot.op # "release"
      BY <2>4 DEF TargetOperations
    <3> QED
      BY <1>2, <1>4, <3>2, <3>3 DEF ForwardOK
  <2>5. CASE slot.op = "release"
    <3>1. slot.op \notin TargetOperations /\ slot.op # "profile"
      BY <2>5 DEF TargetOperations
    <3>2. CASE n = 0 /\ KindAt(slot.op, n) = "release"
      <4>1. candidate' = "none" /\ ~(n + 1 > 1)
        BY <2>1, <3>2 DEF BringsAbout, n
      <4> QED
        BY <1>2, <1>4, <2>0, <3>1, <4>1 DEF ForwardOK
    <3>3. CASE n = 1 /\ KindAt(slot.op, n) = "verify-restored"
      <4>1. Restored(intent[slot.id].original) /\ UNCHANGED <<selection, container, candidate>>
        BY <2>1, <3>3 DEF BringsAbout, n
      <4>2. candidate = "none"
        BY <1>2, <1>4, <2>0, <2>5, <3>3 DEF ForwardOK
      <4>3. selection # NoModel /\ Found(intent[slot.id].original)
        BY <1>2, <1>4, RuntimeChangeAssumption DEF BaseInv, VarsOK
      <4>4. IF intent[slot.id].original.healthy
            THEN /\ selection = intent[slot.id].original.selection
                 /\ container \in {intent[slot.id].original.model, NoModel}
            ELSE container # intent[slot.id].original.selection
        BY <4>1, <4>3 DEF Restored, Found
      <4> QED
        BY <1>2, <1>4, <3>1, <4>1, <4>2, <4>4 DEF ForwardOK
    <3> QED
      BY <1>2, <1>4, <2>0, <2>5, <3>2, <3>3, ForwardKinds
  <2> QED
    BY <1>2, <1>4, <2>3, <2>4, <2>5 DEF Operations, TargetOperations
<1> QED
  BY <1>1, <1>3, <1>4, PlanSteps

\* ScriptStep: a release script goes on to another of its programs, or is over.
LEMMA ScriptStep ==
  ASSUME BaseInv, NEW c \in Commander, WorkActs(c), NEW v \in work'[c]
  PROVE  \E w \in work[c] :
           /\ w.at = "running" /\ w.script # "killed" /\ ReleaseStep(c, w)
           /\ work'[c] = {v} /\ v.at = "running" /\ v.req = w.req
           /\ v.does \in ReleaseSteps /\ v.script \in {w.script, "failing"}
           /\ UNCHANGED <<slot, intent, cmd, rec>>
<1>0. VarsOK /\ c \in Process
  BY ProcessesDiffer DEF BaseInv
<1>1. PICK w \in work[c] :
        /\ w.at = "running"
        /\ \/ WorkSelects(c, w) \/ WorkStops(c, w) \/ WorkStarts(c, w)
           \/ WorkRestores(c, w) \/ ReleaseStep(c, w)
  BY DEF WorkActs
<1>2. ASSUME NEW ok, WorkOver(c, ok) PROVE FALSE
  <2>1. work'[c] = {}
    BY <1>0, <1>2 DEF WorkOver, VarsOK
  <2> QED
    BY <2>1
<1>3. ReleaseStep(c, w)
  BY <1>1, <1>2 DEF WorkSelects, WorkStops, WorkStarts, WorkRestores
<1>4. /\ UNCHANGED <<cmd, rec>> /\ w.script # "killed"
      /\ \E next : NextStep(w, next) /\ work' = [work EXCEPT ![c] = {next}]
  BY <1>0, <1>1, <1>2, <1>3, ReleaseStepEffect
<1>5. PICK next : NextStep(w, next) /\ work'[c] = {next}
  BY <1>0, <1>4 DEF VarsOK
<1>6. v = next
  BY <1>5
<1>7. UNCHANGED <<slot, intent>>
  BY ActsEffect, <1>0
<1> QED
  BY <1>1, <1>3, <1>4, <1>5, <1>6, <1>7 DEF NextStep

\* ScriptLeads: where a release script that still passes goes on to.
LEMMA ScriptLeads ==
  ASSUME BaseInv, NEW c \in Commander, NEW w \in work[c], w.script # "killed",
         ReleaseStep(c, w), NEW v, work'[c] = {v}
  PROVE  \/ /\ w.does = "release" /\ v.does = "stop-production"
            /\ candidate' = candidate
         \/ /\ w.does \in {"release", "stop-production"} /\ v.does = "restore-production"
            /\ v.script = "failing" /\ candidate' = candidate
         \/ /\ w.does = "stop-production" /\ v.does = "start-candidate"
            /\ candidate' = candidate /\ container' = NoModel
         \/ /\ w.does = "start-candidate" /\ v.does \in {"accept-candidate", "stop-candidate"}
            /\ candidate' = candidate \/ container # selection
            /\ container' = container
         \/ /\ w.does = "accept-candidate" /\ v.does = "stop-candidate"
            /\ UNCHANGED <<candidate, container>>
         \/ /\ w.does = "stop-candidate" /\ v.does = "restore-production"
            /\ candidate' = "none" \/ (candidate' = StopFailed /\ v.script = "failing")
            /\ container' = container
<1>0. w \in Works /\ c \in Process /\ VarsOK
  BY ProcessesDiffer DEF BaseInv, VarsOK
<1>1. ASSUME NEW next, ScriptGoesOn(c, w, next) PROVE v = next
  BY <1>0, <1>1 DEF ScriptGoesOn, VarsOK
<1>2. ASSUME NEW ok, WorkOver(c, ok) PROVE FALSE
  <2>1. work'[c] = {}
    BY <1>0, <1>2 DEF WorkOver, VarsOK
  <2> QED
    BY <2>1
<1>3. CASE ReleaseBegins(c, w)
  <2>1. w.does = "release" /\ candidate' = candidate
    BY <1>3 DEF ReleaseBegins, runtime
  <2>2. PICK m, next : /\ next \in {[[w EXCEPT !.model = m] EXCEPT !.does = "stop-production"],
                            Failing([[w EXCEPT !.model = m] EXCEPT !.does = "restore-production"])}
                       /\ ScriptGoesOn(c, w, next)
    BY <1>3 DEF ReleaseBegins
  <2>3. v = next
    BY <1>1, <2>2
  <2>4. CASE next = [[w EXCEPT !.model = m] EXCEPT !.does = "stop-production"]
    <3>1. v.does = "stop-production"
      BY <1>0, <2>3, <2>4 DEF Works
    <3> QED
      BY <2>1, <3>1
  <2>5. CASE next = Failing([[w EXCEPT !.model = m] EXCEPT !.does = "restore-production"])
    <3>1. v.does = "restore-production" /\ v.script = "failing"
      BY <1>0, <2>3, <2>5 DEF Works, Failing
    <3> QED
      BY <2>1, <3>1
  <2> QED
    BY <2>2, <2>4, <2>5
<1>4. CASE ReleaseStops(c, w)
  BY <1>0, <1>1, <1>4 DEF ReleaseStops, Works, Failing
<1>5. CASE ReleaseStartsCandidate(c, w)
  <2>1. w.does = "start-candidate" /\ container' = container
    BY <1>5 DEF ReleaseStartsCandidate
  <2>2. CASE candidate' = candidate
    <3>1. v.does \in {"accept-candidate", "stop-candidate"}
      BY <1>0, <1>1, <1>5 DEF ReleaseStartsCandidate, Works, Failing
    <3> QED
      BY <2>1, <2>2, <3>1
  <2>3. CASE candidate' # candidate
    <3>1. v.does \in {"accept-candidate", "stop-candidate"} /\ container # selection
      BY <1>0, <1>1, <1>5, <2>3 DEF ReleaseStartsCandidate, Works, Failing
    <3> QED
      BY <2>1, <3>1
  <2> QED
    BY <2>2, <2>3
<1>6. CASE ReleaseAccepts(c, w)
  <2>1. v.does = "stop-candidate"
    BY <1>0, <1>1, <1>6 DEF ReleaseAccepts, Works, Failing
  <2> QED
    BY <1>6, <2>1 DEF ReleaseAccepts, runtime
<1>7. CASE ReleaseStopsCandidate(c, w)
  BY <1>0, <1>1, <1>7 DEF ReleaseStopsCandidate, Works, Failing
<1>8. CASE ReleaseRestores(c, w)
  BY <1>2, <1>8 DEF ReleaseRestores
<1> QED
  BY <1>3, <1>4, <1>5, <1>6, <1>7, <1>8 DEF ReleaseStep

\* ScriptIsKept: a release script that passes has stopped its candidate.
LEMMA ScriptIsKept ==
  ASSUME BaseInv, EffectOK, [Next]_vars, NEW c \in Commander
  PROVE  ScriptOK(c)'
<1> SUFFICES ASSUME NEW v \in work'[c], v.at = "running", v.does = "restore-production",
                    v.script = "passing"
             PROVE  candidate' = "none"
  BY DEF ScriptOK
<1>0. VarsOK /\ c \in Process /\ ScriptOK(c) /\ WorkOK(c)
  BY ProcessesDiffer DEF BaseInv, EffectOK, WorksOK
<1>1. CASE WorkActs(c)
  <2>1. PICK w \in work[c] : /\ w.at = "running" /\ w.script # "killed" /\ ReleaseStep(c, w)
                             /\ work'[c] = {v}
    BY <1>1, ScriptStep
  <2> QED
    BY <2>1, ScriptLeads
<1>2. CASE v \in work[c] /\ ~WorkActs(c)
  <2>1. candidate = "none"
    BY <1>0, <1>2 DEF ScriptOK
  <2>2. ASSUME NEW p \in Process, WorkActs(p) PROVE FALSE
    <3>1. PICK w \in work[p] : w.at = "running"
      BY <2>2, ActsEffect
    <3>2. p = c
      BY <1>0, <1>2, <3>1 DEF BaseInv, WorksOK, Exclusive
    <3> QED
      BY <1>2, <2>2, <3>2
  <2> QED
    BY <2>1, <2>2, CandidateMoves
<1>3. CASE v \notin work[c] /\ ~WorkActs(c)
  <2>1. SpawnWork(c) \/ Raise(c) \/ WorkEnters(c) \/ WorkFails(c)
    BY <1>3, WorkTurns
  <2>2. CASE SpawnWork(c)
    <3>1. \A u \in work'[c] : u.at = "spawned"
      BY <1>0, <2>2 DEF SpawnWork, VarsOK
    <3> QED
      BY <3>1
  <2>3. CASE Raise(c)
    <3>1. v \in Survivors(work[c])
      BY <1>0, <1>3, <2>3 DEF Raise, VarsOK
    <3> QED
      BY <1>0, <3>1, SurvivorsFacts DEF VarsOK
  <2>4. CASE WorkEnters(c)
    <3>1. PICK w \in work[c] : w.at = "spawned" /\ work'[c] = {[w EXCEPT !.at = "running"]}
      BY <1>0, <2>4 DEF WorkEnters, VarsOK
    <3>2. v.does = w.does
      BY <1>0, <3>1 DEF VarsOK, Works
    <3> QED
      BY <1>0, <3>1, <3>2 DEF WorkOK, CommandWork, ReleaseSteps
  <2>5. CASE WorkFails(c)
    <3>1. work'[c] = {}
      BY <1>0, <2>5 DEF WorkFails, WorkOver, VarsOK
    <3> QED
      BY <3>1
  <2> QED
    BY <2>1, <2>2, <2>3, <2>4, <2>5
<1> QED
  BY <1>1, <1>2, <1>3

\* CompletedStaysInEffect: a change that ended completed is in effect: its target is
\* selected and runs if anything does; a release has taken its candidate away and left
\* production as it found it.
THEOREM CompletedStaysInEffect == Spec /\ []NobodyOvertaken => CompletedIsInEffect
<1> DEFINE InEffect ==
      EndsAs("completed") =>
        LET done == intent[slot.id]
        IN  CASE done.op = "release" ->
                   /\ candidate = "none"
                   /\ IF done.original.healthy
                      THEN /\ selection = done.original.selection
                           /\ container \in {done.original.model, NoModel}
                      ELSE container # done.original.selection
              [] done.op = "profile" -> container \in {selection, NoModel}
              [] OTHER -> /\ selection = done.target
                          /\ container \in {done.target, NoModel}
<1>1. Init => EffectOK
  BY DEF Init, EffectOK, ForwardOK, ScriptOK, GoesOn, Live, Quiet, Process
<1>2. BaseInv /\ NobodyOvertaken /\ EffectOK /\ [Next]_vars => EffectOK'
  BY ForwardIsKept, ScriptIsKept DEF EffectOK
<1>3. BaseInv /\ EffectOK /\ [Next]_vars => [InEffect]_vars
  <2> SUFFICES ASSUME BaseInv, EffectOK, [Next]_vars, EndsAs("completed") PROVE InEffect
    OBVIOUS
  <2>1. PICK c \in Commander : Complete(c)
    BY Verdicts
  <2>2. GoesOn(c) /\ DoneActions(c) = LenOf(slot.op)
    BY <2>1, CompleteFacts
  <2>3. ForwardOK(c) /\ slot.op \in Operations /\ slot.op = intent[slot.id].op
    BY <2>2, MineFacts DEF EffectOK, GoesOn
  <2>4. CASE slot.op = "release"
    <3>1. LenOf(slot.op) > 0 /\ LenOf(slot.op) > 1
      BY <2>4 DEF LenOf
    <3> QED
      BY <2>2, <2>3, <2>4, <3>1 DEF ForwardOK
  <2>5. CASE slot.op = "profile"
    <3>1. LenOf(slot.op) > 0
      BY <2>5 DEF LenOf
    <3> QED
      BY <2>2, <2>3, <2>5, <3>1 DEF ForwardOK
  <2>6. CASE slot.op \in TargetOperations
    <3>1. LenOf(slot.op) > ActivateStep(slot.op) /\ LenOf(slot.op) > ActivateStep(slot.op) + 1
      BY <2>6, FetchesAssumption DEF LenOf, ActivateStep, TargetOperations
    <3> QED
      BY <2>2, <2>3, <2>6, <3>1 DEF ForwardOK, TargetOperations
  <2> QED
    BY <2>3, <2>4, <2>5, <2>6 DEF Operations, TargetOperations
<1> QED
  BY <1>1, <1>2, <1>3, BaseIsInvariant, PTL DEF Spec, CompletedIsInEffect

--------------------------------------------------------------------------------
(* Production and candidate                                                *)

\* CommandTurns: a command is moved by itself and by its work.
LEMMA CommandTurns ==
  BaseInv /\ [Next]_vars =>
    \A d \in Commander : cmd'[d] # cmd[d] => CommandStep(d) \/ WorkFails(d) \/ WorkActs(d)
<1> DEFINE Goal ==
      \A d \in Commander : cmd'[d] # cmd[d] => CommandStep(d) \/ WorkFails(d) \/ WorkActs(d)
<1> SUFFICES ASSUME BaseInv, [Next]_vars PROVE Goal
  OBVIOUS
<1>0. VarsOK /\ SlotOK /\ IntentsOK /\ ControlOK /\ WorksOK
  BY DEF BaseInv
<1>1. ASSUME NEW c \in Commander, CommandStep(c) PROVE Goal
  <2>1. CASE CaptureOriginal(c)
    <3>1. \A d \in Commander \ {c} : cmd'[d] = cmd[d]
      BY <1>0, <2>1 DEF CaptureOriginal, VarsOK
    <3> QED
      BY <1>1, <3>1
  <2>2. CASE Begins(c)
    <3>1. \A d \in Commander \ {c} : cmd'[d] = cmd[d]
      BY <2>2, BeginEffect
    <3> QED
      BY <1>1, <3>1
  <2>3. CASE Enter(c)
    <3>1. \A d \in Commander \ {c} : cmd'[d] = cmd[d]
      BY <1>0, <2>3 DEF Enter, VarsOK
    <3> QED
      BY <1>1, <3>1
  <2>4. CASE Fetch(c)
    <3>1. \A d \in Commander \ {c} : cmd'[d] = cmd[d]
      BY <1>0, <2>4, DoneEffect DEF Fetch
    <3> QED
      BY <1>1, <3>1
  <2>5. CASE QuickPasses(c)
    <3>1. \A d \in Commander \ {c} : cmd'[d] = cmd[d]
      BY <1>0, <2>5, DoneEffect DEF QuickPasses
    <3> QED
      BY <1>1, <3>1
  <2>6. CASE SpawnWork(c)
    <3>1. \A d \in Commander \ {c} : cmd'[d] = cmd[d]
      BY <1>0, <2>6 DEF SpawnWork, VarsOK
    <3> QED
      BY <1>1, <3>1
  <2>7. CASE ActivateAnchor(c)
    <3>1. \A d \in Commander \ {c} : cmd'[d] = cmd[d]
      BY <1>0, <2>7, DoneEffect DEF ActivateAnchor
    <3> QED
      BY <1>1, <3>1
  <2>8. CASE VerifyRelease(c)
    <3>1. \A d \in Commander \ {c} : cmd'[d] = cmd[d]
      BY <1>0, <2>8, DoneEffect DEF VerifyRelease
    <3> QED
      BY <1>1, <3>1
  <2>9. CASE AssertPointerAction(c)
    <3>1. \A d \in Commander \ {c} : cmd'[d] = cmd[d]
      BY <1>0, <2>9 DEF AssertPointerAction, VarsOK
    <3> QED
      BY <1>1, <3>1
  <2>10. CASE PublishRollback(c)
    <3>1. \A d \in Commander \ {c} : cmd'[d] = cmd[d]
      BY <1>0, <2>10 DEF PublishRollback, VarsOK
    <3> QED
      BY <1>1, <3>1
  <2>11. CASE ClearRollback(c)
    <3>1. \A d \in Commander \ {c} : cmd'[d] = cmd[d]
      BY <1>0, <2>11 DEF ClearRollback, VarsOK
    <3> QED
      BY <1>1, <3>1
  <2>12. CASE Journal(c)
    <3>1. \A d \in Commander \ {c} : cmd'[d] = cmd[d]
      BY <1>0, <2>12 DEF Journal, VarsOK
    <3> QED
      BY <1>1, <3>1
  <2>13. CASE Complete(c)
    <3>1. \A d \in Commander \ {c} : cmd'[d] = cmd[d]
      BY <1>0, <2>13 DEF Complete, VarsOK
    <3> QED
      BY <1>1, <3>1
  <2>14. CASE Raise(c)
    <3>1. \A d \in Commander \ {c} : cmd'[d] = cmd[d]
      BY <1>0, <2>14 DEF Raise, VarsOK
    <3> QED
      BY <1>1, <3>1
  <2>15. CASE Mark(c)
    <3>1. \A d \in Commander \ {c} : cmd'[d] = cmd[d]
      BY <1>0, <2>15 DEF Mark, VarsOK
    <3> QED
      BY <1>1, <3>1
  <2>16. CASE Die(c)
    <3>1. \A d \in Commander \ {c} : cmd'[d] = cmd[d]
      BY <1>0, <2>16 DEF Die, VarsOK
    <3> QED
      BY <1>1, <3>1
  <2> QED
    BY <1>1, <2>1, <2>2, <2>3, <2>4, <2>5, <2>6, <2>7, <2>8, <2>9, <2>10, <2>11,
       <2>12, <2>13, <2>14, <2>15, <2>16 DEF CommandStep, Begins
<1>2. ASSUME NEW p \in Process, WorkStep(p) PROVE Goal
  <2>1. CASE WorkEnters(p)
    BY <2>1 DEF WorkEnters
  <2>2. CASE WorkFails(p)
    <3>1. WorkOver(p, FALSE)
      BY <2>2 DEF WorkFails
    <3>2. \A d \in Commander \ {p} : cmd'[d] = cmd[d]
      BY <1>0, <3>1, WorkOverEffect
    <3> QED
      BY <2>2, <3>2
  <2>3. CASE WorkActs(p)
    <3>1. \A d \in Commander \ {p} : cmd'[d] = cmd[d]
      BY <1>0, <2>3, ActsEffect, WorkOverEffect
    <3> QED
      BY <2>3, <3>1
  <2> QED
    BY <1>2, <2>1, <2>2, <2>3 DEF WorkStep
<1>3. ASSUME NEW r \in Reconciler, RecoveryStep(r) PROVE Goal
  <2>1. CASE FenceOrphan(r)
    BY <2>1 DEF FenceOrphan
  <2>2. CASE ReadPlan(r)
    BY <2>2 DEF ReadPlan
  <2>3. CASE Classify(r)
    BY <2>3 DEF Classify
  <2>4. CASE Confirm(r)
    BY <2>4 DEF Confirm
  <2>5. CASE BeginRestoring(r)
    BY <2>5 DEF BeginRestoring
  <2>6. CASE RestoreProfile(r)
    BY <2>6 DEF RestoreProfile
  <2>7. CASE SpawnRestore(r)
    BY <2>7 DEF SpawnRestore
  <2>8. CASE Verify(r)
    BY <2>8 DEF Verify
  <2>9. CASE ReadPointer(r)
    BY <2>9 DEF ReadPointer
  <2>10. CASE RestorePointer(r)
    BY <2>10 DEF RestorePointer
  <2>11. CASE Resolve(r)
    BY <2>11 DEF Resolve
  <2>12. CASE Reopen(r)
    BY <2>12 DEF Reopen
  <2>13. CASE Close(r)
    BY <2>13 DEF Close
  <2>14. CASE RecoveryRaises(r)
    BY <2>14 DEF RecoveryRaises
  <2>15. CASE MarkRecovery(r)
    BY <2>15 DEF MarkRecovery
  <2>16. CASE Leave(r)
    BY <2>16 DEF Leave
  <2> QED
    BY <1>3, <2>1, <2>2, <2>3, <2>4, <2>5, <2>6, <2>7, <2>8, <2>9, <2>10, <2>11,
       <2>12, <2>13, <2>14, <2>15, <2>16 DEF RecoveryStep
<1>4. CASE ContainerExits
  BY <1>4 DEF ContainerExits
<1>5. CASE CandidateExits
  BY <1>5 DEF CandidateExits
<1>6. CASE SupervisorStarts
  BY <1>6 DEF SupervisorStarts
<1>7. CASE UNCHANGED vars
  BY <1>7 DEF vars
<1> QED
  BY <1>1, <1>2, <1>3, <1>4, <1>5, <1>6, <1>7 DEF Next


\* WaitsOn: a command that waits goes on once its work is over and went well.
LEMMA WaitsOn ==
  ASSUME BaseInv, [Next]_vars, NEW c \in Commander, cmd[c].at = "wait", GoesOn(c)'
  PROVE  cmd'[c].at = "wait" \/ DoneActions(c)' # DoneActions(c)
<1>0. VarsOK /\ c \in Process /\ cmd[c].step \in Nat
  BY ProcessesDiffer DEF BaseInv, VarsOK, Cmds
<1>1. CASE cmd'[c] = cmd[c]
  BY <1>1
<1>2. ASSUME NEW ok \in BOOLEAN, WorkOver(c, ok) PROVE DoneActions(c)' # DoneActions(c)
  <2>1. \/ cmd'[c].at = "failing"
        \/ cmd'[c].at = "journal" /\ cmd'[c].step = cmd[c].step
        \/ cmd'[c].at = "act" /\ cmd'[c].step = cmd[c].step + 1
    BY <1>0, <1>2, WorkOverEffect
  <2> QED
    BY <1>0, <2>1 DEF GoesOn, DoneActions
<1>3. CASE CommandStep(c)
  <2>1. ~Begins(c)
    <3> SUFFICES ASSUME Begins(c) PROVE FALSE
      OBVIOUS
    <3>1. ~IsActive(slot) /\ Live(c)
      BY BeginEffect DEF Live
    <3> QED
      BY <3>1, LiveFacts
  <2>2. CASE Raise(c)
    <3>1. cmd' = [cmd EXCEPT ![c].at = "failing"]
      BY <2>2 DEF Raise
    <3> QED
      BY <1>0, <3>1, AtEffect DEF GoesOn
  <2>3. CASE Die(c)
    <3>1. cmd' = [cmd EXCEPT ![c] = Quiet]
      BY <2>3 DEF Die
    <3> QED
      BY <1>0, <3>1, QuietEffect DEF GoesOn, Live
  <2>4. CASE ~Raise(c) /\ ~Die(c)
    BY <1>3, <2>1, <2>4
    DEF CommandStep, Begins, CaptureOriginal, Enter, Fetch, QuickPasses, SpawnWork,
        ActivateAnchor, VerifyRelease, AssertPointerAction, PublishRollback, ClearRollback,
        Journal, Complete, Mark, At
  <2> QED
    BY <2>2, <2>3, <2>4
<1>4. CASE WorkFails(c)
  BY <1>2, <1>4 DEF WorkFails
<1>5. CASE WorkActs(c)
  BY <1>1, <1>2, <1>5, ActsEffect, <1>0
<1> QED
  BY <1>1, <1>3, <1>4, <1>5, CommandTurns

\* BecomesUp: only a release script starts a candidate.
LEMMA BecomesUp ==
  ASSUME BaseInv, [Next]_vars, candidate # "up", candidate' = "up"
  PROVE  \E c \in Commander : \E w \in work[c] :
           /\ WorkActs(c) /\ w.at = "running" /\ w.does = "start-candidate"
           /\ ReleaseStartsCandidate(c, w)
           /\ w.req.id = slot.id /\ IsActive(slot) /\ slot.op = "release"
           /\ slot' = slot /\ container' = container
<1>1. PICK p \in Process : WorkActs(p)
  BY CandidateMoves
<1>2. PICK w \in work[p] :
        /\ w.at = "running"
        /\ \/ WorkSelects(p, w) \/ WorkStops(p, w) \/ WorkStarts(p, w)
           \/ WorkRestores(p, w) \/ ReleaseStep(p, w)
  BY <1>1 DEF WorkActs
<1>3. ReleaseStartsCandidate(p, w)
  BY <1>2
  DEF WorkSelects, WorkStops, WorkStarts, WorkRestores, StopFailed, ReleaseStep,
      ReleaseBegins, ReleaseStops, ReleaseAccepts, ReleaseStopsCandidate, ReleaseRestores,
      runtime
<1>4. w.does = "start-candidate" /\ container' = container
  BY <1>3 DEF ReleaseStartsCandidate
<1>5. p \in Commander /\ CommandWork(w) /\ Authorized(slot, w.req)
  BY <1>2, <1>4 DEF BaseInv, WorksOK, WorkOK, ReconcilerWork, Process
<1>6. w.req.id \in Ids /\ intent[w.req.id].op \in Operations
  BY <1>5, OperationOf DEF CommandWork
<1>7. intent[w.req.id].op = "release"
  BY <1>4, <1>5, <1>6 DEF CommandWork, Operations, RolloutOperations, ReleaseSteps
<1>8. w.req.mode = "bound"
  BY <1>5, <1>7 DEF CommandWork, RolloutOperations, Presented
<1>9. IsActive(slot) /\ w.req.id = slot.id
  BY <1>5, <1>8 DEF Authorized
<1>10. slot.op = "release"
  BY <1>6, <1>7, <1>9, RuntimeChangeAssumption DEF BaseInv, SlotOK, Ids
<1>11. slot' = slot
  BY <1>1, ActsEffect
<1> QED
  BY <1>1, <1>2, <1>3, <1>4, <1>5, <1>9, <1>10, <1>11

\* Every release found production healthy.
AllFound == \A id \in Ids : intent[id].op = "release" => intent[id].original.healthy

\* Where a recovery takes the runtime for restored.
Settled == {"confirm", "pointer", "cas", "resolve", "reopen", "close"}

\* A candidate is up during its release alone, which has stopped production.
UpOK ==
  candidate = "up" =>
    /\ IsActive(slot) /\ slot.op = "release" /\ container = NoModel
    /\ \A c \in Commander : Live(c) => cmd[c].at \in {"wait", "failing"}
    /\ (\E r \in Reconciler : rec[r].at \in Settled) =>
         \E c \in Commander : \E w \in work[c] :
           w.at = "running" /\ w.does \in {"accept-candidate", "stop-candidate"}

\* The programs of a release script that find no candidate up, and the one that also finds
\* production stopped; a script is not killed once its transaction is recovered.
ProgramsOK(c) ==
  \A w \in work[c] :
    /\ w.at = "running" /\ w.does \in {"release", "stop-production", "start-candidate",
                                       "restore-production"} => candidate # "up"
    /\ w.at = "running" /\ w.does = "start-candidate" => container = NoModel
    /\ w.at = "running" /\ slot.op = "release" /\ slot.state \in RecoveryStates
         => w.script # "killed"
    /\ w.at = "spawned" /\ w.does = "release" /\ w.req.id = slot.id => candidate # "up"

\* The work of a transaction is its owner's.
OwnedWork(c) == \A w \in work[c] : w.req.id = slot.id => slot.owner = {c}

CandidateOK == UpOK /\ \A c \in Commander : ProgramsOK(c)

\* OwnedWorkStays: the work of a transaction stays its owner's.
LEMMA OwnedWorkStays ==
  ASSUME BaseInv, [Next]_vars, NEW d \in Commander, OwnedWork(d)
  PROVE  OwnedWork(d)'
<1> SUFFICES ASSUME NEW v \in work'[d], v.req.id = slot'.id PROVE slot'.owner = {d}
  BY DEF OwnedWork
<1>0. d \in Process /\ WorkOK(d) /\ slot.id \in Nat
  BY ProcessesDiffer, IntentsStay DEF BaseInv, WorksOK
<1>1. \/ \E w \in work[d] : v.req = w.req
      \/ CommandWork(v) /\ Live(d) /\ slot' = slot
  <2>1. CASE UNCHANGED work
    BY <2>1
  <2>2. CASE \E p \in Process : Turns(p)
    BY <1>0, <2>2 DEF Turns, Follows, Starts
  <2> QED
    BY <2>1, <2>2, WorkMoves
<1>2. CASE CommandWork(v) /\ Live(d) /\ slot' = slot
  BY <1>2, LiveFacts
<1>3. CASE \E w \in work[d] : v.req = w.req
  <2>1. PICK w \in work[d] : v.req = w.req
    BY <1>3
  <2>2. w.req.id \in 1 .. slot.id
    BY <1>0, <2>1 DEF WorkOK, CommandWork
  <2>3. slot'.id # slot.id + 1
    BY <1>0, <2>1, <2>2
  <2>4. SlotKept
    BY <2>3, SlotMoves, BeginEffect
  <2> QED
    BY <2>1, <2>4 DEF SlotKept, OwnedWork
<1> QED
  BY <1>1, <1>2, <1>3

\* AllWereFound: what a release found is frozen.
LEMMA AllWereFound ==
  ASSUME BaseInv, [Next]_vars, AllFound'
  PROVE  AllFound
<1> SUFFICES ASSUME NEW id \in Ids, intent[id].op = "release" PROVE intent[id].original.healthy
  BY DEF AllFound
<1>1. IntentOK(id) /\ slot.id \in Nat /\ id \in Nat
  BY IntentsStay DEF BaseInv, IntentsOK, Ids
<1>2. id <= slot.id
  BY <1>1 DEF IntentOK
<1>3. intent'[id] = intent[id]
  BY <1>2, IntentsStay
<1> QED
  BY <1>3 DEF AllFound

\* AloneAtWork: whoever holds the locks is the only one at work.
LEMMA AloneAtWork ==
  ASSUME BaseInv, NEW d \in Process, NEW w \in work[d], w.at = "running",
         NEW p \in Process, WorkActs(p)
  PROVE  p = d
BY ActsEffect DEF BaseInv, WorksOK, Exclusive

\* HoldsTheLocks: while work runs, the slot and the supervisor rest.
LEMMA HoldsTheLocks ==
  ASSUME BaseInv, [Next]_vars, NEW d \in Process, NEW w \in work[d], w.at = "running"
  PROVE  slot' = slot /\ ~LocksFree /\ ~SupervisorStarts
<1>1. ~LocksFree
  BY DEF LocksFree
<1>2. \A c \in Commander : ~Begins(c)
  BY <1>1, BeginEffect
<1> QED
  BY <1>1, <1>2, SlotMoves DEF SlotKept, SupervisorStarts

\* NobodyRecovers: nobody recovers the transaction of a command that goes on.
LEMMA NobodyRecovers ==
  ASSUME BaseInv, NobodyOvertaken, NEW r \in Reconciler, rec[r].at \in Settled
  PROVE  /\ slot.state \in RecoveryStates /\ rec[r].id = slot.id
         /\ \A c \in Commander : ~Live(c)
<1>1. Busy(r)
  BY DEF Busy, Settled
<1>2. rec[r].id = slot.id /\ IsActive(slot)
  BY <1>1 DEF NobodyOvertaken
<1> QED
  BY <1>1, <1>2, LiveFacts DEF BaseInv, ControlOK, ReconcilerOK

\* ProgramsAreKept: the programs of a release script find the runtime as the one before
\* them left it.
LEMMA ProgramsAreKept ==
  ASSUME BaseInv, CandidateOK, \A c \in Commander : OwnedWork(c), [Next]_vars,
         NEW d \in Commander
  PROVE  ProgramsOK(d)'
<1> SUFFICES ASSUME NEW v \in work'[d]
             PROVE  /\ v.at = "running" /\ v.does \in {"release", "stop-production",
                         "start-candidate", "restore-production"} => candidate' # "up"
                    /\ v.at = "running" /\ v.does = "start-candidate" => container' = NoModel
                    /\ v.at = "running" /\ slot'.op = "release"
                         /\ slot'.state \in RecoveryStates => v.script # "killed"
                    /\ v.at = "spawned" /\ v.does = "release" /\ v.req.id = slot'.id
                         => candidate' # "up"
  BY DEF ProgramsOK
<1>0. VarsOK /\ d \in Process /\ WorkOK(d) /\ ProgramsOK(d) /\ UpOK
  BY ProcessesDiffer DEF BaseInv, WorksOK, CandidateOK
<1>1. CASE WorkActs(d)
  <2>1. PICK w \in work[d] :
          /\ w.at = "running" /\ w.script # "killed" /\ ReleaseStep(d, w)
          /\ work'[d] = {v} /\ v.at = "running"
          /\ v.does \in ReleaseSteps /\ v.script \in {w.script, "failing"}
    BY <1>1, ScriptStep
  <2>2. v.script # "killed"
    BY <2>1
  <2>3. w.does \in {"release", "stop-production", "start-candidate", "restore-production"}
          => candidate # "up"
    BY <1>0, <2>1 DEF ProgramsOK
  <2>4. StopFailed # "up"
    BY DEF StopFailed
  <2> QED
    BY <2>1, <2>2, <2>3, <2>4, ScriptLeads
<1>2. CASE v \in work[d] /\ ~WorkActs(d) /\ v.at = "running"
  <2>1. \A p \in Process : ~WorkActs(p)
    BY <1>0, <1>2, AloneAtWork
  <2>2. slot' = slot /\ ~SupervisorStarts
    BY <1>0, <1>2, HoldsTheLocks
  <2>3. container' \in {container, NoModel} /\ candidate' \in {candidate, "none"}
    BY <2>1, <2>2, ContainerMoves, CandidateMoves
  <2> QED
    BY <1>0, <1>2, <2>2, <2>3 DEF ProgramsOK
<1>3. CASE v \in work[d] /\ v.at = "spawned"
  <2> SUFFICES ASSUME v.does = "release", v.req.id = slot'.id, candidate' = "up" PROVE FALSE
    BY <1>3
  <2>1. v.req.id \in 1 .. slot.id /\ slot.id \in Nat
    BY <1>0, <1>3, IntentsStay DEF WorkOK, CommandWork
  <2>2. SlotKept
    BY <2>1, SlotMoves, BeginEffect
  <2>3. v.req.id = slot.id /\ candidate # "up"
    BY <1>0, <1>3, <2>2 DEF SlotKept, ProgramsOK
  <2>4. PICK c \in Commander : \E w \in work[c] : w.at = "running" /\ w.req.id = slot.id
    BY <2>3, BecomesUp
  <2>5. slot.owner = {c} /\ slot.owner = {d}
    BY <1>3, <2>3, <2>4 DEF OwnedWork
  <2> QED
    BY <1>0, <1>3, <2>4, <2>5 DEF WorkOK
<1>4. CASE v \notin work[d] /\ ~WorkActs(d)
  <2>1. SpawnWork(d) \/ Raise(d) \/ WorkEnters(d) \/ WorkFails(d)
    BY <1>4, WorkTurns
  <2>2. CASE SpawnWork(d)
    <3>1. cmd[d].at = "act" /\ candidate' = candidate
      BY <2>2 DEF SpawnWork, At, runtime
    <3>2. candidate # "up"
      BY <1>0, <3>1 DEF UpOK, Live
    <3>3. \A u \in work'[d] : u.at = "spawned"
      BY <1>0, <2>2 DEF SpawnWork, VarsOK
    <3> QED
      BY <3>1, <3>2, <3>3
  <2>3. CASE Raise(d)
    <3>1. /\ v \in Survivors(work[d]) /\ cmd[d].at = "wait"
          /\ slot' = slot /\ UNCHANGED <<container, candidate>>
      BY <1>0, <1>4, <2>3 DEF Raise, VarsOK, runtime
    <3>2. PICK w \in work[d] : w.at = "running" /\ v.at = w.at /\ v.does = w.does
      BY <1>0, <3>1, SurvivorsFacts DEF VarsOK
    <3>3. ASSUME slot.op = "release" PROVE slot.state \notin RecoveryStates
      <4>1. Live(d)
        BY <3>1 DEF Live
      <4>2. cmd[d].step = 0
        BY <3>1, <3>3, <4>1, AwaitedFacts, <3>2 DEF CommandWork, RolloutOperations
      <4>3. slot.state \in DOMAIN ReleaseStates
        BY <3>3, <4>1, <4>2 DEF BaseInv, ControlOK, CommandOK
      <4> QED
        BY <4>3 DEF ReleaseStates, RecoveryStates
    <3> QED
      BY <1>0, <3>1, <3>2, <3>3 DEF ProgramsOK
  <2>4. CASE WorkEnters(d)
    <3>1. PICK w \in work[d] :
            /\ w.at = "spawned" /\ Authorized(slot, w.req)
            /\ work'[d] = {[w EXCEPT !.at = "running"]}
            /\ slot' = slot /\ candidate' = candidate
      BY <1>0, <2>4 DEF WorkEnters, VarsOK, runtime
    <3>2. v.does = w.does /\ v.script = w.script /\ v.at = "running"
      BY <1>0, <3>1 DEF VarsOK, Works
    <3>3. CommandWork(w) /\ w.script = "passing" /\ w.does \notin ReleaseSteps
      BY <1>0, <3>1 DEF WorkOK, CommandWork
    <3>4. ASSUME w.does = "release" PROVE candidate # "up"
      <4>1. intent[w.req.id].op \notin RolloutOperations
        BY <3>3, <3>4 DEF CommandWork
      <4>2. w.req.mode = "bound"
        BY <3>3, <4>1 DEF CommandWork, Presented
      <4>3. w.req.id = slot.id
        BY <3>1, <4>2 DEF Authorized
      <4> QED
        BY <1>0, <3>1, <3>4, <4>3 DEF ProgramsOK
    <3> QED
      BY <3>1, <3>2, <3>3, <3>4 DEF ReleaseSteps
  <2>5. CASE WorkFails(d)
    <3>1. work'[d] = {}
      BY <1>0, <2>5 DEF WorkFails, WorkOver, VarsOK
    <3> QED
      BY <3>1
  <2> QED
    BY <2>1, <2>2, <2>3, <2>4, <2>5
<1> QED
  <2>1. v \in work[d] => v.at \in {"running", "spawned"}
    BY <1>0 DEF VarsOK, Works
  <2> QED
    BY <1>1, <1>2, <1>3, <1>4, <2>1

\* ScriptGoesForward: a program of an unkilled script that looks after the candidate is
\* followed by another.
LEMMA ScriptGoesForward ==
  ASSUME BaseInv, NEW c \in Commander, NEW w \in work[c], w.at = "running",
         w.script # "killed", w.does \in {"start-candidate", "accept-candidate", "stop-candidate"},
         WorkActs(c)
  PROVE  /\ UNCHANGED <<cmd, rec>>
         /\ \E v : work'[c] = {v} /\ v.at = "running"
         /\ candidate' = "up" =>
              /\ w.does # "stop-candidate"
              /\ \E v \in work'[c] :
                   v.at = "running" /\ v.does \in {"accept-candidate", "stop-candidate"}
<1>0. VarsOK /\ c \in Process /\ WorkOK(c) /\ w \in Works
  BY ProcessesDiffer DEF BaseInv, WorksOK, VarsOK
<1>1. ReleaseStartsCandidate(c, w) \/ ReleaseAccepts(c, w) \/ ReleaseStopsCandidate(c, w)
  <2>1. PICK u \in work[c] :
          \/ WorkSelects(c, u) \/ WorkStops(c, u) \/ WorkStarts(c, u)
          \/ WorkRestores(c, u) \/ ReleaseStep(c, u)
    BY DEF WorkActs
  <2>2. u = w
    BY <1>0, <2>1 DEF WorkOK
  <2> QED
    BY <2>1, <2>2
    DEF WorkSelects, WorkStops, WorkStarts, WorkRestores, ReleaseStep, ReleaseBegins,
        ReleaseStops, ReleaseRestores
<1>2. PICK next : ScriptGoesOn(c, w, next)
  BY <1>1 DEF ReleaseStartsCandidate, ReleaseAccepts, ReleaseStopsCandidate
<1>3. UNCHANGED <<cmd, rec>> /\ work'[c] = {next}
  BY <1>0, <1>2 DEF ScriptGoesOn, VarsOK
<1>4. next \in work'[c]
  BY <1>3
<1>5. next.at = "running"
  BY <1>4, ScriptStep
<1>6. ReleaseStep(c, w)
  BY <1>1 DEF ReleaseStep
<1>7. StopFailed # "up"
  BY DEF StopFailed
<1> QED
  BY <1>3, <1>4, <1>5, <1>6, <1>7, ScriptLeads

\* SettlesWith: a recovery takes the runtime for restored where it finds it so.
LEMMA SettlesWith ==
  ASSUME BaseInv, [Next]_vars, NEW r \in Reconciler, rec'[r].at \in Settled
  PROVE  \/ rec[r].at \in Settled
         \/ /\ rec[r].at \in {"planned", "verify"} /\ slot' = slot
            /\ rec'[r].id = rec[r].id
            /\ Restored(Recovers(r).original)
<1>1. CASE rec'[r].at = "confirm"
  <2>1. rec'[r] = rec[r] \/ Classify(r)
    BY <1>1, Confirming
  <2>2. CASE Classify(r)
    <3>1. rec[r].at = "planned" /\ slot' = slot
      BY <2>2 DEF Classify
    <3>2. ~Goes(r, "restore")
      <4> SUFFICES ASSUME Goes(r, "restore") PROVE FALSE
        OBVIOUS
      <4>1. rec'[r].at = "restore"
        BY GoesEffect DEF Places, BaseInv
      <4> QED
        BY <1>1, <4>1
    <3>3. Restored(Recovers(r).original) /\ Goes(r, "confirm")
      BY <2>2, <3>2 DEF Classify
    <3>4. rec'[r].id = rec[r].id
      BY <3>3, GoesEffect DEF Places, BaseInv
    <3> QED
      BY <3>1, <3>3, <3>4
  <2> QED
    BY <1>1, <2>1, <2>2
<1>2. CASE rec'[r].at # "confirm"
  <2>1. Concludes(r)
    BY <1>2, Conclusions DEF Settled
  <2>2. CASE Verify(r)
    BY <2>1, <2>2 DEF Verify, Concludes
  <2>3. CASE ~Verify(r)
    BY <2>1, <2>3 DEF Concludes, Settled, Confirm, ReadPointer, RestorePointer
  <2> QED
    BY <2>2, <2>3
<1> QED
  BY <1>1, <1>2

\* NothingRestored: beside a candidate that is up no release finds a runtime restored.
LEMMA NothingRestored ==
  ASSUME BaseInv, NobodyOvertaken, AllFound, UpOK, candidate = "up",
         NEW r \in Reconciler, Busy(r), Restored(Recovers(r).original)
  PROVE  FALSE
<1>1. rec[r].id = slot.id /\ IsActive(slot) /\ slot.op = "release" /\ container = NoModel
  BY DEF NobodyOvertaken, UpOK
<1>2. slot.id \in Ids /\ slot.op = intent[slot.id].op
  BY <1>1, RuntimeChangeAssumption DEF BaseInv, SlotOK, VarsOK, Docs, IsActive, Ids
<1>3. intent[slot.id].original.healthy
  BY <1>1, <1>2 DEF AllFound
<1>4. container = selection /\ selection \in Model
  BY <1>1, <1>3 DEF Restored, Recovers, BaseInv, VarsOK
<1> QED
  BY <1>1, <1>4, RuntimeChangeAssumption

\* UpBegins: a candidate comes up in its release, beside nothing.
LEMMA UpBegins ==
  ASSUME BaseInv, NobodyOvertaken, CandidateOK, [Next]_vars,
         candidate # "up", candidate' = "up"
  PROVE  UpOK'
<1>0. VarsOK
  BY DEF BaseInv
<1>11. PICK c \in Commander : \E w \in work[c] :
        /\ WorkActs(c) /\ w.at = "running" /\ w.does = "start-candidate"
        /\ IsActive(slot) /\ slot.op = "release"
        /\ slot' = slot /\ container' = container
        /\ ReleaseStartsCandidate(c, w)
  BY BecomesUp
<1>1. PICK w \in work[c] :
        /\ WorkActs(c) /\ w.at = "running" /\ w.does = "start-candidate"
        /\ IsActive(slot) /\ slot.op = "release"
        /\ slot' = slot /\ container' = container
        /\ ReleaseStartsCandidate(c, w)
  BY <1>11
<1>2. container' = NoModel
  BY <1>1 DEF CandidateOK, ProgramsOK
<1>3. UNCHANGED <<cmd, rec>> \/ WorkOver(c, FALSE)
  BY <1>1 DEF ReleaseStartsCandidate, ScriptGoesOn
<1>4. UNCHANGED rec
  <2>1. c \in Process /\ c \notin Reconciler
    BY ProcessesDiffer
  <2>2. CASE WorkOver(c, FALSE)
    BY <2>1, <2>2 DEF WorkOver, RecAfter
  <2> QED
    BY <1>3, <2>2
<1>5. ASSUME NEW d \in Commander, Live(d)' PROVE cmd'[d].at \in {"wait", "failing"}
  <2>1. CASE UNCHANGED <<cmd, rec>>
    <3>1. Live(d)
      BY <1>5, <2>1 DEF Live
    <3> QED
      BY <1>1, <2>1, <3>1, LiveWorkActs, ProcessesDiffer
  <2>2. CASE WorkOver(c, FALSE)
    <3>1. c \in Process
      BY ProcessesDiffer
    <3>2. \/ cmd'[d] = cmd[d]
          \/ cmd'[d].at = "failing"
      BY <1>0, <2>2, <3>1, WorkOverEffect
    <3>3. CASE cmd'[d] = cmd[d]
      <4>1. Live(d)
        BY <1>5, <3>3 DEF Live
      <4> QED
        BY <1>1, <3>1, <3>3, <4>1, LiveWorkActs
    <3> QED
      BY <3>2, <3>3
  <2> QED
    BY <1>3, <2>1, <2>2
<1>6. ASSUME NEW r \in Reconciler, rec'[r].at \in Settled
      PROVE  \E v \in work'[c] :
               v.at = "running" /\ v.does \in {"accept-candidate", "stop-candidate"}
  <2>1. slot.state \in RecoveryStates
    BY <1>4, <1>6, NobodyRecovers
  <2>2. w.script # "killed"
    BY <1>1, <2>1 DEF CandidateOK, ProgramsOK
  <2> QED
    BY <1>1, <2>2, ScriptGoesForward
<1> QED
  BY <1>1, <1>2, <1>5, <1>6 DEF UpOK, IsActive, IsTerminal

\* UpActs: beside a candidate that is up, no work starts a container.
LEMMA UpActs ==
  ASSUME BaseInv, CandidateOK, candidate = "up", candidate' = "up",
         NEW p \in Process, WorkActs(p)
  PROVE  container' \in {container, NoModel}
<1>0. /\ VarsOK /\ UpOK /\ WorkOK(p) /\ IsActive(slot) /\ slot.op = "release"
      /\ slot.op = intent[slot.id].op
  BY DEF BaseInv, CandidateOK, WorksOK, UpOK, SlotOK, IsActive
<1>1. PICK w \in work[p] :
        /\ w.at = "running"
        /\ \/ WorkSelects(p, w) \/ WorkStops(p, w) \/ WorkStarts(p, w)
           \/ WorkRestores(p, w) \/ ReleaseStep(p, w)
  BY DEF WorkActs
<1>2. ~WorkRestores(p, w)
  BY DEF WorkRestores, StopFailed
<1>3. ASSUME w.does # "restore"
      PROVE  p \in Commander /\ w.does \in {"release"} \union ReleaseSteps
  <2>1. p \in Commander /\ CommandWork(w)
    BY <1>0, <1>3 DEF WorkOK, ReconcilerWork, Process
  <2>2. Authorized(slot, w.req)
    BY <1>0, <1>1 DEF WorkOK
  <2>3. w.req.id = slot.id
    BY <1>0, <2>2 DEF Authorized
  <2> QED
    BY <1>0, <2>1, <2>3 DEF CommandWork
<1>4. ~WorkStarts(p, w)
  BY <1>3 DEF WorkStarts, ReleaseSteps
<1>5. ~ReleaseRestores(p, w)
  <2> SUFFICES ASSUME ReleaseRestores(p, w) PROVE FALSE
    OBVIOUS
  <2>1. w.does = "restore-production"
    BY DEF ReleaseRestores
  <2> QED
    BY <1>1, <1>3, <2>1 DEF CandidateOK, ProgramsOK
<1> QED
  BY <1>1, <1>2, <1>4, <1>5
  DEF WorkSelects, WorkStops, ReleaseStep, ReleaseBegins, ReleaseStops,
      ReleaseStartsCandidate, ReleaseAccepts, ReleaseStopsCandidate, runtime

\* UpStays: what holds beside a candidate that is up goes on holding while it is.
LEMMA UpStays ==
  ASSUME BaseInv, NobodyOvertaken, AllFound, CandidateOK, [Next]_vars, BaseInv', EffectOK',
         candidate = "up", candidate' = "up"
  PROVE  UpOK'
<1>0. /\ VarsOK /\ UpOK /\ IsActive(slot) /\ slot.op = "release" /\ container = NoModel
      /\ \A c \in Commander : Live(c) => cmd[c].at \in {"wait", "failing"}
  BY DEF BaseInv, CandidateOK, UpOK
<1>1. SlotKept
  BY <1>0, SlotMoves, BeginEffect
<1>2. \A c \in Commander : ~Begins(c) /\ ~Enter(c) /\ ~Journal(c) /\ ~Complete(c)
  BY <1>0, BeginEffect DEF Live, Enter, Journal, Complete
<1>3. \A r \in Reconciler : ~Close(r)
  <2> SUFFICES ASSUME NEW r \in Reconciler, Close(r) PROVE FALSE
    OBVIOUS
  <2>1. rec[r].at \in Settled /\ LocksFree
    BY DEF Close, Settled
  <2>2. \E c \in Commander : \E w \in work[c] : w.at = "running"
    BY <1>0, <2>1 DEF UpOK
  <2> QED
    BY <2>1, <2>2, ProcessesDiffer DEF LocksFree
<1>4. IsActive(slot') /\ slot'.op = "release"
  <2>1. slot' = slot \/ slot'.state \in RecoveryStates
    BY <1>2, <1>3, SlotSteps
  <2>2. CASE slot'.state \in RecoveryStates
    <3>1. slot'.schema = 2
      BY DEF BaseInv, VarsOK, Docs
    <3> QED
      BY <1>0, <1>1, <2>2, <3>1
      DEF SlotKept, IsActive, IsTerminal, TerminalStates, RecoveryStates
  <2> QED
    BY <1>0, <2>1, <2>2
<1>5. container' = NoModel
  BY <1>0, ContainerMoves, UpActs DEF SupervisorStarts
<1>6. ASSUME NEW c \in Commander, Live(c)' PROVE cmd'[c].at \in {"wait", "failing"}
  <2> SUFFICES ASSUME GoesOn(c)' PROVE cmd'[c].at = "wait"
    BY <1>6 DEF GoesOn
  <2>1. DoneActions(c)' = 0
    <3>1. ~(DoneActions(c)' > 0)
      BY <1>4 DEF EffectOK, ForwardOK
    <3>2. DoneActions(c)' \in Nat
      <4>1. cmd'[c].step \in Nat
        BY DEF BaseInv, VarsOK, Cmds
      <4> QED
        BY <4>1 DEF DoneActions
    <3> QED
      BY <3>1, <3>2
  <2>2. GoesOn(c) /\ DoneActions(c)' = DoneActions(c)
    <3>1. cmd[c].step \in Nat
      BY <1>0 DEF VarsOK, Cmds
    <3> QED
      BY <1>2, <2>1, <3>1, PlanSteps
  <2>3. cmd[c].at = "wait"
    BY <1>0, <2>2 DEF GoesOn
  <2> QED
    BY <2>2, <2>3, WaitsOn
<1>7. ASSUME NEW r \in Reconciler, rec'[r].at \in Settled
      PROVE  \E c \in Commander : \E w \in work'[c] :
               w.at = "running" /\ w.does \in {"accept-candidate", "stop-candidate"}
  <2>1. rec[r].at \in Settled
    <3> SUFFICES ASSUME rec[r].at \in {"planned", "verify"}, Restored(Recovers(r).original)
                 PROVE  FALSE
      BY <1>7, SettlesWith
    <3>1. Busy(r)
      BY DEF Busy
    <3> QED
      BY <1>0, <3>1, NothingRestored
  <2>9. PICK c \in Commander : \E w \in work[c] :
           w.at = "running" /\ w.does \in {"accept-candidate", "stop-candidate"}
    BY <1>0, <2>1 DEF UpOK
  <2>2. PICK w \in work[c] :
          w.at = "running" /\ w.does \in {"accept-candidate", "stop-candidate"}
    BY <2>9
  <2>3. slot.state \in RecoveryStates /\ ~Live(c)
    BY <2>1, NobodyRecovers
  <2>4. w.script # "killed" /\ WorkOK(c)
    BY <1>0, <2>2, <2>3, ProcessesDiffer DEF CandidateOK, ProgramsOK, BaseInv, WorksOK
  <2>5. CASE WorkActs(c)
    BY <2>2, <2>4, <2>5, ScriptGoesForward
  <2>6. CASE work'[c] = work[c]
    BY <2>2, <2>6
  <2>7. ~SpawnWork(c) /\ ~WorkEnters(c) /\ ~WorkFails(c)
    <3>1. \A u \in work[c] : u = w
      BY <2>2, <2>4 DEF WorkOK
    <3> QED
      BY <2>2, <2>4, <3>1 DEF SpawnWork, WorkEnters, WorkFails, ReleaseSteps
  <2>8. ~Raise(c)
    BY <2>3 DEF Raise, Live
  <2> QED
    BY <2>5, <2>6, <2>7, <2>8, WorkTurns
<1> QED
  BY <1>4, <1>5, <1>6, <1>7 DEF UpOK

\* CandidateStaysSerial: production and candidate run together only where docker failed to
\* stop the candidate or a release had found production down.
THEOREM CandidateStaysSerial == Spec /\ []NobodyOvertaken => []CandidateIsSerial
<1> DEFINE Serial == (\A c \in Commander : OwnedWork(c)) /\ (AllFound => CandidateOK)
<1>1. Init => EffectOK /\ Serial
  BY DEF Init, EffectOK, ForwardOK, ScriptOK, GoesOn, Live, Quiet, Process, OwnedWork,
         CandidateOK, UpOK, ProgramsOK
<1>2. BaseInv /\ NobodyOvertaken /\ EffectOK /\ [Next]_vars => EffectOK'
  BY ForwardIsKept, ScriptIsKept DEF EffectOK
<1>3. BaseInv /\ NobodyOvertaken /\ Serial /\ [Next]_vars /\ BaseInv' /\ EffectOK' => Serial'
  <2> SUFFICES ASSUME BaseInv, NobodyOvertaken, Serial, [Next]_vars, BaseInv', EffectOK'
               PROVE  Serial'
    OBVIOUS
  <2>1. \A c \in Commander : OwnedWork(c)'
    BY OwnedWorkStays
  <2>2. ASSUME AllFound' PROVE CandidateOK'
    <3>1. AllFound /\ CandidateOK
      BY <2>2, AllWereFound
    <3>2. \A c \in Commander : ProgramsOK(c)'
      BY <3>1, ProgramsAreKept
    <3>3. UpOK'
      <4>1. CASE candidate' # "up"
        BY <4>1 DEF UpOK
      <4>2. CASE candidate' = "up" /\ candidate # "up"
        BY <3>1, <4>2, UpBegins
      <4>3. CASE candidate' = "up" /\ candidate = "up"
        BY <3>1, <4>3, UpStays
      <4> QED
        BY <4>1, <4>2, <4>3
    <3> QED
      BY <3>2, <3>3 DEF CandidateOK
  <2> QED
    BY <2>1, <2>2
<1>4. Serial => CandidateIsSerial
  BY DEF CandidateOK, UpOK, AllFound, CandidateIsSerial
<1> QED
  BY <1>1, <1>2, <1>3, <1>4, BaseIsInvariant, PTL DEF Spec

--------------------------------------------------------------------------------
(* One reconciler                                                          *)

\* OneReconcilerIsEnough: where one process at most runs reconcile --yes, nobody is
\* overtaken: an operator who recovers from one terminal needs nothing else.
THEOREM OneReconcilerIsEnough ==
  ASSUME \A r, s \in Reconciler : r = s
  PROVE  Spec => /\ []PointerIsRecoverable /\ []CandidateIsSerial
                 /\ AnchorFollowsVerdict /\ AnchorIsOneShot
                 /\ CompletedIsInEffect
<1>1. Spec => []NobodyOvertaken
  BY OneIsNeverOvertaken
<1> QED
  BY <1>1, PointerStaysRecoverable, CandidateStaysSerial, AnchorStaysInStep,
     AnchorsAreOneShot, CompletedStaysInEffect, PTL

\* OneReconcilerUndoes: of upgrades and rollbacks, the one reconciler leaves those that
\* failed undone, and has the runtime to itself.
THEOREM OneReconcilerUndoes ==
  ASSUME \A r, s \in Reconciler : r = s, Commands \subseteq RolloutOperations
  PROVE  Spec => FailedIsUndone /\ RecoveryIsExclusive
<1>1. Spec => []NobodyOvertaken
  BY OneIsNeverOvertaken
<1>2. Spec /\ []NobodyOvertaken => FailedIsUndone
  BY FailuresAreUndone
<1>3. Spec /\ []NobodyOvertaken => RecoveryIsExclusive
  BY RolloutsAreRecovered
<1> QED
  BY <1>1, <1>2, <1>3, PTL

================================================================================
