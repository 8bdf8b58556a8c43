-------------------------- MODULE WorkflowRunProofs --------------------------
(***************************************************************************)
(* The safety of WorkflowRun, for every plan, any number of calls, run ids *)
(* and crashes. The invariant says of each call where it is, which steps   *)
(* are at work and which have results (Fits, in the variables of that call *)
(* alone); of all calls that they are numbered as made, and that only the  *)
(* latest can be open; and, while no plan has outlived its timer, that the *)
(* files say what that call knows (OnDisk). The sections after it are      *)
(* about a step on its way to an adapter: which one the registry resolves  *)
(* to, for any names, and how often an attempt runs the action; about the  *)
(* states that machines and the record give to an execution and its steps; *)
(* and about what is decided before they start: the guards of a step, the  *)
(* limits and the strategy of a run, and what its expressions become.      *)
(***************************************************************************)
EXTENDS WorkflowRun, Adapters, ExecutionStates, Guards, Resolution,
        DistinctSequences, TLAPS, SequenceTheorems, FiniteSetTheorems

\* PlanRuns, of the values of a call.
Runs(p, ph) == ph \in DOMAIN Plan /\ p # "lost"

\* How far a call is, what it has answered, and what it has been given.
Course(p, id, how, ph, out) ==
  /\ p = "idle" <=> id = "none"
  /\ p = "idle" => how = "no"
  /\ p \in {"idle", "starting", "refused"} => ph = 0
  /\ p = "running" => ph \in DOMAIN Plan
  /\ p \in {"idle", "starting", "refused", "running"} => out = "none"
  /\ p = "failing" => out \in {"failure", "timeout"}
  /\ p = "returned" => out # "none"
  /\ out = "success" => p = "returned" /\ ph = Len(Plan) + 1
  /\ Runs(p, ph) /\ out # "timeout" => p = "running"

\* The steps of the current phase and no others are at work.
AtWork(p, ph, lv) ==
  IF Runs(p, ph) THEN /\ \A s \in ToSet(Plan[ph]) : lv[s].status # "none"
                      /\ \A s \in Step : lv[s] # NoResult => s \in ToSet(Plan[ph])
                 ELSE \A s \in Step : lv[s] = NoResult

\* What the recorded results say of the phases before the current one.
Recorded(p, ph, lv, rs, out) ==
  /\ \A s \in Step : rs[s].status \notin {"running", "rejected"}
                     /\ (rs[s].status = "none" => rs[s] = NoResult)
  /\ p \in {"idle", "starting", "refused"} =>
       \A s \in Step : rs[s] = NoResult \/ Completed(rs[s])
  /\ Runs(p, ph) =>
       /\ \A i \in 1 .. ph - 1 : \A s \in ToSet(Plan[i]) : rs[s].status # "none"
       /\ \A s \in Step :
            /\ rs[s].status = "failure" => s \in Continuing
            /\ rs[s].status \in {"failure", "timeout"} =>
                 \A j \in DOMAIN Plan : s \in ToSet(Plan[j]) => j < ph
            /\ s \in ToSet(Plan[ph]) /\ Completed(rs[s]) => Completed(lv[s])
  /\ out = "success" =>
       \A s \in Step : rs[s] # NoResult /\ (rs[s].status = "failure" => s \in Continuing)

Fits(e) ==
  /\ Course(pc[e], runOf[e], resumed[e], phase[e], outcome[e])
  /\ AtWork(pc[e], phase[e], live[e])
  /\ Recorded(pc[e], phase[e], live[e], results[e], outcome[e])

\* Calls are numbered as made, and the last one made is in the field.
InOrder ==
  \A e, f \in Exec : pc[e] # "idle" => /\ f < e => pc[f] # "idle"
                                       /\ e <= field

\* As a run is resumed only when none of its calls is open.
OneOpen == OneRun => \A e \in Exec : Open(e) => field = e

Quiet == NoStragglers /\ OneRun

\* The last call that was not refused.
Worked(f) == pc[f] # "idle" /\ \A g \in Exec : g > f => pc[g] \in {"idle", "refused"}

\* The files tell how the last call returned, know no completed step that the
\* open call does not, and have every failure of the last call that worked: so
\* a strict resume after it has seen the exhausted ones.  A checkpoint that a
\* crash has cut has none of them, and a strict resume of it is refused.
OnDisk ==
  /\ ReturnIsOnDisk
  /\ \A e \in Exec, s \in Step :
       Open(e) /\ resumed[e] # "no" /\ Completed(checkpoint[runOf[e]].steps[s])
         => Completed(results[e][s])
  /\ \A f \in Exec, s \in Step :
       Worked(f) /\ results[f][s].status = "failure"
         => \/ checkpoint[runOf[f]].status = "none"
            \/ checkpoint[runOf[f]].steps[s] = results[f][s]
  /\ \A e, f \in Exec, s \in Step :
       resumed[e] = "strict" /\ Predecessor(f, e)
         => ~(results[f][s].status = "failure" /\ results[f][s].attempts > MaxAttempt(s))

IInv == /\ TypeOK
        /\ \A e \in Exec : Fits(e)
        /\ InOrder
        /\ OneOpen
        /\ Quiet => OnDisk

-----------------------------------------------------------------------------
(***************************************************************************)
(* The operators of the model                                              *)
(***************************************************************************)
\* The phases are sequences of steps.
LEMMA PlanFacts ==
  /\ Len(Plan) \in Nat \ {0} /\ DOMAIN Plan = 1 .. Len(Plan)
  /\ \A i \in DOMAIN Plan : Plan[i] \in Seq(Step) /\ ToSet(Plan[i]) \subseteq Step
<1>1. Plan \in Seq(Seq(Step)) /\ Plan # <<>>
  BY PlanAssumption
<1>2. Len(Plan) \in Nat \ {0} /\ DOMAIN Plan = 1 .. Len(Plan)
  BY <1>1, LenProperties, EmptySeq
<1>3. \A i \in DOMAIN Plan : Plan[i] \in Seq(Step)
  BY <1>1, <1>2, ElementOfSeq
<1>4. \A p \in Seq(Step) : ToSet(p) \subseteq Step
  BY LenProperties, ElementOfSeq DEF ToSet
<1> QED
  BY <1>2, <1>3, <1>4

\* Calls are numbers, and "none" is no run id.
LEMMA CallFacts == Exec \subseteq Nat /\ "none" \notin RunId /\ 1 \in Exec
  BY StepAssumption, RunAssumption DEF Exec

\* The results recorded first are those of steps of the phase.
LEMMA PrefixInPhase ==
  ASSUME NEW p \in Seq(Step), NEW n \in 0 .. Len(p)
  PROVE  /\ ToSet(SubSeq(p, 1, n)) \subseteq ToSet(p)
         /\ n = Len(p) => ToSet(SubSeq(p, 1, n)) = ToSet(p)
<1>1. Len(p) \in Nat /\ DOMAIN p = 1 .. Len(p)
  BY LenProperties
<1>2. /\ Len(SubSeq(p, 1, n)) = n
      /\ DOMAIN SubSeq(p, 1, n) = 1 .. n
      /\ \A i \in 1 .. n : SubSeq(p, 1, n)[i] = p[i]
  BY <1>1, SubSeqProperties
<1>3. ToSet(SubSeq(p, 1, n)) = {p[i] : i \in 1 .. n}
  BY <1>2 DEF ToSet
<1>4. ToSet(p) = {p[i] : i \in 1 .. Len(p)}
  BY <1>1 DEF ToSet
<1>5. 1 .. n \subseteq 1 .. Len(p)
  BY <1>1
<1> QED
  BY <1>3, <1>4, <1>5

\* RecordedTo is the first place of the phase that stops the workflow, and
\* its length if none does.
LEMMA RecordedToFacts ==
  ASSUME NEW e \in Exec, phase[e] \in DOMAIN Plan
  PROVE  /\ RecordedTo(e) \in 0 .. Len(Plan[phase[e]])
         /\ (\A s \in ToSet(Plan[phase[e]]) : ~Stops(e, s))
              => RecordedTo(e) = Len(Plan[phase[e]])
<1> DEFINE p == Plan[phase[e]]
           stops == {i \in DOMAIN p : Stops(e, p[i])}
<1>1. p \in Seq(Step) /\ Len(p) \in Nat /\ DOMAIN p = 1 .. Len(p)
  BY PlanFacts, LenProperties
<1>2. CASE stops = {}
  BY <1>1, <1>2 DEF RecordedTo
<1>3. CASE stops # {}
  <2>1. stops \subseteq Nat
    BY <1>1
  <2>2. IsWellFoundedOn(OpToRel(<, Nat), Nat)
    BY NatLessThanWellFounded
  <2>3. \E i \in stops : \A j \in stops : ~(<<j, i>> \in OpToRel(<, Nat))
    BY <1>3, <2>1, <2>2, WFMin
  <2>4. \E i \in stops : \A j \in stops : i <= j
    <3>1. \A i, j \in Nat : j < i => <<j, i>> \in OpToRel(<, Nat)
      BY DEF OpToRel
    <3>2. PICK i \in stops : \A j \in stops : ~(<<j, i>> \in OpToRel(<, Nat))
      BY <2>3
    <3>3. \A j \in stops : ~(j < i)
      BY <2>1, <3>1, <3>2
    <3>4. \A j \in stops : i <= j
      BY <2>1, <3>3
    <3> QED
      BY <3>4
  <2>5. (CHOOSE i \in stops : \A j \in stops : i <= j) \in stops
    BY <2>4
  <2>6. RecordedTo(e) \in stops
    BY <1>3, <2>5 DEF RecordedTo
  <2>7. \E i \in DOMAIN p : Stops(e, p[i])
    BY <1>3
  <2>8. \E s \in ToSet(p) : Stops(e, s)
    BY <2>7 DEF ToSet
  <2> QED
    BY <1>1, <2>6, <2>8
<1> QED
  BY <1>2, <1>3

\* What a step begins a phase with.
LEMMA StartedFacts ==
  ASSUME NEW i \in DOMAIN Plan, NEW res \in [Step -> ResultSet], NEW outs, NEW skip
  PROVE  /\ Started(i, res, outs, skip) \in [Step -> ResultSet]
         /\ \A s \in ToSet(Plan[i]) : Started(i, res, outs, skip)[s].status # "none"
         /\ \A s \in Step : s \notin ToSet(Plan[i]) => Started(i, res, outs, skip)[s] = NoResult
         /\ \A s \in ToSet(Plan[i]) :
              Completed(res[s]) => Started(i, res, outs, skip)[s] = res[s]
<1> DEFINE new == Started(i, res, outs, skip)
<1>1. ToSet(Plan[i]) \subseteq Step
  BY PlanFacts
<1>2. \A s \in Step :
        \/ s \notin ToSet(Plan[i]) /\ new[s] = NoResult
        \/ s \in ToSet(Plan[i]) /\ Completed(res[s]) /\ new[s] = res[s]
        \/ /\ s \in ToSet(Plan[i]) /\ ~Completed(res[s])
           /\ new[s] \in {Outcome("skipped", 0), Outcome("rejected", 1), Outcome("running", 1)}
  BY DEF Started
<1>3. {NoResult, Outcome("skipped", 0), Outcome("rejected", 1), Outcome("running", 1)}
        \subseteq ResultSet
  BY DEF ResultSet, NoResult, Outcome, Status
<1>4. \A s \in Step : new[s] \in ResultSet
  BY <1>2, <1>3
<1>5. new \in [Step -> ResultSet]
  BY <1>4 DEF Started
<1>6. \A s \in ToSet(Plan[i]) : new[s].status # "none"
  BY <1>1, <1>2 DEF Outcome, Completed
<1> QED
  BY <1>1, <1>2, <1>5, <1>6

\* The empty results are results.
LEMMA NothingType == NoResult \in ResultSet /\ Nothing \in [Step -> ResultSet]
  BY DEF Nothing, NoResult, Outcome, ResultSet, Status

\* What a resumed call begins with.
LEMMA RestoredFacts ==
  ASSUME NEW saved, saved.steps \in [Step -> ResultSet]
  PROVE  /\ Restored(saved) \in [Step -> ResultSet]
         /\ \A s \in Step :
              \/ ~Completed(saved.steps[s]) /\ Restored(saved)[s] = NoResult
              \/ Completed(saved.steps[s]) /\ Completed(Restored(saved)[s])
<1>1. ASSUME NEW s \in Step
      PROVE  /\ Restored(saved)[s] \in ResultSet
             /\ \/ ~Completed(saved.steps[s]) /\ Restored(saved)[s] = NoResult
                \/ Completed(saved.steps[s]) /\ Completed(Restored(saved)[s])
  <2>1. saved.steps[s] \in ResultSet
    OBVIOUS
  <2>2. CASE Completed(saved.steps[s])
    BY <2>1, <2>2 DEF Restored, Completed, Outcome, ResultSet, Status
  <2>3. CASE ~Completed(saved.steps[s])
    BY <2>3, NothingType DEF Restored
  <2> QED
    BY <2>2, <2>3
<1> QED
  BY <1>1 DEF Restored

\* What the results are once the first n of a phase are recorded.
LEMMA AfterFacts ==
  ASSUME TypeOK, NEW e \in Exec, phase[e] \in DOMAIN Plan,
         NEW n \in 0 .. Len(Plan[phase[e]])
  PROVE  /\ After(e, n) \in [Step -> ResultSet]
         /\ \A s \in Step : \/ s \in ToSet(Plan[phase[e]]) /\ After(e, n)[s] = AsResult(live[e][s])
                            \/ After(e, n)[s] = results[e][s]
         /\ \A s \in Step : s \notin ToSet(Plan[phase[e]]) => After(e, n)[s] = results[e][s]
         /\ n = Len(Plan[phase[e]]) =>
              \A s \in ToSet(Plan[phase[e]]) : After(e, n)[s] = AsResult(live[e][s])
<1>1. Plan[phase[e]] \in Seq(Step) /\ ToSet(Plan[phase[e]]) \subseteq Step
  BY PlanFacts
<1>2. /\ ToSet(SubSeq(Plan[phase[e]], 1, n)) \subseteq ToSet(Plan[phase[e]])
      /\ n = Len(Plan[phase[e]]) =>
           ToSet(SubSeq(Plan[phase[e]], 1, n)) = ToSet(Plan[phase[e]])
  BY <1>1, PrefixInPhase
<1>3. live[e] \in [Step -> ResultSet] /\ results[e] \in [Step -> ResultSet]
  BY DEF TypeOK
<1>4. \A s \in Step : AsResult(live[e][s]) \in ResultSet
  BY <1>3 DEF AsResult, Outcome, ResultSet, Status
<1>5. \A s \in Step : After(e, n)[s] = IF s \in ToSet(SubSeq(Plan[phase[e]], 1, n))
                                       THEN AsResult(live[e][s]) ELSE results[e][s]
  BY DEF After
<1>6. After(e, n) \in [Step -> ResultSet]
  BY <1>3, <1>4 DEF After
<1> QED
  BY <1>1, <1>2, <1>5, <1>6

-----------------------------------------------------------------------------
\* The invariant of a call depends on the variables of that call only.
LEMMA OthersFit ==
  ASSUME \A f \in Exec : Fits(f), NEW e \in Exec, Fits(e)',
         \A f \in Exec \ {e} : /\ pc'[f] = pc[f] /\ runOf'[f] = runOf[f]
                               /\ resumed'[f] = resumed[f] /\ phase'[f] = phase[f]
                               /\ live'[f] = live[f] /\ results'[f] = results[f]
                               /\ outcome'[f] = outcome[f]
  PROVE  \A f \in Exec : Fits(f)'
BY DEF Fits

\* What holds of a call whose plan runs.
LEMMA PhaseFacts ==
  ASSUME IInv, NEW e \in Exec, PlanRuns(e)
  PROVE  /\ phase[e] \in 1 .. Len(Plan)
         /\ Plan[phase[e]] \in Seq(Step) /\ ToSet(Plan[phase[e]]) \subseteq Step
         /\ live[e] \in [Step -> ResultSet] /\ results[e] \in [Step -> ResultSet]
         /\ Runs(pc[e], phase[e])
         /\ pc[e] # "idle" /\ runOf[e] # "none" /\ runOf[e] \in RunId
<1>1. phase[e] \in DOMAIN Plan /\ Runs(pc[e], phase[e])
  BY DEF PlanRuns, Runs
<1>2. Course(pc[e], runOf[e], resumed[e], phase[e], outcome[e])
  BY DEF IInv, Fits
<1>3. pc[e] # "idle"
  BY <1>1, <1>2, PlanFacts DEF Course
<1>4. TypeOK
  BY DEF IInv
<1> QED
  BY <1>1, <1>2, <1>3, <1>4, PlanFacts DEF TypeOK, Course

\* An open call has a run, and the field if there is only one run.
LEMMA OpenFacts ==
  ASSUME IInv, NEW e \in Exec, Open(e)
  PROVE  pc[e] # "idle" /\ runOf[e] \in RunId /\ (OneRun => field = e)
BY DEF IInv, OneOpen, Open, Fits, Course, TypeOK

\* Only the latest call writes the files, as long as the runs are apart and
\* none has timed out.
LEMMA Writer ==
  ASSUME IInv, Quiet, NEW e \in Exec, Open(e) \/ PlanRuns(e)
  PROVE  /\ Open(e) /\ field = e /\ runOf[e] \in RunId
         /\ \A g \in Exec : g > e => pc[g] = "idle" /\ resumed[g] = "no"
         /\ \A g \in Exec \ {e} : ~Open(g) /\ ~PlanRuns(g)
<1>1. \A g \in Exec : PlanRuns(g) => Open(g)
  BY DEF IInv, Quiet, NoStragglers, PlanRuns, Open, Fits, Course, Runs
<1>2. \A g \in Exec : Open(g) => field = g /\ runOf[g] \in RunId
  BY OpenFacts DEF Quiet
<1>3. Open(e) /\ field = e /\ runOf[e] \in RunId
  BY <1>1, <1>2
<1>4. ASSUME NEW g \in Exec, g > e PROVE pc[g] = "idle" /\ resumed[g] = "no"
  <2>1. pc[g] = "idle"
    BY <1>3, <1>4, CallFacts DEF IInv, InOrder
  <2> QED
    BY <2>1 DEF IInv, Fits, Course
<1> QED
  BY <1>1, <1>2, <1>3, <1>4

\* What a call that writes its results to the checkpoint keeps of OnDisk.
LEMMA WriterKeepsOnDisk ==
  ASSUME IInv, Quiet, NEW e \in Exec, Open(e) \/ PlanRuns(e), NEW st, NEW outs,
         OnDisk,
         runOf' = runOf, resumed' = resumed, field' = field,
         \A f \in Exec \ {e} : pc'[f] = pc[f] /\ results'[f] = results[f],
         pc'[e] \in {"running", "failing", "returned"},
         checkpoint' = [checkpoint EXCEPT ![runOf[field]] =
                          [status |-> st, steps |-> results'[e], outputs |-> outs]],
         pc'[e] = "returned" => /\ record'[runOf[e]] = DiskStatus(outcome'[e])
                                /\ st = DiskStatus(outcome'[e])
  PROVE  OnDisk'
<1>1. /\ Open(e) /\ field = e /\ runOf[e] \in RunId
      /\ \A g \in Exec : g > e => pc[g] = "idle" /\ resumed[g] = "no"
      /\ \A g \in Exec \ {e} : ~Open(g) /\ ~PlanRuns(g)
  BY Writer
<1>2. checkpoint \in [RunId -> [status : {"none", "running", "completed", "failed", "timeout"},
                                steps : [Step -> ResultSet], outputs : SUBSET Step]]
  BY DEF IInv, TypeOK
<1>3. /\ checkpoint'[runOf[e]].status = st
      /\ checkpoint'[runOf[e]].steps = results'[e]
  BY <1>1, <1>2
<1>4. ReturnIsOnDisk'
  BY <1>1, <1>3 DEF ReturnIsOnDisk
<1>5. \A g \in Exec : Open(g)' => g = e
  BY <1>1 DEF Open
<1>6. \A g \in Exec, s \in Step :
        (Open(g) /\ resumed[g] # "no" /\ Completed(checkpoint[runOf[g]].steps[s])
           => Completed(results[g][s]))'
  BY <1>3, <1>5
<1>7. ASSUME NEW f \in Exec, Worked(f)' PROVE f = e
  <2>1. f # e => ~(f < e)
    BY <1>7 DEF Worked
  <2>2. f # e => ~(f > e)
    BY <1>1, <1>7 DEF Worked
  <2> QED
    BY <2>1, <2>2, CallFacts
<1>8. \A f \in Exec, s \in Step :
        (Worked(f) /\ results[f][s].status = "failure"
           => \/ checkpoint[runOf[f]].status = "none"
              \/ checkpoint[runOf[f]].steps[s] = results[f][s])'
  BY <1>3, <1>7
<1>9. ASSUME NEW g \in Exec, NEW f \in Exec, NEW s \in Step,
             resumed'[g] = "strict", Predecessor(f, g)'
      PROVE  ~(results'[f][s].status = "failure" /\ results'[f][s].attempts > MaxAttempt(s))
  <2>1. resumed[g] = "strict" /\ f < g
    BY <1>9 DEF Predecessor
  <2>2. f # e
    BY <1>1, <2>1
  <2>3. ~(g > e)
    BY <1>1, <2>1
  <2>4. \A h \in f + 1 .. g - 1 : h \in Exec /\ h # e
    BY <2>1, <2>3, StepAssumption DEF Exec
  <2>5. Predecessor(f, g)
    BY <1>9, <2>4 DEF Predecessor
  <2>6. results'[f] = results[f]
    BY <2>2
  <2> QED
    BY <2>1, <2>5, <2>6 DEF OnDisk
<1> QED
  BY <1>4, <1>6, <1>8, <1>9 DEF OnDisk

\* A step of a workflow leaves what OnDisk speaks of as it is.
LEMMA OnDiskUnchanged ==
  ASSUME OnDisk, UNCHANGED <<pc, runOf, resumed, results, outcome, field, checkpoint, record>>
  PROVE  OnDisk'
BY DEF OnDisk, ReturnIsOnDisk, NoStragglers, OneRun, Open, Worked, Predecessor

\* A step that starts no call and ends none too early keeps their order.
LEMMA OrderKept ==
  ASSUME IInv, UNCHANGED <<runOf, field>>,
         \A f \in Exec : /\ pc[f] = "idle" <=> pc'[f] = "idle"
                         /\ Open(f)' => Open(f)
  PROVE  InOrder' /\ OneOpen'
<1>1. InOrder'
  BY DEF IInv, InOrder
<1>2. OneOpen'
  BY DEF IInv, OneOpen, OneRun
<1> QED
  BY <1>1, <1>2

\* A new executor fits.
LEMMA InitHolds == Init => IInv
<1> SUFFICES ASSUME Init PROVE IInv
  OBVIOUS
<1>1. TypeOK
  <2>1. checkpoint \in [RunId -> [status : {"none", "running", "completed", "failed", "timeout"},
                                steps : [Step -> ResultSet], outputs : SUBSET Step]]
    BY NothingType DEF Init, NoFile
  <2> QED
    BY <2>1, CallFacts, StepAssumption, PlanFacts, NothingType DEF Init, TypeOK
<1>2. \A e \in Exec : Fits(e)
  BY PlanFacts DEF Init, Fits, Course, AtWork, Recorded, Runs, Nothing, NoResult, Outcome
<1>3. InOrder /\ OneOpen
  BY DEF Init, InOrder, OneOpen, Open
<1>4. OnDisk
  BY DEF Init, OnDisk, ReturnIsOnDisk, Open, Worked
<1> QED
  BY <1>1, <1>2, <1>3, <1>4 DEF IInv

-----------------------------------------------------------------------------
\* What the calls are when another one starts.
LEMMA StartFacts ==
  ASSUME IInv, NEW e \in Exec, NEW id \in RunId, Start(e, id)
  PROVE  /\ \A f \in Exec : pc[f] # "idle" => f < e /\ runOf[f] \in RunId
         /\ pc[e] = "idle" /\ runOf[e] = "none" /\ resumed[e] = "no" /\ phase[e] = 0
         /\ outcome[e] = "none" /\ \A s \in Step : live[e][s] = NoResult
         /\ \A s \in Step : results[e][s].status # "failure"
<1>1. pc[e] = "idle" /\ \A f \in 1 .. e - 1 : pc[f] # "idle"
  BY DEF Start
<1>2. \A f \in Exec : pc[f] # "idle" => f < e
  BY <1>1, CallFacts DEF IInv, InOrder
<1>3. \A f \in Exec : pc[f] # "idle" => runOf[f] \in RunId
  BY DEF IInv, TypeOK, Fits, Course
<1>4. Course(pc[e], runOf[e], resumed[e], phase[e], outcome[e])
      /\ AtWork(pc[e], phase[e], live[e])
      /\ Recorded(pc[e], phase[e], live[e], results[e], outcome[e])
  BY DEF IInv, Fits
<1>5. \A s \in Step : results[e][s].status # "failure"
  BY <1>1, <1>4 DEF Recorded, Completed, NoResult, Outcome
<1> QED
  BY <1>1, <1>2, <1>3, <1>4, <1>5, PlanFacts DEF Course, AtWork, Runs

\* What Begin and Resume keep, given what the call starts with.
LEMMA StartKeeps ==
  ASSUME IInv, NEW e \in Exec, NEW id \in RunId, Start(e, id),
         NEW p \in {"starting", "refused"}, NEW how \in Policy \cup {"no"},
         NEW res \in [Step -> ResultSet], NEW outs \in SUBSET Step,
         pc' = [pc EXCEPT ![e] = p], resumed' = [resumed EXCEPT ![e] = how],
         results' = [results EXCEPT ![e] = res], outputs' = [outputs EXCEPT ![e] = outs],
         \A s \in Step : res[s] = NoResult \/ Completed(res[s]),
         \A f \in Exec : runOf[f] = id => ~Open(f)
  PROVE  /\ TypeOK' /\ (\A f \in Exec : Fits(f)') /\ InOrder' /\ OneOpen'
         /\ Quiet' => Quiet /\ \A f \in Exec : pc[f] # "idle" => runOf[f] = id /\ ~Open(f)
<1>1. TypeOK
  BY DEF IInv
<1>2. limited' \in [Exec -> BOOLEAN] /\ runOf' = [runOf EXCEPT ![e] = id] /\ field' = e
  BY <1>1 DEF Start, TypeOK
<1>3. record' \in [RunId -> {"none", "running", "completed", "failed", "timeout"}]
  BY <1>1 DEF Start, TypeOK
<1>4. UNCHANGED <<phase, live, context, outcome, stepStore, checkpoint, crashes>>
  BY DEF Start
<1>5. TypeOK'
  BY <1>1, <1>2, <1>3, <1>4 DEF TypeOK
<1>6. pc'[e] = p /\ runOf'[e] = id /\ resumed'[e] = how /\ results'[e] = res
  BY <1>1, <1>2 DEF TypeOK
<1>7. phase'[e] = 0 /\ outcome'[e] = "none" /\ \A s \in Step : live'[e][s] = NoResult
  BY <1>4, StartFacts
<1>8. Fits(e)'
  <2>1. Course(pc[e], runOf[e], resumed[e], phase[e], outcome[e])'
    BY <1>6, <1>7, CallFacts, PlanFacts DEF Course, Runs
  <2>2. AtWork(pc[e], phase[e], live[e])'
    BY <1>7, PlanFacts DEF AtWork, Runs
  <2>3. Recorded(pc[e], phase[e], live[e], results[e], outcome[e])'
    BY <1>6, <1>7, PlanFacts DEF Recorded, Runs, Completed, NoResult, Outcome
  <2> QED
    BY <2>1, <2>2, <2>3 DEF Fits
<1>9. \A f \in Exec : Fits(f)'
  BY <1>1, <1>2, <1>4, <1>8, OthersFit DEF IInv, TypeOK
<1>10. \A f \in Exec \ {e} : pc'[f] = pc[f] /\ runOf'[f] = runOf[f] /\ (Open(f)' <=> Open(f))
  BY <1>1, <1>2 DEF TypeOK, Open
<1>11. InOrder'
  <2>1. \A f \in Exec : pc'[f] # "idle" => f <= e
    BY <1>10, StartFacts, CallFacts
  <2>2. \A g \in 1 .. e - 1 : g \in Exec /\ pc'[g] # "idle"
    BY <1>10, StepAssumption DEF Start, Exec
  <2>3. \A f, g \in Exec : pc'[f] # "idle" /\ g < f => pc'[g] # "idle"
    BY <2>1, <2>2, CallFacts DEF Exec
  <2> QED
    BY <1>2, <2>1, <2>3 DEF InOrder
<1>12. OneRun' => OneRun /\ \A f \in Exec : pc[f] # "idle" => runOf[f] = id /\ ~Open(f)
  <2>1. OneRun' => OneRun
    BY <1>6, <1>10, StartFacts DEF OneRun
  <2>2. ASSUME OneRun', NEW f \in Exec, pc[f] # "idle" PROVE runOf[f] = id /\ ~Open(f)
    <3>1. f # e /\ runOf[f] \in RunId
      BY <2>2, StartFacts
    <3>2. runOf'[f] = runOf[f] /\ runOf'[f] # "none" /\ runOf'[e] # "none"
      BY <1>6, <1>10, <3>1, CallFacts
    <3>3. runOf[f] = id
      BY <1>6, <2>2, <3>2 DEF OneRun
    <3> QED
      BY <3>3
  <2> QED
    BY <2>1, <2>2
<1>13. OneOpen'
  BY <1>2, <1>10, <1>12 DEF OneOpen, Open
<1>14. Quiet' => Quiet /\ \A f \in Exec : pc[f] # "idle" => runOf[f] = id /\ ~Open(f)
  BY <1>4, <1>12 DEF Quiet, NoStragglers
<1> QED
  BY <1>5, <1>9, <1>11, <1>13, <1>14

\* A new run: with one run only, no other call has been made.
LEMMA BeginKeeps ==
  ASSUME IInv, NEW e \in Exec, NEW id \in RunId, Begin(e, id)
  PROVE  IInv'
<1>1. /\ Start(e, id) /\ \A f \in Exec : runOf[f] # id
      /\ pc' = [pc EXCEPT ![e] = "starting"]
      /\ UNCHANGED <<resumed, results, outputs>>
  BY DEF Begin
<1>2. TypeOK /\ Recorded(pc[e], phase[e], live[e], results[e], outcome[e])
  BY DEF IInv, Fits
<1>3. /\ results[e] \in [Step -> ResultSet] /\ outputs[e] \in SUBSET Step
      /\ resumed[e] \in Policy \cup {"no"}
      /\ \A s \in Step : results[e][s] = NoResult \/ Completed(results[e][s])
  BY <1>1, <1>2, StartFacts DEF TypeOK, Recorded
<1>4. /\ resumed' = [resumed EXCEPT ![e] = resumed[e]]
      /\ results' = [results EXCEPT ![e] = results[e]]
      /\ outputs' = [outputs EXCEPT ![e] = outputs[e]]
  BY <1>1, <1>2 DEF TypeOK
<1>5. /\ TypeOK' /\ (\A f \in Exec : Fits(f)') /\ InOrder' /\ OneOpen'
      /\ Quiet' => Quiet /\ \A f \in Exec : pc[f] # "idle" => runOf[f] = id /\ ~Open(f)
  <2>1. "starting" \in {"starting", "refused"} /\ \A f \in Exec : runOf[f] = id => ~Open(f)
    BY <1>1
  <2> QED
    BY <1>1, <1>3, <1>4, <2>1, StartKeeps
<1>6. ASSUME Quiet' PROVE OnDisk'
  <2>1. \A f \in Exec : pc[f] = "idle"
    BY <1>1, <1>5, <1>6
  <2>2. \A f \in Exec \ {e} : pc'[f] = "idle"
    BY <1>1, <1>2, <2>1 DEF TypeOK
  <2>3. pc'[e] = "starting"
    BY <1>1, <1>2 DEF TypeOK
  <2>4. \A f \in Exec : resumed'[f] = "no"
    BY <1>1, <2>1 DEF IInv, Fits, Course
  <2>5. \A f \in Exec, s \in Step : results'[f][s].status # "failure"
    BY <1>1, <2>1 DEF IInv, Fits, Recorded, Completed, NoResult, Outcome
  <2> QED
    BY <2>2, <2>3, <2>4, <2>5 DEF OnDisk, ReturnIsOnDisk
<1> QED
  BY <1>5, <1>6 DEF IInv

\* A resumed run: a strict resume that is not refused has read every failure of
\* the call before it.
LEMMA ResumeKeeps ==
  ASSUME IInv, NEW e \in Exec, NEW id \in RunId, Resume(e, id)
  PROVE  IInv'
<1> DEFINE saved == checkpoint[id]
<1>1. TypeOK /\ Recorded(pc[e], phase[e], live[e], results[e], outcome[e])
  BY DEF IInv, Fits
<1>2. Start(e, id) /\ \A f \in Exec : runOf[f] = id => ~Open(f)
  BY DEF Resume
<1>3. saved.steps \in [Step -> ResultSet] /\ saved.outputs \in SUBSET Step
  BY <1>1 DEF TypeOK
<1>4. \A f \in Exec : pc[f] # "idle" => f < e
  BY <1>2, StartFacts
<1>5. UNCHANGED <<checkpoint, outcome>> /\ field' = e /\ runOf' = [runOf EXCEPT ![e] = id]
  BY <1>2 DEF Start
<1>6. PICK policy \in Policy :
        \/ /\ Refused(saved, policy)
           /\ pc' = [pc EXCEPT ![e] = "refused"]
           /\ UNCHANGED <<resumed, results, outputs>>
        \/ /\ ~Refused(saved, policy)
           /\ pc' = [pc EXCEPT ![e] = "starting"]
           /\ resumed' = [resumed EXCEPT ![e] = IF Resumable(saved) THEN policy ELSE "no"]
           /\ results' = [results EXCEPT ![e] =
                IF Resumable(saved) THEN Restored(saved) ELSE Nothing]
           /\ outputs' = [outputs EXCEPT ![e] =
                IF Resumable(saved) THEN saved.outputs ELSE {}]
  BY DEF Resume
<1>7. CASE /\ Refused(saved, policy)
           /\ pc' = [pc EXCEPT ![e] = "refused"]
           /\ UNCHANGED <<resumed, results, outputs>>
  <2>1. /\ results[e] \in [Step -> ResultSet] /\ outputs[e] \in SUBSET Step
        /\ resumed[e] \in Policy \cup {"no"}
        /\ \A s \in Step : results[e][s] = NoResult \/ Completed(results[e][s])
    BY <1>1, <1>2, StartFacts DEF TypeOK, Recorded
  <2>2. /\ resumed' = [resumed EXCEPT ![e] = resumed[e]]
        /\ results' = [results EXCEPT ![e] = results[e]]
        /\ outputs' = [outputs EXCEPT ![e] = outputs[e]]
    BY <1>1, <1>7 DEF TypeOK
  <2>3. /\ TypeOK' /\ (\A f \in Exec : Fits(f)') /\ InOrder' /\ OneOpen'
        /\ Quiet' => Quiet /\ \A f \in Exec : pc[f] # "idle" => runOf[f] = id /\ ~Open(f)
    BY <1>2, <1>7, <2>1, <2>2, StartKeeps
  <2>4. ASSUME Quiet' PROVE OnDisk'
    <3>1. OnDisk /\ \A f \in Exec : pc[f] # "idle" => runOf[f] = id /\ ~Open(f)
      BY <2>3, <2>4 DEF IInv
    <3>2. pc'[e] = "refused" /\ \A f \in Exec \ {e} : pc'[f] = pc[f] /\ runOf'[f] = runOf[f]
      BY <1>1, <1>5, <1>7 DEF TypeOK
    <3>3. \A f \in Exec : ~Open(f)'
      BY <3>1, <3>2 DEF Open
    <3>4. ReturnIsOnDisk'
      BY <1>5, <3>2 DEF ReturnIsOnDisk
    <3>5. ASSUME NEW f \in Exec, NEW s \in Step, Worked(f)', results'[f][s].status = "failure"
          PROVE  (\/ checkpoint[runOf[f]].status = "none"
                  \/ checkpoint[runOf[f]].steps[s] = results[f][s])'
      <4>1. f # e
        BY <1>2, <1>7, <3>5, StartFacts
      <4>2. Worked(f)
        <5>1. pc[f] # "idle"
          BY <3>2, <3>5, <4>1 DEF Worked
        <5>2. \A g \in Exec : g > f => pc[g] \in {"idle", "refused"}
          BY <1>2, <3>2, <3>5, StartFacts DEF Worked
        <5> QED
          BY <5>1, <5>2 DEF Worked
      <4> QED
        BY <1>5, <1>7, <3>1, <3>2, <3>5, <4>1, <4>2 DEF OnDisk
    <3>6. ASSUME NEW g \in Exec, NEW f \in Exec, NEW s \in Step,
                 resumed'[g] = "strict", Predecessor(f, g)'
          PROVE  ~(results'[f][s].status = "failure" /\ results'[f][s].attempts > MaxAttempt(s))
      <4>1. g # e /\ resumed[g] = "strict" /\ f < g
        BY <1>2, <1>7, <3>6, StartFacts DEF Predecessor
      <4>2. pc[g] # "idle"
        BY <4>1 DEF IInv, Fits, Course
      <4>3. g < e
        BY <1>4, <4>2
      <4>4. f # e /\ \A h \in f + 1 .. g - 1 : h \in Exec /\ h # e
        BY <4>1, <4>3, StepAssumption DEF Exec
      <4>5. Predecessor(f, g)
        BY <3>2, <3>6, <4>1, <4>4 DEF Predecessor
      <4> QED
        BY <1>7, <3>1, <4>1, <4>5 DEF OnDisk
    <3> QED
      BY <3>3, <3>4, <3>5, <3>6 DEF OnDisk
  <2> QED
    BY <2>3, <2>4 DEF IInv
<1>8. CASE /\ ~Refused(saved, policy)
           /\ pc' = [pc EXCEPT ![e] = "starting"]
           /\ resumed' = [resumed EXCEPT ![e] = IF Resumable(saved) THEN policy ELSE "no"]
           /\ results' = [results EXCEPT ![e] =
                IF Resumable(saved) THEN Restored(saved) ELSE Nothing]
           /\ outputs' = [outputs EXCEPT ![e] =
                IF Resumable(saved) THEN saved.outputs ELSE {}]
  <2> DEFINE how  == IF Resumable(saved) THEN policy ELSE "no"
             res  == IF Resumable(saved) THEN Restored(saved) ELSE Nothing
             outs == IF Resumable(saved) THEN saved.outputs ELSE {}
  <2>1. /\ res \in [Step -> ResultSet] /\ outs \in SUBSET Step
        /\ how \in Policy \cup {"no"}
        /\ \A s \in Step : res[s] = NoResult \/ Completed(res[s])
        /\ how # "no" => \A s \in Step : Completed(saved.steps[s]) => Completed(res[s])
    BY <1>3, RestoredFacts, NothingType DEF Nothing, Policy
  <2>2. /\ TypeOK' /\ (\A f \in Exec : Fits(f)') /\ InOrder' /\ OneOpen'
        /\ Quiet' => Quiet /\ \A f \in Exec : pc[f] # "idle" => runOf[f] = id /\ ~Open(f)
    BY <1>2, <1>8, <2>1, StartKeeps
  <2>3. ASSUME Quiet' PROVE OnDisk'
    <3>1. OnDisk /\ \A f \in Exec : pc[f] # "idle" => runOf[f] = id /\ ~Open(f)
      BY <2>2, <2>3 DEF IInv
    <3>2. /\ pc'[e] = "starting" /\ runOf'[e] = id /\ resumed'[e] = how /\ results'[e] = res
          /\ \A f \in Exec \ {e} : /\ pc'[f] = pc[f] /\ runOf'[f] = runOf[f]
                                   /\ resumed'[f] = resumed[f] /\ results'[f] = results[f]
      BY <1>1, <1>5, <1>8 DEF TypeOK
    <3>3. ReturnIsOnDisk'
      BY <1>5, <3>2 DEF ReturnIsOnDisk
    <3>4. ASSUME NEW g \in Exec, Open(g)', resumed'[g] # "no", NEW s \in Step,
                 Completed(checkpoint'[runOf'[g]].steps[s])
          PROVE  Completed(results'[g][s])
      <4>1. g = e
        BY <3>1, <3>2, <3>4 DEF Open
      <4> QED
        BY <1>5, <2>1, <3>2, <3>4, <4>1
    <3>5. ASSUME NEW f \in Exec, NEW s \in Step, Worked(f)'
          PROVE  results'[f][s].status # "failure"
      <4>1. f = e
        <5>1. f # e => ~(f < e)
          BY <3>2, <3>5 DEF Worked
        <5>2. f # e => ~(f > e)
          BY <1>4, <3>2, <3>5, CallFacts DEF Worked
        <5> QED
          BY <5>1, <5>2, CallFacts
      <4> QED
        BY <2>1, <3>2, <4>1 DEF Completed, NoResult, Outcome
    <3>6. ASSUME NEW g \in Exec, NEW f \in Exec, NEW s \in Step,
                 resumed'[g] = "strict", Predecessor(f, g)',
                 results'[f][s].status = "failure", results'[f][s].attempts > MaxAttempt(s)
          PROVE  FALSE
      <4>1. CASE g # e
        <5>1. resumed[g] = "strict" /\ f < g
          BY <3>2, <3>6, <4>1 DEF Predecessor
        <5>2. pc[g] # "idle"
          BY <5>1 DEF IInv, Fits, Course
        <5>3. g < e
          BY <1>4, <5>2
        <5>4. f # e /\ \A h \in f + 1 .. g - 1 : h \in Exec /\ h # e
          BY <5>1, <5>3, StepAssumption DEF Exec
        <5>5. Predecessor(f, g)
          BY <3>2, <3>6, <4>1, <5>1, <5>4 DEF Predecessor
        <5> QED
          BY <3>1, <3>2, <3>6, <5>1, <5>4, <5>5 DEF OnDisk
      <4>2. CASE g = e
        <5>1. f < e /\ \A h \in f + 1 .. e - 1 : pc'[h] = "refused"
          BY <3>6, <4>2 DEF Predecessor
        <5>2. \A h \in f + 1 .. e - 1 : h \in Exec \ {e}
          BY <5>1, StepAssumption DEF Exec
        <5>3. \A h \in Exec : h > f /\ h < e => pc[h] = "refused"
          BY <3>2, <5>1, <5>2 DEF Exec
        <5>4. \A h \in Exec : h > f => pc[h] \in {"idle", "refused"}
          BY <1>4, <5>3, CallFacts
        <5>5. pc[f] # "idle"
          BY <1>2, <5>1, StepAssumption DEF Start, Exec
        <5>6. Worked(f) /\ runOf[f] = id /\ f # e
          BY <3>1, <5>1, <5>4, <5>5, CallFacts DEF Worked
        <5>7. results[f][s].status = "failure" /\ results[f][s].attempts > MaxAttempt(s)
          BY <3>2, <3>6, <5>6
        <5>8. policy = "strict" /\ saved.status = "running"
          BY <1>8, <3>2, <3>6, <4>2 DEF Resumable
        <5>9. saved.steps[s] = results[f][s]
          BY <3>1, <5>6, <5>7, <5>8 DEF OnDisk
        <5>10. MaxAttempt(s) \in Nat /\ MaxAttempt(s) >= RetryMax[s] /\ RetryMax[s] \in Nat
          BY StepAssumption DEF MaxAttempt
        <5>11. results[f][s].attempts \in Nat
          BY <1>1 DEF TypeOK, ResultSet
        <5>12. Exhausted(saved)
          BY <5>7, <5>9, <5>10, <5>11 DEF Exhausted
        <5> QED
          BY <1>8, <5>8, <5>12 DEF Refused
      <4> QED
        BY <4>1, <4>2
    <3> QED
      BY <3>3, <3>4, <3>5, <3>6 DEF OnDisk
  <2> QED
    BY <2>2, <2>3 DEF IInv
<1> QED
  BY <1>6, <1>7, <1>8

-----------------------------------------------------------------------------
CheckpointSet == [status : {"none", "running", "completed", "failed", "timeout"},
                  steps : [Step -> ResultSet], outputs : SUBSET Step]
RecordSet == {"none", "running", "completed", "failed", "timeout"}

\* saveCheckpoint writes a checkpoint.
LEMMA SaveType ==
  ASSUME TypeOK, NEW e \in Exec, NEW res \in [Step -> ResultSet],
         NEW st \in {"none", "running", "completed", "failed", "timeout"}
  PROVE  Save(e, st, res, outputs) \in [RunId -> CheckpointSet]
<1>1. outputs[context[e]] \in SUBSET Step
  BY DEF TypeOK
<1>2. [status |-> st, steps |-> res, outputs |-> outputs[context[e]]] \in CheckpointSet
  BY <1>1 DEF CheckpointSet
<1> QED
  BY <1>2 DEF Save, TypeOK, CheckpointSet

\* The results when a settled phase, or the beginning of it, is recorded.
LEMMA RecordingFacts ==
  ASSUME IInv, NEW e \in Exec, Settled(e), NEW n \in 0 .. Len(Plan[phase[e]])
  PROVE  /\ After(e, n) \in [Step -> ResultSet]
         /\ \A s \in Step : /\ After(e, n)[s].status \notin {"running", "rejected"}
                            /\ After(e, n)[s].status = "none" => After(e, n)[s] = NoResult
                            /\ Completed(results[e][s]) => Completed(After(e, n)[s])
                            /\ results[e][s].status = "failure" => After(e, n)[s] = results[e][s]
<1>1. PlanRuns(e) /\ TypeOK /\ phase[e] \in DOMAIN Plan
  BY DEF Settled, PlanRuns, IInv
<1>2. /\ Plan[phase[e]] \in Seq(Step) /\ ToSet(Plan[phase[e]]) \subseteq Step
      /\ Runs(pc[e], phase[e])
  BY <1>1, PhaseFacts
<1>3. AtWork(pc[e], phase[e], live[e])
      /\ Recorded(pc[e], phase[e], live[e], results[e], outcome[e])
  BY DEF IInv, Fits
<1>4. /\ After(e, n) \in [Step -> ResultSet]
      /\ \A s \in Step : \/ s \in ToSet(Plan[phase[e]]) /\ After(e, n)[s] = AsResult(live[e][s])
                         \/ After(e, n)[s] = results[e][s]
      /\ \A s \in Step : s \notin ToSet(Plan[phase[e]]) => After(e, n)[s] = results[e][s]
  BY <1>1, AfterFacts
<1>5. \A s \in ToSet(Plan[phase[e]]) :
        /\ AsResult(live[e][s]).status \notin {"running", "rejected", "none"}
        /\ Completed(live[e][s]) => Completed(AsResult(live[e][s]))
  BY <1>2, <1>3 DEF Settled, AtWork, AsResult, Outcome, Completed
<1>6. \A s \in Step : /\ results[e][s].status \notin {"running", "rejected"}
                      /\ results[e][s].status = "none" => results[e][s] = NoResult
                      /\ s \in ToSet(Plan[phase[e]]) /\ Completed(results[e][s])
                           => Completed(live[e][s])
  BY <1>2, <1>3 DEF Recorded
<1>7. \A s \in Step : results[e][s].status = "failure" => s \notin ToSet(Plan[phase[e]])
  BY <1>1, <1>2, <1>3, PlanFacts DEF Recorded
<1> QED
  BY <1>4, <1>5, <1>6, <1>7

\* And when no step of it stops the workflow.
LEMMA PhaseRecorded ==
  ASSUME IInv, NEW e \in Exec, Settled(e), \A s \in ToSet(Plan[phase[e]]) : ~Stops(e, s)
  PROVE  LET rs == After(e, RecordedTo(e))
         IN /\ \A i \in 1 .. phase[e] : \A s \in ToSet(Plan[i]) : rs[s].status # "none"
            /\ \A s \in Step :
                 /\ rs[s].status = "failure" => s \in Continuing
                 /\ rs[s].status \in {"failure", "timeout"} =>
                      \A j \in DOMAIN Plan : s \in ToSet(Plan[j]) => j < phase[e] + 1
<1> DEFINE n == RecordedTo(e)
           rs == After(e, n)
<1>1. PlanRuns(e) /\ TypeOK /\ phase[e] \in DOMAIN Plan /\ phase[e] \in 1 .. Len(Plan)
  BY PlanFacts DEF Settled, PlanRuns, IInv
<1>2. /\ ToSet(Plan[phase[e]]) \subseteq Step
      /\ Runs(pc[e], phase[e])
  BY <1>1, PhaseFacts
<1>3. AtWork(pc[e], phase[e], live[e])
      /\ Recorded(pc[e], phase[e], live[e], results[e], outcome[e])
  BY DEF IInv, Fits
<1>4. n = Len(Plan[phase[e]]) /\ n \in 0 .. Len(Plan[phase[e]])
  BY <1>1, RecordedToFacts
<1>5. \A s \in ToSet(Plan[phase[e]]) : rs[s] = AsResult(live[e][s])
  BY <1>1, <1>4, AfterFacts
<1>6. \A s \in Step : s \notin ToSet(Plan[phase[e]]) => rs[s] = results[e][s]
  BY <1>1, <1>4, AfterFacts
<1>7. \A s \in ToSet(Plan[phase[e]]) :
        /\ AsResult(live[e][s]).status # "none"
        /\ AsResult(live[e][s]).status = "failure" => s \in Continuing
  BY <1>2, <1>3 DEF AtWork, AsResult, Outcome, Stops
<1>8. ASSUME NEW i \in 1 .. phase[e], NEW s \in ToSet(Plan[i]) PROVE rs[s].status # "none"
  <2>1. i \in DOMAIN Plan /\ s \in Step
    BY <1>1, PlanFacts
  <2>2. CASE s \in ToSet(Plan[phase[e]])
    BY <1>5, <1>7, <2>2
  <2>3. CASE s \notin ToSet(Plan[phase[e]])
    <3>1. i \in 1 .. phase[e] - 1
      BY <1>1, <2>3
    <3> QED
      BY <1>2, <1>3, <1>6, <2>1, <2>3, <3>1 DEF Recorded
  <2> QED
    BY <2>2, <2>3
<1>9. ASSUME NEW s \in Step
      PROVE  /\ rs[s].status = "failure" => s \in Continuing
             /\ rs[s].status \in {"failure", "timeout"} =>
                  \A j \in DOMAIN Plan : s \in ToSet(Plan[j]) => j < phase[e] + 1
  <2>1. CASE s \in ToSet(Plan[phase[e]])
    <3>1. \A j \in DOMAIN Plan : s \in ToSet(Plan[j]) => j = phase[e]
      BY <1>1, <2>1, PlanAssumption
    <3> QED
      BY <1>1, <1>5, <1>7, <2>1, <3>1
  <2>2. CASE s \notin ToSet(Plan[phase[e]])
    <3>1. rs[s] = results[e][s]
      BY <1>6, <2>2
    <3>2. /\ results[e][s].status = "failure" => s \in Continuing
          /\ results[e][s].status \in {"failure", "timeout"} =>
               \A j \in DOMAIN Plan : s \in ToSet(Plan[j]) => j < phase[e]
      BY <1>2, <1>3 DEF Recorded
    <3>3. \A j \in DOMAIN Plan : j < phase[e] => j < phase[e] + 1
      BY <1>1, PlanFacts
    <3> QED
      BY <3>1, <3>2, <3>3
  <2> QED
    BY <2>1, <2>2
<1> QED
  BY <1>8, <1>9

\* The first phase begins, from results that are all completed.
LEMMA LaunchKeeps ==
  ASSUME IInv, NEW e \in Exec, Launch(e)
  PROVE  IInv'
<1>1. TypeOK /\ pc[e] = "starting" /\ Open(e) /\ results[e] \in [Step -> ResultSet]
  BY DEF IInv, Launch, Open, TypeOK
<1>2. /\ pc' = [pc EXCEPT ![e] = "running"]
      /\ stepStore' = field /\ context' = [context EXCEPT ![e] = field]
      /\ checkpoint' = [checkpoint EXCEPT ![runOf[field]] =
           [status |-> "running", steps |-> results[e], outputs |-> outputs[field]]]
      /\ phase' = [phase EXCEPT ![e] = 1]
      /\ UNCHANGED <<runOf, resumed, limited, results, outputs, outcome, field, record, crashes>>
  BY DEF Launch
<1>3. PICK skip \in SUBSET Conditional :
        live' = [live EXCEPT ![e] = Started(1, results[e], outputs[field], skip)]
  BY DEF Launch
<1> DEFINE new == Started(1, results[e], outputs[field], skip)
<1>4. 1 \in DOMAIN Plan
  BY PlanFacts
<1>5. /\ new \in [Step -> ResultSet]
      /\ \A s \in ToSet(Plan[1]) : new[s].status # "none"
      /\ \A s \in Step : s \notin ToSet(Plan[1]) => new[s] = NoResult
      /\ \A s \in ToSet(Plan[1]) : Completed(results[e][s]) => new[s] = results[e][s]
  BY <1>1, <1>4, StartedFacts
<1>6. Course(pc[e], runOf[e], resumed[e], phase[e], outcome[e])
      /\ Recorded(pc[e], phase[e], live[e], results[e], outcome[e])
  BY DEF IInv, Fits
<1>7. \A s \in Step : results[e][s] = NoResult \/ Completed(results[e][s])
  BY <1>1, <1>6 DEF Recorded
<1>8. TypeOK'
  <2>1. checkpoint' \in [RunId -> CheckpointSet]
    <3>1. [status |-> "running", steps |-> results[e], outputs |-> outputs[field]] \in CheckpointSet
      BY <1>1 DEF TypeOK, CheckpointSet
    <3> QED
      BY <1>1, <1>2, <3>1 DEF TypeOK, CheckpointSet
  <2>2. phase' \in [Exec -> 0 .. Len(Plan) + 1]
    BY <1>1, <1>2, PlanFacts DEF TypeOK
  <2>3. live' \in [Exec -> [Step -> ResultSet]]
    BY <1>1, <1>3, <1>5 DEF TypeOK
  <2> QED
    BY <1>1, <1>2, <2>1, <2>2, <2>3 DEF TypeOK, CheckpointSet
<1>9. pc'[e] = "running" /\ phase'[e] = 1 /\ live'[e] = new
      /\ runOf'[e] = runOf[e] /\ resumed'[e] = resumed[e]
      /\ results'[e] = results[e] /\ outcome'[e] = outcome[e]
  BY <1>1, <1>2, <1>3 DEF TypeOK
<1>10. Fits(e)'
  <2>1. Course(pc[e], runOf[e], resumed[e], phase[e], outcome[e])'
    BY <1>1, <1>4, <1>6, <1>9 DEF Course, Runs
  <2>2. AtWork(pc[e], phase[e], live[e])'
    BY <1>4, <1>5, <1>9 DEF AtWork, Runs
  <2>3. Recorded(pc[e], phase[e], live[e], results[e], outcome[e])'
    <3>1. outcome'[e] = "none"
      BY <1>1, <1>6, <1>9 DEF Course
    <3>2. \A s \in Step : results[e][s].status \in {"none", "success", "skipped"}
                          /\ (results[e][s].status = "none" => results[e][s] = NoResult)
      BY <1>7 DEF Completed, NoResult, Outcome
    <3>3. \A s \in ToSet(Plan[1]) : Completed(results[e][s]) => Completed(new[s])
      BY <1>5
    <3>4. 1 .. phase'[e] - 1 = {}
      BY <1>9
    <3> QED
      BY <1>9, <3>1, <3>2, <3>3, <3>4 DEF Recorded
  <2> QED
    BY <2>1, <2>2, <2>3 DEF Fits
<1>11. \A f \in Exec : Fits(f)'
  BY <1>1, <1>2, <1>3, <1>10, OthersFit DEF IInv, TypeOK
<1>12. InOrder' /\ OneOpen'
  BY <1>1, <1>2, OrderKept DEF TypeOK, Open
<1>13. ASSUME Quiet' PROVE OnDisk'
  <2>1. Quiet /\ OnDisk
    BY <1>2, <1>13 DEF Quiet, NoStragglers, OneRun, IInv
  <2>2. \A f \in Exec \ {e} : pc'[f] = pc[f] /\ results'[f] = results[f]
    BY <1>1, <1>2 DEF TypeOK
  <2> QED
    BY <1>1, <1>2, <1>9, <2>1, <2>2, WriterKeepsOnDisk
<1> QED
  BY <1>8, <1>11, <1>12, <1>13 DEF IInv

\* A failure stops the plan.
LEMMA StopKeeps ==
  ASSUME IInv, NEW e \in Exec, Stop(e)
  PROVE  IInv'
<1> DEFINE n == RecordedTo(e)
           rs == After(e, n)
<1>1. TypeOK /\ Settled(e) /\ PlanRuns(e) /\ phase[e] \in DOMAIN Plan
  BY DEF IInv, Stop, Settled, PlanRuns
<1>2. /\ results' = [results EXCEPT ![e] = rs]
      /\ checkpoint' = Save(e, "running", results'[e], outputs)
      /\ phase' = [phase EXCEPT ![e] = Len(Plan) + 1]
      /\ live' = [live EXCEPT ![e] = Nothing]
      /\ \/ /\ pc[e] = "running"
            /\ pc' = [pc EXCEPT ![e] = "failing"]
            /\ outcome' = [outcome EXCEPT ![e] = "failure"]
         \/ pc[e] # "running" /\ UNCHANGED <<pc, outcome>>
      /\ UNCHANGED <<runOf, resumed, limited, outputs, context, field, stepStore, record, crashes>>
  BY DEF Stop
<1>3. n \in 0 .. Len(Plan[phase[e]])
  BY <1>1, RecordedToFacts
<1>4. /\ rs \in [Step -> ResultSet]
      /\ \A s \in Step : /\ rs[s].status \notin {"running", "rejected"}
                         /\ rs[s].status = "none" => rs[s] = NoResult
  BY <1>1, <1>3, RecordingFacts
<1>5. Course(pc[e], runOf[e], resumed[e], phase[e], outcome[e]) /\ Runs(pc[e], phase[e])
  BY <1>1, PhaseFacts DEF IInv, Fits
<1>6. results'[e] = rs /\ phase'[e] = Len(Plan) + 1 /\ live'[e] = Nothing
      /\ runOf'[e] = runOf[e] /\ resumed'[e] = resumed[e]
      /\ \/ pc[e] = "running" /\ pc'[e] = "failing" /\ outcome'[e] = "failure"
         \/ pc[e] # "running" /\ pc'[e] = pc[e] /\ outcome'[e] = outcome[e]
  BY <1>1, <1>2 DEF TypeOK
<1>7. TypeOK'
  <2>1. checkpoint' \in [RunId -> CheckpointSet]
    BY <1>1, <1>2, <1>4, <1>6, SaveType
  <2>2. phase' \in [Exec -> 0 .. Len(Plan) + 1]
    BY <1>1, <1>2, PlanFacts DEF TypeOK
  <2>3. live' \in [Exec -> [Step -> ResultSet]] /\ results' \in [Exec -> [Step -> ResultSet]]
    BY <1>1, <1>2, <1>4, NothingType DEF TypeOK
  <2>4. /\ pc' \in [Exec -> {"idle", "starting", "running", "failing", "returned", "refused", "lost"}]
        /\ outcome' \in [Exec -> {"none", "success", "failure", "timeout"}]
    <3>1. /\ pc' = pc \/ pc' = [pc EXCEPT ![e] = "failing"]
          /\ outcome' = outcome \/ outcome' = [outcome EXCEPT ![e] = "failure"]
      BY <1>2
    <3>2. /\ pc \in [Exec -> {"idle", "starting", "running", "failing", "returned", "refused", "lost"}]
          /\ outcome \in [Exec -> {"none", "success", "failure", "timeout"}]
      BY <1>1 DEF TypeOK
    <3> QED
      BY <3>1, <3>2
  <2> QED
    BY <1>1, <1>2, <2>1, <2>2, <2>3, <2>4 DEF TypeOK, CheckpointSet
<1>8. Fits(e)'
  <2>1. Len(Plan) + 1 \notin DOMAIN Plan
    BY PlanFacts
  <2>2. pc[e] # "running" => outcome[e] = "timeout" /\ pc[e] \notin {"idle", "starting", "refused"}
    BY <1>1, <1>5, PlanFacts DEF Course
  <2>3. Course(pc[e], runOf[e], resumed[e], phase[e], outcome[e])'
    BY <1>5, <1>6, <2>1, <2>2 DEF Course, Runs
  <2>4. AtWork(pc[e], phase[e], live[e])'
    BY <1>6, <2>1 DEF AtWork, Runs, Nothing
  <2>5. outcome'[e] # "success" /\ pc'[e] \notin {"idle", "starting", "refused"}
    BY <1>6, <2>2
  <2>6. Recorded(pc[e], phase[e], live[e], results[e], outcome[e])'
    BY <1>4, <1>6, <2>1, <2>5 DEF Recorded, Runs
  <2> QED
    BY <2>3, <2>4, <2>6 DEF Fits
<1>9. \A f \in Exec : Fits(f)'
  BY <1>1, <1>2, <1>8, OthersFit DEF IInv, TypeOK
<1>10. InOrder' /\ OneOpen'
  BY <1>1, <1>2, OrderKept DEF TypeOK, Open
<1>11. ASSUME Quiet' PROVE OnDisk'
  <2>1. NoStragglers
    <3>1. \A f \in Exec : outcome'[f] # "timeout"
      BY <1>11 DEF Quiet, NoStragglers
    <3>2. ASSUME NEW f \in Exec PROVE outcome[f] # "timeout"
      <4>1. CASE f = e
        BY <1>5, <1>6, <3>1, <4>1 DEF Course
      <4>2. CASE f # e
        BY <1>1, <1>2, <3>1, <4>2 DEF TypeOK
      <4> QED
        BY <4>1, <4>2
    <3> QED
      BY <3>2 DEF NoStragglers
  <2>2. Quiet /\ OnDisk
    BY <1>2, <1>11, <2>1 DEF Quiet, OneRun, IInv
  <2>3. pc'[e] = "failing"
    BY <1>1, <1>6, <2>2, Writer DEF Open, Quiet, NoStragglers, Course, IInv, Fits, PlanRuns, Runs
  <2>4. \A f \in Exec \ {e} : pc'[f] = pc[f] /\ results'[f] = results[f]
    BY <1>1, <1>2 DEF TypeOK
  <2> QED
    BY <1>1, <1>2, <2>2, <2>3, <2>4, WriterKeepsOnDisk DEF Save
<1> QED
  BY <1>7, <1>9, <1>10, <1>11 DEF IInv

\* The next phase begins, with results for all the phases before it.
LEMMA AdvanceKeeps ==
  ASSUME IInv, NEW e \in Exec, Advance(e)
  PROVE  IInv'
<1> DEFINE n == RecordedTo(e)
           rs == After(e, n)
<1>1. TypeOK /\ Settled(e) /\ PlanRuns(e) /\ phase[e] \in DOMAIN Plan
      /\ phase[e] < Len(Plan) /\ \A s \in ToSet(Plan[phase[e]]) : ~Stops(e, s)
  BY DEF IInv, Advance, Settled, PlanRuns
<1>2. /\ results' = [results EXCEPT ![e] = rs]
      /\ checkpoint' = Save(e, "running", results'[e], outputs)
      /\ phase' = [phase EXCEPT ![e] = phase[e] + 1]
      /\ UNCHANGED <<pc, runOf, resumed, limited, outputs, context, outcome, field,
                     stepStore, record, crashes>>
  BY DEF Advance
<1>3. results'[e] = rs
  BY <1>1, <1>2 DEF TypeOK
<1>4. PICK skip \in SUBSET Conditional :
        live' = [live EXCEPT ![e] = Started(phase[e] + 1, rs, outputs[stepStore], skip)]
  BY <1>3 DEF Advance
<1> DEFINE new == Started(phase[e] + 1, rs, outputs[stepStore], skip)
<1>5. n \in 0 .. Len(Plan[phase[e]])
  BY <1>1, RecordedToFacts
<1>6. /\ rs \in [Step -> ResultSet]
      /\ \A s \in Step : /\ rs[s].status \notin {"running", "rejected"}
                         /\ rs[s].status = "none" => rs[s] = NoResult
  BY <1>1, <1>5, RecordingFacts
<1>7. /\ \A i \in 1 .. phase[e] : \A s \in ToSet(Plan[i]) : rs[s].status # "none"
      /\ \A s \in Step :
           /\ rs[s].status = "failure" => s \in Continuing
           /\ rs[s].status \in {"failure", "timeout"} =>
                \A j \in DOMAIN Plan : s \in ToSet(Plan[j]) => j < phase[e] + 1
  BY <1>1, PhaseRecorded
<1>8. phase[e] + 1 \in DOMAIN Plan /\ phase[e] \in Nat
  BY <1>1, PlanFacts
<1>9. /\ new \in [Step -> ResultSet]
      /\ \A s \in ToSet(Plan[phase[e] + 1]) : new[s].status # "none"
      /\ \A s \in Step : s \notin ToSet(Plan[phase[e] + 1]) => new[s] = NoResult
      /\ \A s \in ToSet(Plan[phase[e] + 1]) : Completed(rs[s]) => new[s] = rs[s]
  BY <1>6, <1>8, StartedFacts
<1>10. /\ phase'[e] = phase[e] + 1 /\ live'[e] = new
       /\ pc'[e] = pc[e] /\ runOf'[e] = runOf[e] /\ resumed'[e] = resumed[e]
       /\ outcome'[e] = outcome[e]
  BY <1>1, <1>2, <1>4 DEF TypeOK
<1>11. /\ Course(pc[e], runOf[e], resumed[e], phase[e], outcome[e])
       /\ Runs(pc[e], phase[e])
  BY <1>1, PhaseFacts DEF IInv, Fits
<1>12. pc[e] \notin {"idle", "starting", "refused"} /\ outcome[e] # "success"
  BY <1>1, <1>11, PlanFacts DEF Course
<1>13. TypeOK'
  <2>1. checkpoint' \in [RunId -> CheckpointSet]
    BY <1>1, <1>2, <1>3, <1>6, SaveType
  <2>2. phase' \in [Exec -> 0 .. Len(Plan) + 1]
    BY <1>1, <1>2, <1>8, PlanFacts DEF TypeOK
  <2>3. live' \in [Exec -> [Step -> ResultSet]] /\ results' \in [Exec -> [Step -> ResultSet]]
    BY <1>1, <1>2, <1>4, <1>6, <1>9 DEF TypeOK
  <2> QED
    BY <1>1, <1>2, <2>1, <2>2, <2>3 DEF TypeOK, CheckpointSet
<1>14. Fits(e)'
  <2>1. Course(pc[e], runOf[e], resumed[e], phase[e], outcome[e])'
    BY <1>8, <1>10, <1>11, <1>12 DEF Course, Runs
  <2>2. AtWork(pc[e], phase[e], live[e])'
    BY <1>8, <1>9, <1>10, <1>11 DEF AtWork, Runs
  <2>3. Recorded(pc[e], phase[e], live[e], results[e], outcome[e])'
    <3>1. \A i \in 1 .. phase'[e] - 1 : \A s \in ToSet(Plan[i]) : rs[s].status # "none"
      BY <1>7, <1>8, <1>10
    <3>2. \A s \in ToSet(Plan[phase'[e]]) : Completed(rs[s]) => Completed(new[s])
      BY <1>9, <1>10
    <3> QED
      BY <1>3, <1>6, <1>7, <1>10, <1>12, <3>1, <3>2 DEF Recorded
  <2> QED
    BY <2>1, <2>2, <2>3 DEF Fits
<1>15. \A f \in Exec : Fits(f)'
  BY <1>1, <1>2, <1>4, <1>14, OthersFit DEF IInv, TypeOK
<1>16. InOrder' /\ OneOpen'
  BY <1>1, <1>2, OrderKept DEF TypeOK, Open
<1>17. ASSUME Quiet' PROVE OnDisk'
  <2>1. Quiet /\ OnDisk
    BY <1>2, <1>17 DEF Quiet, NoStragglers, OneRun, IInv
  <2>2. pc'[e] = "running"
    BY <1>10, <1>11, <2>1 DEF Course, Quiet, NoStragglers
  <2>3. \A f \in Exec \ {e} : pc'[f] = pc[f] /\ results'[f] = results[f]
    BY <1>1, <1>2 DEF TypeOK
  <2> QED
    BY <1>1, <1>2, <2>1, <2>2, <2>3, WriterKeepsOnDisk DEF Save
<1> QED
  BY <1>13, <1>15, <1>16, <1>17 DEF IInv

\* The last phase is recorded: every step is in some phase.
LEMMA FinishKeeps ==
  ASSUME IInv, NEW e \in Exec, Finish(e)
  PROVE  IInv'
<1> DEFINE n == RecordedTo(e)
           rs == After(e, n)
<1>1. TypeOK /\ Settled(e) /\ PlanRuns(e) /\ phase[e] \in DOMAIN Plan
      /\ phase[e] = Len(Plan) /\ \A s \in ToSet(Plan[phase[e]]) : ~Stops(e, s)
  BY DEF IInv, Finish, Settled, PlanRuns
<1>2. /\ results' = [results EXCEPT ![e] = rs]
      /\ phase' = [phase EXCEPT ![e] = Len(Plan) + 1]
      /\ live' = [live EXCEPT ![e] = Nothing]
      /\ \/ /\ pc[e] = "running"
            /\ pc' = [pc EXCEPT ![e] = "returned"]
            /\ outcome' = [outcome EXCEPT ![e] = "success"]
            /\ record' = [record EXCEPT ![runOf[field]] = "completed"]
            /\ checkpoint' = Save(e, "completed", results'[e], outputs)
         \/ /\ pc[e] # "running"
            /\ checkpoint' = Save(e, "running", results'[e], outputs)
            /\ UNCHANGED <<pc, outcome, record>>
      /\ UNCHANGED <<runOf, resumed, limited, outputs, context, field, stepStore, crashes>>
  BY DEF Finish
<1>3. n \in 0 .. Len(Plan[phase[e]])
  BY <1>1, RecordedToFacts
<1>4. /\ rs \in [Step -> ResultSet]
      /\ \A s \in Step : /\ rs[s].status \notin {"running", "rejected"}
                         /\ rs[s].status = "none" => rs[s] = NoResult
  BY <1>1, <1>3, RecordingFacts
<1>5. /\ \A i \in 1 .. phase[e] : \A s \in ToSet(Plan[i]) : rs[s].status # "none"
      /\ \A s \in Step : rs[s].status = "failure" => s \in Continuing
  BY <1>1, PhaseRecorded
<1>6. \A s \in Step : rs[s] # NoResult
  <2>1. \A s \in Step : \E i \in 1 .. phase[e] : s \in ToSet(Plan[i])
    BY <1>1, PlanAssumption, PlanFacts
  <2> QED
    BY <1>5, <2>1 DEF NoResult, Outcome
<1>7. Course(pc[e], runOf[e], resumed[e], phase[e], outcome[e]) /\ Runs(pc[e], phase[e])
  BY <1>1, PhaseFacts DEF IInv, Fits
<1>8. results'[e] = rs /\ phase'[e] = Len(Plan) + 1 /\ live'[e] = Nothing
      /\ runOf'[e] = runOf[e] /\ resumed'[e] = resumed[e]
      /\ \/ pc[e] = "running" /\ pc'[e] = "returned" /\ outcome'[e] = "success"
         \/ pc[e] # "running" /\ pc'[e] = pc[e] /\ outcome'[e] = outcome[e]
  BY <1>1, <1>2 DEF TypeOK
<1>9. TypeOK'
  <2>1. checkpoint' \in [RunId -> CheckpointSet]
    <3>1. Save(e, "completed", rs, outputs) \in [RunId -> CheckpointSet]
      BY <1>1, <1>4, SaveType
    <3>2. Save(e, "running", rs, outputs) \in [RunId -> CheckpointSet]
      BY <1>1, <1>4, SaveType
    <3> QED
      BY <1>2, <1>8, <3>1, <3>2
  <2>2. record' \in [RunId -> {"none", "running", "completed", "failed", "timeout"}]
    BY <1>1, <1>2 DEF TypeOK
  <2>3. phase' \in [Exec -> 0 .. Len(Plan) + 1]
    BY <1>1, <1>2, PlanFacts DEF TypeOK
  <2>4. live' \in [Exec -> [Step -> ResultSet]] /\ results' \in [Exec -> [Step -> ResultSet]]
    BY <1>1, <1>2, <1>4, NothingType DEF TypeOK
  <2>5. /\ pc' \in [Exec -> {"idle", "starting", "running", "failing", "returned", "refused", "lost"}]
        /\ outcome' \in [Exec -> {"none", "success", "failure", "timeout"}]
    <3>1. /\ pc' = pc \/ pc' = [pc EXCEPT ![e] = "returned"]
          /\ outcome' = outcome \/ outcome' = [outcome EXCEPT ![e] = "success"]
      BY <1>2
    <3>2. /\ pc \in [Exec -> {"idle", "starting", "running", "failing", "returned", "refused", "lost"}]
          /\ outcome \in [Exec -> {"none", "success", "failure", "timeout"}]
      BY <1>1 DEF TypeOK
    <3> QED
      BY <3>1, <3>2
  <2> QED
    BY <1>1, <1>2, <2>1, <2>2, <2>3, <2>4, <2>5 DEF TypeOK, CheckpointSet
<1>10. Fits(e)'
  <2>1. Len(Plan) + 1 \notin DOMAIN Plan
    BY PlanFacts
  <2>2. pc[e] # "running" => outcome[e] = "timeout" /\ pc[e] \notin {"idle", "starting", "refused"}
    BY <1>1, <1>7, PlanFacts DEF Course
  <2>3. Course(pc[e], runOf[e], resumed[e], phase[e], outcome[e])'
    BY <1>7, <1>8, <2>1, <2>2 DEF Course, Runs
  <2>4. AtWork(pc[e], phase[e], live[e])'
    BY <1>8, <2>1 DEF AtWork, Runs, Nothing
  <2>5. pc'[e] \notin {"idle", "starting", "refused"}
    BY <1>8, <2>2
  <2>6. Recorded(pc[e], phase[e], live[e], results[e], outcome[e])'
    BY <1>4, <1>5, <1>6, <1>8, <2>1, <2>5 DEF Recorded, Runs
  <2> QED
    BY <2>3, <2>4, <2>6 DEF Fits
<1>11. \A f \in Exec : Fits(f)'
  BY <1>1, <1>2, <1>10, OthersFit DEF IInv, TypeOK
<1>12. InOrder' /\ OneOpen'
  BY <1>1, <1>2, OrderKept DEF TypeOK, Open
<1>13. ASSUME Quiet' PROVE OnDisk'
  <2>1. NoStragglers
    <3>1. \A f \in Exec : outcome'[f] # "timeout"
      BY <1>13 DEF Quiet, NoStragglers
    <3>2. ASSUME NEW f \in Exec PROVE outcome[f] # "timeout"
      <4>1. CASE f = e
        BY <1>7, <1>8, <3>1, <4>1 DEF Course
      <4>2. CASE f # e
        BY <1>1, <1>2, <3>1, <4>2 DEF TypeOK
      <4> QED
        BY <4>1, <4>2
    <3> QED
      BY <3>2 DEF NoStragglers
  <2>2. Quiet /\ OnDisk
    BY <1>2, <1>13, <2>1 DEF Quiet, OneRun, IInv
  <2>3. pc[e] = "running" /\ field = e /\ runOf[e] \in RunId
    BY <1>1, <1>7, <2>2, Writer DEF Course, Quiet, NoStragglers
  <2>4. record'[runOf[e]] = DiskStatus(outcome'[e]) /\ "completed" = DiskStatus(outcome'[e])
    BY <1>1, <1>2, <1>8, <2>3 DEF DiskStatus, TypeOK
  <2>5. \A f \in Exec \ {e} : pc'[f] = pc[f] /\ results'[f] = results[f]
    BY <1>1, <1>2 DEF TypeOK
  <2> QED
    BY <1>1, <1>2, <1>8, <2>2, <2>3, <2>4, <2>5, WriterKeepsOnDisk DEF Save
<1> QED
  BY <1>9, <1>11, <1>12, <1>13 DEF IInv

\* The catch block writes how the call ended.
LEMMA ReturnFailureKeeps ==
  ASSUME IInv, NEW e \in Exec, ReturnFailure(e)
  PROVE  IInv'
<1>1. TypeOK /\ pc[e] = "failing" /\ Open(e) /\ results[e] \in [Step -> ResultSet]
  BY DEF IInv, ReturnFailure, Open, TypeOK
<1>2. /\ pc' = [pc EXCEPT ![e] = "returned"]
      /\ record' = [record EXCEPT ![runOf[field]] = DiskStatus(outcome[e])]
      /\ checkpoint' = Save(e, DiskStatus(outcome[e]), results[e], outputs)
      /\ UNCHANGED <<runOf, resumed, limited, phase, live, results, outputs, context,
                     outcome, field, stepStore, crashes>>
  BY DEF ReturnFailure
<1>3. Course(pc[e], runOf[e], resumed[e], phase[e], outcome[e])
      /\ AtWork(pc[e], phase[e], live[e])
      /\ Recorded(pc[e], phase[e], live[e], results[e], outcome[e])
  BY DEF IInv, Fits
<1>4. outcome[e] \in {"failure", "timeout"}
  BY <1>1, <1>3 DEF Course
<1>5. DiskStatus(outcome[e]) \in {"failed", "timeout"}
  BY <1>4 DEF DiskStatus
<1>6. TypeOK'
  <2>1. checkpoint' \in [RunId -> CheckpointSet]
    BY <1>1, <1>2, <1>5, SaveType
  <2>2. record' \in [RunId -> {"none", "running", "completed", "failed", "timeout"}]
    BY <1>1, <1>2, <1>5 DEF TypeOK
  <2> QED
    BY <1>1, <1>2, <2>1, <2>2 DEF TypeOK, CheckpointSet
<1>7. pc'[e] = "returned"
  BY <1>1, <1>2 DEF TypeOK
<1>8. Fits(e)'
  BY <1>1, <1>2, <1>3, <1>4, <1>7 DEF Fits, Course, AtWork, Recorded, Runs
<1>9. \A f \in Exec : Fits(f)'
  BY <1>1, <1>2, <1>8, OthersFit DEF IInv, TypeOK
<1>10. InOrder' /\ OneOpen'
  BY <1>1, <1>2, OrderKept DEF TypeOK, Open
<1>11. ASSUME Quiet' PROVE OnDisk'
  <2>1. Quiet /\ OnDisk
    BY <1>2, <1>11 DEF Quiet, NoStragglers, OneRun, IInv
  <2>2. field = e /\ runOf[e] \in RunId
    BY <1>1, <2>1, Writer
  <2>3. record'[runOf[e]] = DiskStatus(outcome'[e])
    BY <1>1, <1>2, <2>2 DEF TypeOK
  <2>4. \A f \in Exec \ {e} : pc'[f] = pc[f] /\ results'[f] = results[f]
    BY <1>1, <1>2 DEF TypeOK
  <2> QED
    BY <1>1, <1>2, <1>7, <2>1, <2>3, <2>4, WriterKeepsOnDisk DEF Save
<1> QED
  BY <1>6, <1>9, <1>10, <1>11 DEF IInv

\* From here on the files are not trusted (Quiet is false).
LEMMA TimeOutKeeps ==
  ASSUME IInv, NEW e \in Exec, TimeOut(e)
  PROVE  IInv'
<1>1. TypeOK /\ pc[e] = "running" /\ pc' = [pc EXCEPT ![e] = "failing"]
      /\ outcome' = [outcome EXCEPT ![e] = "timeout"]
      /\ UNCHANGED <<runOf, resumed, limited, phase, live, results, outputs, context,
                     field, stepStore, checkpoint, record, crashes>>
  BY DEF IInv, TimeOut
<1>2. TypeOK' /\ pc'[e] = "failing" /\ outcome'[e] = "timeout"
  BY <1>1 DEF TypeOK
<1>3. Course(pc[e], runOf[e], resumed[e], phase[e], outcome[e])
      /\ AtWork(pc[e], phase[e], live[e])
      /\ Recorded(pc[e], phase[e], live[e], results[e], outcome[e])
  BY DEF IInv, Fits
<1>4. Fits(e)'
  BY <1>1, <1>2, <1>3 DEF Fits, Course, AtWork, Recorded, Runs
<1>5. \A f \in Exec : Fits(f)'
  BY <1>1, <1>4, OthersFit DEF IInv, TypeOK
<1>6. InOrder' /\ OneOpen'
  BY <1>1, OrderKept DEF TypeOK, Open
<1>7. ~Quiet'
  BY <1>2 DEF Quiet, NoStragglers
<1> QED
  BY <1>2, <1>5, <1>6, <1>7 DEF IInv

\* What a step may do to its execution: not undo it.
LEMMA StepToKeeps ==
  ASSUME IInv, NEW e \in Exec, NEW s \in Step, Running(e, s),
         NEW r \in ResultSet, r.status # "none", StepTo(e, s, r),
         outputs' \in [Exec -> SUBSET Step]
  PROVE  IInv'
<1>1. TypeOK /\ PlanRuns(e) /\ live[e][s].status = "running"
      /\ live' = [live EXCEPT ![e][s] = r]
      /\ UNCHANGED <<pc, runOf, resumed, limited, phase, results, context, outcome,
                     field, stepStore, checkpoint, record, crashes>>
  BY DEF IInv, Running, StepTo
<1>2. /\ Runs(pc[e], phase[e]) /\ ToSet(Plan[phase[e]]) \subseteq Step
      /\ Course(pc[e], runOf[e], resumed[e], phase[e], outcome[e])
      /\ AtWork(pc[e], phase[e], live[e])
      /\ Recorded(pc[e], phase[e], live[e], results[e], outcome[e])
  BY <1>1, PhaseFacts DEF IInv, Fits
<1>3. live' \in [Exec -> [Step -> ResultSet]]
      /\ live'[e][s] = r /\ \A t \in Step \ {s} : live'[e][t] = live[e][t]
  BY <1>1 DEF TypeOK
<1>4. TypeOK'
  BY <1>1, <1>3 DEF TypeOK
<1>5. s \in ToSet(Plan[phase[e]]) /\ ~Completed(live[e][s])
  BY <1>1, <1>2 DEF AtWork, NoResult, Outcome, Completed
<1>6. Fits(e)'
  <2>1. Course(pc[e], runOf[e], resumed[e], phase[e], outcome[e])'
    BY <1>1, <1>2
  <2>2. AtWork(pc[e], phase[e], live[e])'
    BY <1>1, <1>2, <1>3, <1>5 DEF AtWork
  <2>3. Recorded(pc[e], phase[e], live[e], results[e], outcome[e])'
    BY <1>1, <1>2, <1>3, <1>5 DEF Recorded
  <2> QED
    BY <2>1, <2>2, <2>3 DEF Fits
<1>7. \A f \in Exec : Fits(f)'
  <2>1. \A f \in Exec \ {e} : live'[f] = live[f]
    BY <1>1 DEF TypeOK
  <2> QED
    BY <1>1, <1>6, <2>1, OthersFit DEF IInv
<1>8. InOrder' /\ OneOpen'
  BY <1>1, OrderKept DEF TypeOK, Open
<1>9. Quiet' => OnDisk'
  BY <1>1, OnDiskUnchanged DEF IInv, Quiet, NoStragglers, OneRun
<1> QED
  BY <1>4, <1>7, <1>8, <1>9 DEF IInv

\* The five ends of an attempt.
LEMMA StepEndsKeeps ==
  ASSUME IInv, NEW e \in Exec, NEW s \in Step, StepEnds(e, s)
  PROVE  IInv'
<1>1. TypeOK /\ outputs \in [Exec -> SUBSET Step] /\ live[e][s].attempts \in Nat
  BY DEF IInv, TypeOK, ResultSet
<1>2. \A st \in Status \ {"none"}, a \in Nat :
        Outcome(st, a) \in ResultSet /\ Outcome(st, a).status # "none"
  BY DEF Outcome, ResultSet
<1>3. CASE StepSucceeds(e, s)
  <2>1. outputs' \in [Exec -> SUBSET Step]
    BY <1>1, <1>3 DEF StepSucceeds
  <2>2. "success" \in Status \ {"none"}
    BY DEF Status
  <2> QED
    BY <1>1, <1>2, <1>3, <2>1, <2>2, StepToKeeps DEF StepSucceeds
<1>4. CASE StepRetries(e, s)
  <2>1. "running" \in Status \ {"none"} /\ live[e][s].attempts + 1 \in Nat
    BY <1>1 DEF Status
  <2>2. outputs' \in [Exec -> SUBSET Step]
    BY <1>1, <1>4 DEF StepRetries
  <2> QED
    BY <1>2, <1>4, <2>1, <2>2, StepToKeeps DEF StepRetries
<1>5. CASE StepFails(e, s)
  <2>1. "failure" \in Status \ {"none"} /\ AttemptsWhenExhausted(s) \in Nat
    BY StepAssumption DEF Status, AttemptsWhenExhausted, MaxAttempt
  <2>2. outputs' \in [Exec -> SUBSET Step]
    BY <1>1, <1>5 DEF StepFails
  <2> QED
    BY <1>2, <1>5, <2>1, <2>2, StepToKeeps DEF StepFails
<1>6. CASE StepGivesUp(e, s)
  <2>1. "failure" \in Status \ {"none"} /\ outputs' \in [Exec -> SUBSET Step]
    BY <1>1, <1>6 DEF Status, StepGivesUp
  <2> QED
    BY <1>1, <1>2, <1>6, <2>1, StepToKeeps DEF StepGivesUp
<1>7. CASE StepTimesOut(e, s)
  <2>1. "timeout" \in Status \ {"none"} /\ outputs' \in [Exec -> SUBSET Step]
    BY <1>1, <1>7 DEF Status, StepTimesOut
  <2> QED
    BY <1>1, <1>2, <1>7, <2>1, StepToKeeps DEF StepTimesOut
<1> QED
  BY <1>3, <1>4, <1>5, <1>6, <1>7 DEF StepEnds

\* The process dies: what was under way is lost, what was recorded stays.
LEMMA LoseFacts ==
  ASSUME IInv, Lose
  PROVE  /\ \A f \in Exec : Fits(f)'
         /\ InOrder' /\ OneOpen'
         /\ (Quiet' => Quiet)
         /\ \A f \in Exec : ~Open(f)' /\ (pc'[f] # "lost" => pc'[f] = pc[f])
         /\ UNCHANGED <<runOf, resumed, results, outcome, field>>
         /\ checkpoint' \in [RunId -> CheckpointSet] /\ record' \in [RunId -> RecordSet]
              => TypeOK'
<1>1. TypeOK /\ crashes < MaxCrashes /\ crashes' = crashes + 1
      /\ pc' = [e \in Exec |-> IF Open(e) \/ PlanRuns(e) THEN "lost" ELSE pc[e]]
      /\ live' = [e \in Exec |-> Nothing]
      /\ UNCHANGED <<runOf, resumed, limited, phase, results, outputs, context,
                     outcome, field, stepStore>>
  BY DEF IInv, Lose
<1>2. \A f \in Exec : ~Open(f)' /\ (pc'[f] # "lost" => pc'[f] = pc[f])
  BY <1>1 DEF Open
<1>3. ASSUME NEW f \in Exec PROVE Fits(f)'
  <2>1. Course(pc[f], runOf[f], resumed[f], phase[f], outcome[f])
        /\ Recorded(pc[f], phase[f], live[f], results[f], outcome[f])
    BY DEF IInv, Fits
  <2>2. \/ pc'[f] = "lost" /\ (Open(f) \/ PlanRuns(f))
        \/ pc'[f] = pc[f] /\ ~Open(f) /\ ~PlanRuns(f)
    BY <1>1
  <2>3. ~Runs(pc'[f], phase'[f]) /\ live'[f] = Nothing
    BY <1>1, <2>2 DEF Runs, PlanRuns
  <2>4. outcome[f] = "success" => ~Open(f) /\ ~PlanRuns(f)
    BY <2>1, PlanFacts DEF Course, Open, PlanRuns
  <2>5. Open(f) \/ PlanRuns(f) => pc[f] # "idle" /\ runOf[f] # "none"
    BY <2>1, PlanFacts DEF Course, Open, PlanRuns
  <2>6. Course(pc[f], runOf[f], resumed[f], phase[f], outcome[f])'
    BY <1>1, <2>1, <2>2, <2>3, <2>4, <2>5 DEF Course, Open
  <2>7. AtWork(pc[f], phase[f], live[f])'
    BY <2>3 DEF AtWork, Nothing
  <2>8. Recorded(pc[f], phase[f], live[f], results[f], outcome[f])'
    BY <1>1, <2>1, <2>2, <2>3 DEF Recorded
  <2> QED
    BY <2>6, <2>7, <2>8 DEF Fits
<1>4. InOrder' /\ OneOpen'
  <2>1. \A f \in Exec : pc[f] = "idle" <=> pc'[f] = "idle"
    BY <1>1, <1>3 DEF IInv, Fits, Course
  <2> QED
    BY <1>1, <1>2, <2>1, OrderKept
<1>5. Quiet' => Quiet
  BY <1>1 DEF Quiet, NoStragglers, OneRun
<1>6. checkpoint' \in [RunId -> CheckpointSet] /\ record' \in [RunId -> RecordSet] => TypeOK'
  BY <1>1, NothingType, StepAssumption DEF TypeOK, CheckpointSet, RecordSet
<1> QED
  BY <1>1, <1>2, <1>3, <1>4, <1>5, <1>6

\* What a crash leaves of OnDisk: it writes no file of a call that has returned,
\* and cuts the checkpoint or leaves the failures in it.
LEMMA LoseKeepsOnDisk ==
  ASSUME IInv, Lose, Quiet',
         \A f \in Exec : pc'[f] = "returned" =>
           \/ checkpoint'[runOf[f]] = checkpoint[runOf[f]] /\ record'[runOf[f]] = record[runOf[f]]
           \/ field # f,
         \A f \in Exec, s \in Step :
           Worked(f)' /\ results[f][s].status = "failure"
             => \/ checkpoint'[runOf[f]].status = "none"
                \/ checkpoint'[runOf[f]].steps[s] = results[f][s]
                \/ checkpoint'[runOf[f]] = checkpoint[runOf[f]]
  PROVE  OnDisk'
<1>1. /\ Quiet
      /\ \A f \in Exec : ~Open(f)' /\ (pc'[f] # "lost" => pc'[f] = pc[f])
      /\ UNCHANGED <<runOf, resumed, results, outcome, field>>
  BY LoseFacts
<1>2. OnDisk
  BY <1>1 DEF IInv
<1>3. ReturnIsOnDisk'
  <2>1. \A f \in Exec : pc'[f] = "returned" => pc[f] = "returned"
    BY <1>1
  <2> QED
    BY <1>1, <1>2, <2>1 DEF OnDisk, ReturnIsOnDisk, Quiet
<1>4. ASSUME NEW f \in Exec, NEW s \in Step, Worked(f)', results'[f][s].status = "failure"
      PROVE  (\/ checkpoint[runOf[f]].status = "none"
              \/ checkpoint[runOf[f]].steps[s] = results[f][s])'
  <2>1. pc[f] # "idle"
    <3>1. pc'[f] # "idle" /\ Fits(f) /\ Fits(f)' /\ runOf'[f] = runOf[f]
      BY <1>1, <1>4, LoseFacts DEF IInv, Worked
    <3> QED
      BY <3>1 DEF Fits, Course
  <2>2. \A g \in Exec : g > f => pc[g] \in {"idle", "refused"}
    BY <1>1, <1>4 DEF Worked
  <2>3. Worked(f)
    BY <2>1, <2>2 DEF Worked
  <2> QED
    BY <1>1, <1>2, <1>4, <2>3 DEF OnDisk
<1>5. ASSUME NEW g \in Exec, NEW f \in Exec, NEW s \in Step,
             resumed'[g] = "strict", Predecessor(f, g)'
      PROVE  ~(results'[f][s].status = "failure" /\ results'[f][s].attempts > MaxAttempt(s))
  <2>1. \A h \in f + 1 .. g - 1 : h \in Exec
    BY StepAssumption DEF Exec
  <2>2. Predecessor(f, g)
    BY <1>1, <1>5, <2>1 DEF Predecessor
  <2> QED
    BY <1>1, <1>2, <1>5, <2>2 DEF OnDisk
<1> QED
  BY <1>1, <1>3, <1>4, <1>5 DEF OnDisk

\* A crash while call e is at work: it leaves the checkpoint, cuts it, or is
\* between two of those that record a phase, in each of which the failures are
\* that the call had recorded before.
WrittenBy(e) ==
  \/ checkpoint' = checkpoint
  \/ checkpoint' = [checkpoint EXCEPT ![runOf[field]] = NoFile]
  \/ Settled(e) /\ \E n \in 0 .. Len(Plan[phase[e]]) :
                     checkpoint' = Save(e, "running", After(e, n), outputs)

LEMMA CrashOfWriterKeeps ==
  ASSUME IInv, Lose, NEW e \in Exec, Open(e) \/ PlanRuns(e), WrittenBy(e),
         NEW st \in RecordSet,
         record' = record \/ record' = [record EXCEPT ![runOf[field]] = st]
  PROVE  IInv'
<1>1. TypeOK
  BY DEF IInv
<1>2. checkpoint' \in [RunId -> CheckpointSet]
  <2>1. CASE checkpoint' = checkpoint
    BY <1>1, <2>1 DEF TypeOK, CheckpointSet
  <2>2. CASE checkpoint' = [checkpoint EXCEPT ![runOf[field]] = NoFile]
    BY <1>1, <2>2, NothingType DEF TypeOK, CheckpointSet, NoFile
  <2>3. ASSUME Settled(e), NEW n \in 0 .. Len(Plan[phase[e]]),
               checkpoint' = Save(e, "running", After(e, n), outputs)
        PROVE  checkpoint' \in [RunId -> CheckpointSet]
    BY <1>1, <2>3, SaveType, RecordingFacts
  <2> QED
    BY <2>1, <2>2, <2>3 DEF WrittenBy
<1>3. record' \in [RunId -> RecordSet]
  BY <1>1 DEF TypeOK, RecordSet
<1>4. TypeOK'
  BY <1>2, <1>3, LoseFacts
<1>5. ASSUME Quiet' PROVE OnDisk'
  <2>1. Quiet
    BY <1>5, LoseFacts
  <2>2. /\ field = e /\ runOf[e] \in RunId
        /\ \A g \in Exec : g > e => pc[g] = "idle"
    BY <2>1, Writer
  <2>3. pc'[e] = "lost"
    BY DEF Lose
  <2>4. \A f \in Exec : pc'[f] = "returned" => field # f
    BY <2>2, <2>3
  <2>5. ASSUME NEW f \in Exec, NEW s \in Step, Worked(f)', results[f][s].status = "failure"
        PROVE  \/ checkpoint'[runOf[f]].status = "none"
               \/ checkpoint'[runOf[f]].steps[s] = results[f][s]
               \/ checkpoint'[runOf[f]] = checkpoint[runOf[f]]
    <3>1. f = e
      <4>1. ~(f < e)
        BY <2>3, <2>5 DEF Worked
      <4>2. pc'[f] # "idle" /\ Fits(f)' /\ Fits(f) /\ runOf'[f] = runOf[f]
        BY <2>5, LoseFacts DEF IInv, Worked
      <4>3. pc[f] # "idle"
        BY <4>2 DEF Fits, Course
      <4> QED
        BY <2>2, <4>1, <4>3, CallFacts
    <3>2. CASE checkpoint' = [checkpoint EXCEPT ![runOf[field]] = NoFile]
      BY <1>1, <2>2, <3>1, <3>2 DEF TypeOK, NoFile
    <3>3. ASSUME Settled(e), NEW n \in 0 .. Len(Plan[phase[e]]),
                 checkpoint' = Save(e, "running", After(e, n), outputs)
          PROVE  checkpoint'[runOf[f]].steps[s] = results[f][s]
      <4>1. checkpoint'[runOf[e]].steps = After(e, n)
        BY <1>1, <2>2, <3>3 DEF Save, TypeOK
      <4>2. After(e, n)[s] = results[e][s]
        BY <2>5, <3>1, <3>3, RecordingFacts
      <4> QED
        BY <3>1, <4>1, <4>2
    <3> QED
      BY <3>2, <3>3 DEF WrittenBy
  <2> QED
    BY <1>5, <2>4, <2>5, LoseKeepsOnDisk
<1> QED
  BY <1>4, <1>5, LoseFacts DEF IInv

\* A crash between two actions.
LEMMA CrashKeeps == ASSUME IInv, Crash PROVE IInv'
<1>1. Lose /\ checkpoint' = checkpoint /\ record' = record
  BY DEF Crash
<1>2. TypeOK'
  BY <1>1, LoseFacts DEF IInv, TypeOK, CheckpointSet, RecordSet
<1>3. Quiet' => OnDisk'
  BY <1>1, LoseKeepsOnDisk
<1> QED
  BY <1>1, <1>2, <1>3, LoseFacts DEF IInv

\* A crash between two checkpoints of a phase.
LEMMA CrashWhileRecordingKeeps ==
  ASSUME IInv, NEW e \in Exec, CrashWhileRecording(e) PROVE IInv'
<1>1. Lose /\ Settled(e) /\ PlanRuns(e) /\ phase[e] \in DOMAIN Plan /\ record' = record
  BY DEF CrashWhileRecording, Settled, PlanRuns
<1>2. PICK n \in 1 .. RecordedTo(e) : checkpoint' = Save(e, "running", After(e, n), outputs)
  BY DEF CrashWhileRecording
<1>3. n \in 0 .. Len(Plan[phase[e]])
  BY <1>1, RecordedToFacts, PhaseFacts, LenProperties
<1>4. WrittenBy(e) /\ "none" \in RecordSet
  BY <1>1, <1>2, <1>3 DEF WrittenBy, RecordSet
<1> QED
  BY <1>1, <1>4, CrashOfWriterKeeps

\* A call that is about to write how it ended is at work, and writes a status
\* that the record knows.
LEMMA EndingFacts ==
  ASSUME IInv, NEW e \in Exec, Ending(e)
  PROVE  /\ Open(e) /\ EndStatus(e) \in RecordSet
         /\ pc[e] # "failing" => Settled(e) /\ phase[e] \in DOMAIN Plan
<1>1. Course(pc[e], runOf[e], resumed[e], phase[e], outcome[e])
  BY DEF IInv, Fits
<1>2. Open(e) /\ (pc[e] # "failing" => Settled(e) /\ phase[e] \in DOMAIN Plan)
  BY DEF Ending, Open, Settled, PlanRuns
<1>3. EndStatus(e) \in RecordSet
  BY <1>1 DEF EndStatus, RecordSet, DiskStatus, Course
<1> QED
  BY <1>2, <1>3

\* A crash in the middle of a checkpoint, of a call's start, of a phase or of the end.
LEMMA CrashWhileSavingKeeps ==
  ASSUME IInv, NEW e \in Exec, CrashWhileSaving(e) PROVE IInv'
<1>1. Lose /\ WrittenBy(e)
  BY DEF CrashWhileSaving, WrittenBy
<1>2. CASE (pc[e] = "starting" \/ Settled(e)) /\ UNCHANGED record
  <2>1. (Open(e) \/ PlanRuns(e)) /\ "none" \in RecordSet
    BY <1>2 DEF Open, Settled, RecordSet
  <2> QED
    BY <1>1, <1>2, <2>1, CrashOfWriterKeeps
<1>3. CASE Ending(e) /\ record' = [record EXCEPT ![runOf[field]] = EndStatus(e)]
  BY <1>1, <1>3, EndingFacts, CrashOfWriterKeeps
<1> QED
  BY <1>2, <1>3 DEF CrashWhileSaving

\* A crash in the last record of a call or between it and the checkpoint.
LEMMA CrashWhileEndingKeeps ==
  ASSUME IInv, NEW e \in Exec, CrashWhileEnding(e) PROVE IInv'
<1>1. Lose /\ Ending(e)
  BY DEF CrashWhileEnding
<1>2. PICK status \in {"none", EndStatus(e)} :
        record' = [record EXCEPT ![runOf[field]] = status]
  BY DEF CrashWhileEnding
<1>3. Open(e) /\ status \in RecordSet
  BY <1>1, <1>2, EndingFacts DEF RecordSet
<1>4. WrittenBy(e)
  <2>1. CASE pc[e] = "failing"
    BY <2>1 DEF CrashWhileEnding, WrittenBy
  <2>2. CASE pc[e] # "failing"
    <3>1. Settled(e) /\ checkpoint' = Save(e, "running", After(e, RecordedTo(e)), outputs)
      BY <1>1, <2>2, EndingFacts DEF CrashWhileEnding
    <3>2. RecordedTo(e) \in 0 .. Len(Plan[phase[e]])
      BY <1>1, <2>2, EndingFacts, RecordedToFacts
    <3> QED
      BY <3>1, <3>2 DEF WrittenBy
  <2> QED
    BY <2>1, <2>2
<1> QED
  BY <1>1, <1>2, <1>3, <1>4, CrashOfWriterKeeps

-----------------------------------------------------------------------------
\* A step of something else.
LEMMA StutterKeeps == IInv /\ UNCHANGED vars => IInv'
<1> SUFFICES ASSUME IInv, UNCHANGED vars PROVE IInv'
  OBVIOUS
<1>1. TypeOK'
  BY DEF IInv, TypeOK, vars, callVars
<1>2. \A e \in Exec : Fits(e)'
  BY DEF IInv, Fits, vars, callVars
<1>3. InOrder' /\ OneOpen'
  BY OrderKept DEF vars, callVars, Open
<1>4. Quiet' => OnDisk'
  BY OnDiskUnchanged DEF IInv, Quiet, NoStragglers, OneRun, vars, callVars
<1> QED
  BY <1>1, <1>2, <1>3, <1>4 DEF IInv

\* The invariant holds in every behaviour of the executor.
THEOREM Inductive == Spec => []IInv
<1>1. Init => IInv
  BY InitHolds
<1>2. IInv /\ [Next]_vars => IInv'
  BY StutterKeeps, BeginKeeps, ResumeKeeps, LaunchKeeps, StopKeeps, AdvanceKeeps,
     FinishKeeps, TimeOutKeeps, ReturnFailureKeeps, CrashWhileRecordingKeeps,
     CrashWhileSavingKeeps, CrashWhileEndingKeeps, StepEndsKeeps, CrashKeeps DEF Next
<1> QED
  BY <1>1, <1>2, PTL DEF Spec

\* The variables keep their types: every status that reaches a file is one that
\* the files know.
THEOREM TypeCorrect == Spec => []TypeOK
<1>1. IInv => TypeOK
  BY DEF IInv
<1> QED
  BY <1>1, Inductive, PTL

\* executePhases: no step is started before every step it depends on has a
\* recorded result, in fresh and in resumed calls, whatever was restored.
THEOREM StepsInOrder == Spec => []DependencyOrder
<1>1. IInv => DependencyOrder
  <2> SUFFICES ASSUME IInv, NEW e \in Exec, NEW s \in Step, PlanRuns(e), live[e][s] # NoResult,
                      NEW d \in Needs[s]
               PROVE  results[e][d].status \notin {"none", "running"}
    BY DEF DependencyOrder
  <2>1. /\ Runs(pc[e], phase[e]) /\ phase[e] \in DOMAIN Plan
        /\ AtWork(pc[e], phase[e], live[e])
        /\ Recorded(pc[e], phase[e], live[e], results[e], outcome[e])
    BY PhaseFacts, PlanFacts DEF IInv, Fits
  <2>2. s \in ToSet(Plan[phase[e]]) /\ d \in Step
    BY <2>1, PlanAssumption DEF AtWork
  <2>3. PICK j \in DOMAIN Plan : d \in ToSet(Plan[j])
    BY <2>2, PlanAssumption
  <2>4. j < phase[e]
    BY <2>1, <2>2, <2>3, PlanAssumption
  <2>5. j \in 1 .. phase[e] - 1
    BY <2>1, <2>3, <2>4, PlanFacts
  <2> QED
    BY <2>1, <2>2, <2>3, <2>5 DEF Recorded
<1> QED
  BY <1>1, Inductive, PTL

\* A call of execute that returns success has a result for every step, no
\* failure but of steps with continueOnError, and no step still at work.
THEOREM SuccessComplete == Spec => []SuccessIsComplete
<1>1. IInv => SuccessIsComplete
  <2> SUFFICES ASSUME IInv, NEW e \in Exec, outcome[e] = "success"
               PROVE  /\ \A s \in Step : /\ results[e][s] # NoResult
                                         /\ results[e][s].status = "failure" => s \in Continuing
                      /\ ~PlanRuns(e)
    BY DEF SuccessIsComplete
  <2>1. /\ Course(pc[e], runOf[e], resumed[e], phase[e], outcome[e])
        /\ Recorded(pc[e], phase[e], live[e], results[e], outcome[e])
    BY DEF IInv, Fits
  <2> QED
    BY <2>1, PlanFacts DEF Course, Recorded, PlanRuns
<1> QED
  BY <1>1, Inductive, PTL

\* When execute returns, the record and the checkpoint of the run say how, with
\* the results it returned, until the run is called again.
THEOREM ReturnTruthful == Spec => []ReturnIsOnDisk
<1>1. IInv => ReturnIsOnDisk
  BY DEF IInv, OnDisk, Quiet, ReturnIsOnDisk
<1> QED
  BY <1>1, Inductive, PTL

\* A strict resume gives no attempts to a step that used up its retries in the
\* call before it, crashes between two checkpoints included.
THEOREM NoRetryPastLimit == Spec => []ExhaustedNotRetried
<1>1. IInv => ExhaustedNotRetried
  BY DEF IInv, OnDisk, Quiet, ExhaustedNotRetried
<1> QED
  BY <1>1, Inductive, PTL

-----------------------------------------------------------------------------
\* A step that the checkpoint has as completed is not at work.
LEMMA DurableNotRunning ==
  ASSUME IInv, Quiet, NEW e \in Exec, NEW s \in Step, resumed[e] # "no",
         Completed(checkpoint[runOf[e]].steps[s])
  PROVE  /\ live[e][s].status # "running"
         /\ Open(e) => Completed(results[e][s])
<1>1. OnDisk
  BY DEF IInv
<1>2. Open(e) => Completed(results[e][s])
  BY <1>1 DEF OnDisk
<1>3. /\ Course(pc[e], runOf[e], resumed[e], phase[e], outcome[e])
      /\ AtWork(pc[e], phase[e], live[e])
      /\ Recorded(pc[e], phase[e], live[e], results[e], outcome[e])
  BY DEF IInv, Fits
<1>4. ASSUME live[e][s].status = "running" PROVE FALSE
  <2>1. Runs(pc[e], phase[e]) /\ s \in ToSet(Plan[phase[e]])
    BY <1>3, <1>4 DEF AtWork, NoResult, Outcome
  <2>2. pc[e] = "running"
    BY <1>3, <2>1 DEF Course, Quiet, NoStragglers
  <2>3. Completed(results[e][s])
    BY <1>2, <2>2 DEF Open
  <2>4. Completed(live[e][s])
    BY <1>3, <2>1, <2>3 DEF Recorded
  <2> QED
    BY <1>4, <2>4 DEF Completed
<1> QED
  BY <1>2, <1>4

\* A call never gives up its run id.
LEMMA OneRunBefore == ASSUME IInv, Next, OneRun' PROVE OneRun
<1>1. CASE UNCHANGED runOf
  BY <1>1 DEF OneRun
<1>2. ASSUME NEW e \in Exec, NEW id \in RunId, Start(e, id) PROVE OneRun
  <2>1. runOf[e] = "none" /\ runOf' = [runOf EXCEPT ![e] = id]
    BY <1>2, StartFacts DEF Start
  <2>2. \A f \in Exec : runOf[f] # "none" => runOf'[f] = runOf[f]
    BY <2>1 DEF IInv, TypeOK
  <2> QED
    BY <2>2 DEF OneRun
<1>3. \A e \in Exec, id \in RunId : Begin(e, id) \/ Resume(e, id) => Start(e, id)
  BY DEF Begin, Resume
<1>4. \A e \in Exec : Launch(e) \/ Stop(e) \/ Advance(e) \/ Finish(e) => UNCHANGED runOf
  BY DEF Launch, Stop, Advance, Finish
<1>5. \A e \in Exec : \/ TimeOut(e) \/ ReturnFailure(e) \/ Crash
                       \/ CrashWhileRecording(e) \/ CrashWhileSaving(e) \/ CrashWhileEnding(e)
                       => UNCHANGED runOf
  BY DEF TimeOut, ReturnFailure, Crash, CrashWhileRecording, CrashWhileSaving,
         CrashWhileEnding, Lose
<1>6. \A e \in Exec, s \in Step : StepEnds(e, s) => UNCHANGED runOf
  BY DEF StepEnds, StepSucceeds, StepRetries, StepFails, StepGivesUp, StepTimesOut, StepTo
<1> QED
  BY <1>1, <1>2, <1>3, <1>4, <1>5, <1>6, CallFacts DEF Next

\* restoreFromCheckpoint and saveCheckpoint: a step completed on disk is not run
\* again by the call that works on the run, and stays completed but for a crash
\* in the middle of a checkpoint, which takes all of it.
THEOREM StepsKept == Spec => DurableStepsKept
<1> DEFINE Premise(e, s) == /\ field' = e /\ resumed'[e] # "no" /\ NoStragglers /\ OneRun'
                            /\ Completed(checkpoint[runOf'[e]].steps[s])
           Goal(e, s) == /\ live'[e][s].status # "running"
                         /\ \/ Completed(checkpoint'[runOf'[e]].steps[s])
                            \/ crashes' > crashes /\ checkpoint'[runOf'[e]] = NoFile
<1>1. ASSUME IInv, Next, NEW e \in Exec, NEW s \in Step, Premise(e, s) PROVE Goal(e, s)
  <2>1. TypeOK /\ Quiet /\ OnDisk
    BY <1>1, OneRunBefore DEF IInv, Quiet
  <2>2. ASSUME NEW g \in Exec, NEW id \in RunId, Begin(g, id) PROVE Goal(e, s)
    <3>1. g = e /\ resumed'[e] = resumed[e]
      BY <1>1, <2>2 DEF Begin, Start
    <3>2. resumed[e] = "no"
      BY <1>1, <2>2, <3>1, StartFacts DEF Begin
    <3> QED
      BY <1>1, <3>1, <3>2
  <2>3. ASSUME NEW g \in Exec, NEW id \in RunId, Resume(g, id) PROVE Goal(e, s)
    <3>1. g = e /\ Start(e, id) /\ checkpoint' = checkpoint /\ live' = live
      BY <1>1, <2>3 DEF Resume, Start
    <3>2. live[e][s] = NoResult
      BY <1>1, <3>1, StartFacts
    <3> QED
      BY <1>1, <3>1, <3>2 DEF NoResult, Outcome
  <2>4. ASSUME UNCHANGED <<runOf, resumed, field>>
        PROVE  /\ field = e /\ runOf'[e] = runOf[e] /\ live[e][s].status # "running"
               /\ Completed(checkpoint[runOf[e]].steps[s])
               /\ Open(e) => Completed(results[e][s])
               /\ \A g \in Exec : Open(g) \/ PlanRuns(g) => g = e /\ Open(e) /\ runOf[e] \in RunId
    <3>1. field = e /\ resumed[e] # "no" /\ Completed(checkpoint[runOf[e]].steps[s])
      BY <1>1, <2>4
    <3>2. \A g \in Exec : Open(g) \/ PlanRuns(g) => field = g /\ Open(g) /\ runOf[g] \in RunId
      BY <1>1, <2>1, Writer
    <3>3. live[e][s].status # "running" /\ (Open(e) => Completed(results[e][s]))
      BY <1>1, <2>1, <3>1, DurableNotRunning
    <3> QED
      BY <2>4, <3>1, <3>2, <3>3
  <2>5. ASSUME NEW g \in Exec, Launch(g) PROVE Goal(e, s)
    <3>1. /\ UNCHANGED <<runOf, resumed, field>> /\ Open(g)
          /\ checkpoint' = [checkpoint EXCEPT ![runOf[field]] =
               [status |-> "running", steps |-> results[g], outputs |-> outputs[field]]]
      BY <2>5 DEF Launch, Open
    <3>2. g = e /\ field = e /\ runOf[e] \in RunId /\ Completed(results[e][s]) /\ runOf'[e] = runOf[e]
      BY <2>4, <3>1
    <3>3. checkpoint'[runOf[e]].steps = results[e]
      BY <2>1, <3>1, <3>2 DEF TypeOK
    <3>4. PICK skip \in SUBSET Conditional :
            live' = [live EXCEPT ![e] = Started(1, results[e], outputs[field], skip)]
      BY <2>5, <3>2 DEF Launch
    <3>5. live'[e] = Started(1, results[e], outputs[field], skip)
          /\ results[e] \in [Step -> ResultSet] /\ 1 \in DOMAIN Plan
      BY <2>1, <3>4, PlanFacts DEF TypeOK
    <3>6. live'[e][s] = NoResult \/ live'[e][s] = results[e][s]
      BY <3>2, <3>5, StartedFacts
    <3> QED
      BY <3>2, <3>3, <3>6 DEF Completed, NoResult, Outcome
  <2>6. ASSUME NEW g \in Exec, Settled(g), UNCHANGED <<runOf, resumed, field>>,
               NEW n \in 0 .. Len(Plan[phase[g]]), NEW st,
               checkpoint' = Save(g, st, After(g, n), outputs)
        PROVE  /\ g = e /\ Completed(checkpoint'[runOf'[e]].steps[s])
               /\ Completed(After(e, n)[s]) /\ After(e, n) \in [Step -> ResultSet]
    <3>1. /\ PlanRuns(g) /\ g = e /\ field = e /\ runOf[e] \in RunId
          /\ Completed(results[e][s]) /\ runOf'[e] = runOf[e]
      BY <2>4, <2>6 DEF Settled
    <3>2. Completed(After(e, n)[s]) /\ After(e, n) \in [Step -> ResultSet]
      BY <1>1, <2>6, <3>1, RecordingFacts
    <3>3. checkpoint'[runOf[e]].steps = After(e, n)
      BY <2>1, <2>6, <3>1 DEF Save, TypeOK
    <3> QED
      BY <3>1, <3>2, <3>3
  <2>7. ASSUME NEW g \in Exec, Stop(g) \/ Advance(g) \/ Finish(g) PROVE Goal(e, s)
    <3> DEFINE n == RecordedTo(g)
    <3>1. /\ Settled(g) /\ PlanRuns(g) /\ UNCHANGED <<runOf, resumed, field>>
          /\ results' = [results EXCEPT ![g] = After(g, n)]
          /\ \E st \in {"running", "completed"} : checkpoint' = Save(g, st, results'[g], outputs)
      BY <2>7 DEF Stop, Advance, Finish, Settled
    <3>2. results'[g] = After(g, n) /\ n \in 0 .. Len(Plan[phase[g]])
      BY <2>1, <3>1, RecordedToFacts DEF TypeOK, PlanRuns
    <3>3. /\ g = e /\ Completed(checkpoint'[runOf'[e]].steps[s])
          /\ Completed(After(e, n)[s]) /\ After(e, n) \in [Step -> ResultSet]
      BY <2>6, <3>1, <3>2
    <3>4. CASE Stop(g) \/ Finish(g)
      <4>1. live' = [live EXCEPT ![e] = Nothing]
        BY <3>3, <3>4 DEF Stop, Finish
      <4>2. live'[e][s] = NoResult
        BY <2>1, <4>1 DEF TypeOK, Nothing
      <4> QED
        BY <3>3, <4>2 DEF NoResult, Outcome
    <3>5. CASE Advance(g)
      <4>1. phase[e] + 1 \in DOMAIN Plan
        BY <3>1, <3>3, <3>5, PlanFacts DEF Advance, PlanRuns
      <4>2. PICK skip \in SUBSET Conditional : live' = [live EXCEPT ![e] =
              Started(phase[e] + 1, After(e, n), outputs[stepStore], skip)]
        BY <3>2, <3>3, <3>5 DEF Advance
      <4>3. live'[e] = Started(phase[e] + 1, After(e, n), outputs[stepStore], skip)
        BY <2>1, <4>2 DEF TypeOK
      <4>4. live'[e][s] = NoResult \/ live'[e][s] = After(e, n)[s]
        BY <3>3, <4>1, <4>3, StartedFacts
      <4> QED
        BY <3>3, <4>4 DEF Completed, NoResult, Outcome
    <3> QED
      BY <2>7, <3>4, <3>5
  <2>8. ASSUME NEW g \in Exec, TimeOut(g) PROVE Goal(e, s)
    <3>1. UNCHANGED <<runOf, resumed, field, checkpoint, live>>
      BY <2>8 DEF TimeOut
    <3> QED
      BY <2>4, <3>1
  <2>9. ASSUME NEW g \in Exec, ReturnFailure(g) PROVE Goal(e, s)
    <3>1. /\ UNCHANGED <<runOf, resumed, field, live>> /\ Open(g)
          /\ checkpoint' = Save(g, DiskStatus(outcome[g]), results[g], outputs)
      BY <2>9 DEF ReturnFailure, Open
    <3>2. /\ g = e /\ field = e /\ runOf[e] \in RunId /\ Completed(results[e][s])
          /\ runOf'[e] = runOf[e] /\ live[e][s].status # "running"
      BY <2>4, <3>1
    <3>3. checkpoint'[runOf[e]].steps = results[e]
      BY <2>1, <3>1, <3>2 DEF Save, TypeOK
    <3> QED
      BY <3>1, <3>2, <3>3
  <2>10. ASSUME NEW g \in Exec, NEW t \in Step, StepEnds(g, t) PROVE Goal(e, s)
    <3>1. /\ UNCHANGED <<runOf, resumed, field, checkpoint>> /\ Running(g, t)
          /\ \E r : live' = [live EXCEPT ![g][t] = r]
      BY <2>10 DEF StepEnds, StepSucceeds, StepRetries, StepFails, StepGivesUp, StepTimesOut, StepTo
    <3>2. g = e /\ live[e][t].status = "running"
      BY <2>4, <3>1 DEF Running
    <3>3. s # t /\ live[e][s].status # "running"
      BY <2>4, <3>1, <3>2
    <3>4. live'[e][s] = live[e][s]
      BY <2>1, <3>1, <3>2, <3>3 DEF TypeOK
    <3> QED
      BY <2>4, <3>1, <3>3, <3>4
  <2>11. ASSUME Lose PROVE /\ UNCHANGED <<runOf, resumed, field>>
                           /\ live'[e][s].status # "running"
    BY <1>1, <2>11 DEF Lose, Nothing, NoResult, Outcome
  <2>12. ASSUME Crash PROVE Goal(e, s)
    BY <2>4, <2>11, <2>12 DEF Crash
  <2>13. ASSUME NEW g \in Exec, CrashWhileRecording(g) PROVE Goal(e, s)
    <3>1. Lose /\ Settled(g) /\ PlanRuns(g) /\ phase[g] \in DOMAIN Plan
      BY <2>13 DEF CrashWhileRecording, Settled, PlanRuns
    <3>2. PICK n \in 1 .. RecordedTo(g) : checkpoint' = Save(g, "running", After(g, n), outputs)
      BY <2>13 DEF CrashWhileRecording
    <3>3. n \in 0 .. Len(Plan[phase[g]])
      BY <3>1, <3>2, RecordedToFacts, PlanFacts, LenProperties
    <3>4. Completed(checkpoint'[runOf'[e]].steps[s])
      BY <2>6, <2>11, <3>1, <3>2, <3>3
    <3> QED
      BY <2>11, <3>1, <3>4
  <2>14. ASSUME NEW g \in Exec, CrashWhileSaving(g) PROVE Goal(e, s)
    <3>1. Lose /\ (Open(g) \/ PlanRuns(g))
      BY <2>14, EndingFacts, <1>1 DEF CrashWhileSaving, Open, Settled
    <3>2. checkpoint' = [checkpoint EXCEPT ![runOf[field]] = NoFile]
      BY <2>14 DEF CrashWhileSaving
    <3>3. field = e /\ runOf[e] \in RunId /\ runOf'[e] = runOf[e]
      BY <2>4, <2>11, <3>1
    <3>4. checkpoint'[runOf'[e]] = NoFile
      BY <2>1, <3>2, <3>3 DEF TypeOK
    <3>5. crashes' > crashes
      BY <2>1, <3>1, StepAssumption DEF Lose, TypeOK
    <3> QED
      BY <2>11, <3>1, <3>4, <3>5
  <2>15. ASSUME NEW g \in Exec, CrashWhileEnding(g) PROVE Goal(e, s)
    <3>1. Lose /\ Ending(g)
      BY <2>15 DEF CrashWhileEnding
    <3>2. Completed(checkpoint'[runOf'[e]].steps[s])
      <4>1. CASE pc[g] = "failing"
        <5>1. checkpoint' = checkpoint
          BY <2>15, <4>1 DEF CrashWhileEnding
        <5> QED
          BY <2>4, <2>11, <3>1, <5>1
      <4>2. CASE pc[g] # "failing"
        <5>1. Settled(g) /\ checkpoint' = Save(g, "running", After(g, RecordedTo(g)), outputs)
          BY <1>1, <2>15, <3>1, <4>2, EndingFacts DEF CrashWhileEnding
        <5>2. RecordedTo(g) \in 0 .. Len(Plan[phase[g]])
          BY <1>1, <3>1, <4>2, EndingFacts, RecordedToFacts
        <5> QED
          BY <2>6, <2>11, <3>1, <5>1, <5>2
      <4> QED
        BY <4>1, <4>2
    <3> QED
      BY <2>11, <3>1, <3>2
  <2> QED
    BY <1>1, <2>2, <2>3, <2>5, <2>7, <2>8, <2>9, <2>10, <2>12, <2>13, <2>14, <2>15 DEF Next
<1>2. IInv /\ [Next]_vars => [\A e \in Exec, s \in Step : Premise(e, s) => Goal(e, s)]_vars
  BY <1>1
<1> QED
  BY <1>2, Inductive, PTL DEF Spec, DurableStepsKept

-----------------------------------------------------------------------------
(***************************************************************************)
(* The adapters a step may be given to                                     *)
(***************************************************************************)
\* What is registered under the names.
Registered(A) == A \in [AdapterName -> AdapterKinds \cup {Nobody}]

LEMMA NamesakeIsPreferred == ASSUME NEW A, NEW n, NEW b, b # n PROVE Preferred(A, n, b, n)
  BY DEF Preferred

LEMMA AdapterFields ==
  ASSUME NEW A, Registered(A), NEW a \in AdapterName, A[a] # Nobody
  PROVE  A[a].priority \in {50, 90} /\ A[a].any \in BOOLEAN
  BY DEF Registered, AdapterKinds

\* Of two adapters one is preferred, and of three it follows.
LEMMA PreferredIsAnOrder ==
  ASSUME NEW A, Registered(A), NEW n
  PROVE  /\ \A a, b \in Supporting(A, n) : a # b => (Preferred(A, a, b, n) <=> ~Preferred(A, b, a, n))
         /\ \A a, b, c \in Supporting(A, n) :
              Preferred(A, a, b, n) /\ Preferred(A, b, c, n) => Preferred(A, a, c, n)
<1>1. \A a \in Supporting(A, n) : a \in Nat /\ A[a].priority \in {50, 90}
  BY AdaptersAssumption, AdapterFields DEF Supporting
<1>2. ASSUME NEW a \in Supporting(A, n), NEW b \in Supporting(A, n), a # b
      PROVE  Preferred(A, a, b, n) <=> ~Preferred(A, b, a, n)
  BY <1>1, <1>2 DEF Preferred
<1>3. ASSUME NEW a \in Supporting(A, n), NEW b \in Supporting(A, n), NEW c \in Supporting(A, n),
             Preferred(A, a, b, n), Preferred(A, b, c, n)
      PROVE  Preferred(A, a, c, n)
  BY <1>1, <1>3 DEF Preferred
<1> QED
  BY <1>2, <1>3

\* There is a first choice: the namespace's own adapter, or the least name of
\* those with the highest priority there is.
LEMMA AChoiceExists ==
  ASSUME NEW A, Registered(A), NEW n, Supporting(A, n) # {}
  PROVE  \E a \in Supporting(A, n) : \A b \in Supporting(A, n) \ {a} : Preferred(A, a, b, n)
<1> DEFINE S == Supporting(A, n)
           T == IF \E s \in S : A[s].priority = 90 THEN {s \in S : A[s].priority = 90} ELSE S
<1>1. \A a \in S : a \in Nat /\ A[a].priority \in {50, 90}
  BY AdaptersAssumption, AdapterFields DEF Supporting
<1>2. CASE n \in S
  BY <1>2, NamesakeIsPreferred
<1>3. CASE n \notin S
  <2>1. T \in SUBSET Nat /\ T # {} /\ T \subseteq S
    BY <1>1
  <2>2. PICK a \in T : \A b \in T : a <= b
    BY <2>1, LeastExists
  <2>3. \A b \in S \ {a} : Preferred(A, a, b, n)
    <3>1. ASSUME NEW b \in S \ {a} PROVE Preferred(A, a, b, n)
      <4>1. a # n /\ b # n /\ a \in S /\ b \in S /\ a \in Nat /\ b \in Nat
        BY <1>1, <1>3, <2>1
      <4>2. CASE b \in T
        <5>1. A[a].priority = A[b].priority
          BY <1>1, <4>1, <4>2
        <5>2. a < b
          BY <2>2, <4>1, <4>2
        <5> QED
          BY <4>1, <5>1, <5>2 DEF Preferred
      <4>3. CASE b \notin T
        <5>1. A[a].priority = 90 /\ A[b].priority = 50
          BY <1>1, <4>1, <4>3
        <5> QED
          BY <4>1, <5>1 DEF Preferred
      <4> QED
        BY <4>2, <4>3
    <3> QED
      BY <3>1
  <2> QED
    BY <2>1, <2>3
<1> QED
  BY <1>2, <1>3

\* resolve is the first choice, and the only one.
LEMMA AdapterForIsChoice ==
  ASSUME NEW A, Registered(A), NEW n, Supporting(A, n) # {}
  PROVE  /\ AdapterFor(A, n) \in Supporting(A, n)
         /\ \A b \in Supporting(A, n) \ {AdapterFor(A, n)} : Preferred(A, AdapterFor(A, n), b, n)
         /\ \A a \in Supporting(A, n) :
              (\A b \in Supporting(A, n) \ {a} : Preferred(A, a, b, n)) => a = AdapterFor(A, n)
<1>1. /\ AdapterFor(A, n) \in Supporting(A, n)
      /\ \A b \in Supporting(A, n) \ {AdapterFor(A, n)} : Preferred(A, AdapterFor(A, n), b, n)
  BY AChoiceExists DEF AdapterFor
<1>2. ASSUME NEW a \in Supporting(A, n), \A b \in Supporting(A, n) \ {a} : Preferred(A, a, b, n),
             a # AdapterFor(A, n)
      PROVE  FALSE
  BY <1>1, <1>2, PreferredIsAnOrder
<1> QED
  BY <1>1, <1>2

\* An adapter of the very name is chosen, and one that is not chosen can go.
LEMMA ChoiceStands ==
  ASSUME NEW A, Registered(A), NEW n \in AdapterName \cup {0}
  PROVE  /\ n \in AdapterName /\ A[n] # Nobody => AdapterFor(A, n) = n
         /\ \A a \in AdapterName \ {AdapterFor(A, n)} :
              AdapterFor([A EXCEPT ![a] = Nobody], n) = AdapterFor(A, n)
<1>1. ASSUME n \in AdapterName, A[n] # Nobody PROVE AdapterFor(A, n) = n
  <2>1. n \in Supporting(A, n)
    BY <1>1 DEF Supporting
  <2>2. \A b \in Supporting(A, n) \ {n} : Preferred(A, n, b, n)
    BY NamesakeIsPreferred
  <2> QED
    BY <2>1, <2>2, AdapterForIsChoice
<1>2. ASSUME NEW a \in AdapterName \ {AdapterFor(A, n)}
      PROVE  AdapterFor([A EXCEPT ![a] = Nobody], n) = AdapterFor(A, n)
  <2> DEFINE B == [A EXCEPT ![a] = Nobody]
  <2>1. /\ Registered(B) /\ Supporting(B, n) = Supporting(A, n) \ {a}
        /\ \A b \in AdapterName \ {a} : B[b] = A[b]
    BY DEF Registered, Supporting
  <2>2. CASE Supporting(A, n) = {}
    BY <2>1, <2>2 DEF AdapterFor
  <2>3. CASE Supporting(A, n) # {}
    <3>1. /\ AdapterFor(A, n) \in Supporting(A, n) \ {a}
          /\ \A b \in Supporting(A, n) \ {AdapterFor(A, n)} : Preferred(A, AdapterFor(A, n), b, n)
      BY <2>3, AdapterForIsChoice
    <3>2. \A c, b \in Supporting(A, n) \ {a} : Preferred(B, c, b, n) <=> Preferred(A, c, b, n)
      BY <2>1 DEF Preferred, Supporting
    <3>3. \A b \in Supporting(B, n) \ {AdapterFor(A, n)} : Preferred(B, AdapterFor(A, n), b, n)
      BY <2>1, <3>1, <3>2
    <3> HIDE DEF B
    <3>4. AdapterFor(A, n) \in Supporting(B, n) /\ Supporting(B, n) # {}
      BY <2>1, <3>1
    <3>5. AdapterFor(B, n) = AdapterFor(A, n)
      BY <2>1, <3>3, <3>4, AdapterForIsChoice
    <3> QED
      BY <3>5 DEF B
  <2> QED
    BY <2>2, <2>3
<1> QED
  BY <1>1, <1>2

\* A name that counts as initialized belongs to an adapter that was, is being
\* cleaned up or was given up meanwhile, and so does one that is about to.
RegistryInv ==
  /\ Registered(adapters)
  /\ initialized \subseteq primed \cup crossed \cup BeingCleaned
  /\ BeingInitialized \subseteq RegisteredNames \cup crossed

\* A call that is begun is of what it names.
LEMMA NamesOfCalls ==
  ASSUME NEW S, NEW c
  PROVE  /\ {d.name : d \in S \cup {c}} = {d.name : d \in S} \cup {c.name}
         /\ UNION {d.names : d \in S \cup {c}} = (UNION {d.names : d \in S}) \cup c.names
<1>1. {d.name : d \in S \cup {c}} = {d.name : d \in S} \cup {c.name}
  OBVIOUS
<1>2. {d.names : d \in S \cup {c}} = {d.names : d \in S} \cup {c.names}
  OBVIOUS
<1>3. \A N, m : UNION (N \cup {m}) = (UNION N) \cup m
  OBVIOUS
<1> QED
  BY <1>1, <1>2, <1>3

LEMMA RegistrySteps == RegistryInv /\ [RegistryNext]_registryVars => RegistryInv'
<1> SUFFICES ASSUME RegistryInv, [RegistryNext]_registryVars PROVE RegistryInv'
  OBVIOUS
<1> USE DEF RegistryInv, Registered, RegisteredNames
<1>1. ASSUME NEW a \in AdapterName, RegisterAdapter(a) PROVE RegistryInv'
  BY <1>1 DEF RegisterAdapter, BeingInitialized, BeingCleaned
<1>2. ASSUME NEW a \in AdapterName, UnregisterAdapter(a) PROVE RegistryInv'
  BY <1>2 DEF UnregisterAdapter, Crosses, BeingInitialized, BeingCleaned
<1>3. ASSUME NEW a \in AdapterName, InitializeCalled(a) PROVE RegistryInv'
  <2>1. BeingInitialized' = BeingInitialized \cup {a} /\ BeingCleaned' = BeingCleaned
    BY <1>3, NamesOfCalls DEF InitializeCalled, BeingInitialized, BeingCleaned
  <2> QED
    BY <1>3, <2>1 DEF InitializeCalled
<1>4. ASSUME NEW c \in initializing, InitializeEnds(c) PROVE RegistryInv'
  <2>1. /\ c.name \in BeingInitialized /\ BeingInitialized' \subseteq BeingInitialized
        /\ BeingCleaned' = BeingCleaned
    BY <1>4 DEF InitializeEnds, BeingInitialized, BeingCleaned
  <2> QED
    BY <1>4, <2>1 DEF InitializeEnds
<1>5. ASSUME NEW c \in initializing, InitializeFails(c) PROVE RegistryInv'
  <2>1. BeingInitialized' \subseteq BeingInitialized /\ BeingCleaned' = BeingCleaned
    BY <1>5 DEF InitializeFails, BeingInitialized, BeingCleaned
  <2> QED
    BY <1>5, <2>1 DEF InitializeFails
<1>6. ASSUME NEW names, CleanupCalled(names) PROVE RegistryInv'
  <2>1. BeingCleaned' = BeingCleaned \cup names /\ BeingInitialized' = BeingInitialized
    <3> DEFINE c == [call |-> registryCalls, names |-> names]
    <3>1. cleaning' = cleaning \cup {c} /\ initializing' = initializing /\ c.names = names
      BY <1>6 DEF CleanupCalled
    <3> HIDE DEF c
    <3> QED
      BY <3>1, NamesOfCalls DEF BeingCleaned, BeingInitialized
  <2> QED
    BY <1>6, <2>1 DEF CleanupCalled, Crosses
<1>7. ASSUME NEW c \in cleaning, CleanupCallEnds(c) PROVE RegistryInv'
  <2>1. BeingCleaned \subseteq BeingCleaned' \cup c.names /\ BeingInitialized' = BeingInitialized
    BY <1>7 DEF CleanupCallEnds, BeingCleaned, BeingInitialized
  <2> QED
    BY <1>7, <2>1 DEF CleanupCallEnds
<1>8. CASE ClearRegistry
  <2>1. BeingInitialized' = BeingInitialized /\ BeingCleaned' = BeingCleaned
    BY <1>8 DEF ClearRegistry, BeingInitialized, BeingCleaned
  <2>2. BeingInitialized \subseteq AdapterName \cup crossed
    OBVIOUS
  <2> QED
    BY <1>8, <2>1, <2>2 DEF ClearRegistry, Crosses
<1>9. CASE UNCHANGED registryVars
  BY <1>9 DEF registryVars, BeingInitialized, BeingCleaned
<1> QED
  BY <1>1, <1>2, <1>3, <1>4, <1>5, <1>6, <1>7, <1>8, <1>9 DEF RegistryNext

\* A name that counts as initialized is that of an adapter that was, or is being
\* cleaned up, or was given up meanwhile; and an adapter of an action's own
\* namespace is the one that is found for it, an adapter that is not found makes
\* no difference, for any names and calls (AdapterRegistry).
THEOREM RegistryIsSafe == RegistrySpec => []RegistrySafe
<1>1. RegistryInit => RegistryInv
  BY DEF RegistryInit, RegistryInv, Registered, RegisteredNames, BeingInitialized
<1>2. RegistryInv => RegistrySafe
  BY ChoiceStands DEF RegistryInv, RegistrySafe, CapabilitiesPass, RegisteredNames
<1> QED
  BY <1>1, <1>2, RegistrySteps, PTL DEF RegistrySpec

-----------------------------------------------------------------------------
(***************************************************************************)
(* What a step asks of its adapters                                        *)
(***************************************************************************)
\* How often an attempt may run the action, and does, if there is a legacy adapter
\* and nothing else to blame.
RunsOf(c) == IF c.set.legacy /\ c.set.driver = "handles" THEN 2 ELSE 1
LeastRuns(c) == IF c.set.driver = "handles" /\ ~c.set.outputs THEN 2 ELSE 1

\* The place in an attempt says how often the action was begun, at most in the
\* attempts that are over and this one, and at least, where a legacy adapter is
\* always asked in the end.
CallCounts(c) ==
  LET over == RunsOf(c) * (c.try - 1)
  IN /\ c.at = "called" => c.try = 0 /\ c.started = 0
     /\ c.at = "skipped" => c.try = 0
     /\ c.at \notin {"called", "skipped"} => c.try \in 1 .. MaxTries
     /\ c.at = "trying" => c.started <= over
     /\ c.at = "driver" => /\ c.started <= over + 1 /\ c.started >= 1
                           /\ c.set.driver = "handles" /\ c.set.timer # "invalid"
     /\ c.at = "legacy" => /\ c.started <= over + RunsOf(c) - 1 /\ c.started >= RunsOf(c) - 1
                           /\ c.set.legacy /\ c.set.timer # "invalid"
     /\ c.at = "legacyRuns" => /\ c.started >= RunsOf(c)
                               /\ c.set.legacy /\ c.set.timer # "invalid"
     /\ c.at = "trying" /\ c.try > 1 /\ c.set.legacy /\ ~c.unfit => c.started >= LeastRuns(c)
     /\ c.at \in {"called", "skipped"} => c.left = 0

CallStates ==
  [set : CallSettings, at : {"called", "trying", "driver", "legacy", "legacyRuns"} \cup Done,
   try : 0 .. MaxTries, started : Nat, left : Nat,
   second : BOOLEAN, resolved : BOOLEAN, expired : BOOLEAN, unfit : BOOLEAN]

CallInv == stepCall \in CallStates /\ CallCounts(stepCall) /\ CallSafe

\* K * n for the K there is.
LEMMA CallArithmetic ==
  ASSUME NEW c \in CallStates
  PROVE  /\ RunsOf(c) \in {1, 2} /\ LeastRuns(c) \in {1, 2}
         /\ RunsOf(c) * (c.try - 1) \in Int
         /\ RunsOf(c) * c.try = RunsOf(c) * (c.try - 1) + RunsOf(c)
         /\ RunsOf(c) * (c.try + 1 - 1) = RunsOf(c) * c.try
         /\ RunsOf(c) * (1 - 1) = 0 /\ RunsOf(c) * 0 = 0
<1>1. RunsOf(c) \in {1, 2} /\ LeastRuns(c) \in {1, 2} /\ c.try \in Int
  BY AdaptersAssumption DEF CallStates, RunsOf, LeastRuns
<1>2. CASE RunsOf(c) = 1
  BY <1>1, <1>2
<1>3. CASE RunsOf(c) = 2
  BY <1>1, <1>3
<1> QED
  BY <1>1, <1>2, <1>3

LEMMA CallStarts == CallInit => CallInv
<1> SUFFICES ASSUME CallInit PROVE CallInv
  OBVIOUS
<1>1. PICK c \in CallSettings :
        stepCall = [set |-> c, at |-> "called", try |-> 0, started |-> 0, left |-> 0,
                    second |-> FALSE, resolved |-> FALSE, expired |-> FALSE, unfit |-> FALSE]
  BY DEF CallInit
<1>2. stepCall \in CallStates
  BY <1>1, AdaptersAssumption DEF CallStates
<1>3. RunsOf(stepCall) * stepCall.try = 0
  BY <1>1, <1>2, CallArithmetic
<1> QED
  BY <1>1, <1>2, <1>3 DEF CallInv, CallCounts, CallSafe, RunsOf

AfterAttempt(call, at, try) == [call EXCEPT !.at = at, !.try = try, !.second = FALSE]
WithLegacy(call) == [call EXCEPT !.at = "legacy", !.second = TRUE]

LEMMA AttemptOver ==
  ASSUME NEW call \in CallStates, NEW at \in {"trying", "timeout", "failure", "threw"},
         NEW try \in 1 .. MaxTries, stepCall' = AfterAttempt(call, at, try)
  PROVE  /\ stepCall' \in CallStates /\ stepCall'.at = at /\ stepCall'.try = try
         /\ stepCall'.set = call.set /\ stepCall'.started = call.started
         /\ stepCall'.left = call.left /\ stepCall'.expired = call.expired
         /\ stepCall'.unfit = call.unfit
         /\ RunsOf(stepCall') = RunsOf(call) /\ LeastRuns(stepCall') = LeastRuns(call)
<1>1. try \in 0 .. MaxTries /\ at \in {"called", "trying", "driver", "legacy", "legacyRuns"} \cup Done
  BY AdaptersAssumption DEF Done
<1> QED
  BY <1>1 DEF CallStates, RunsOf, LeastRuns, AfterAttempt

\* A failed attempt is followed by the next one, or is the last.
LEMMA FailedAttempt ==
  ASSUME NEW call \in CallStates, call.try \in 1 .. MaxTries,
         NEW message \in Failures \cup {"invalid"}, AttemptFails(call, message),
         call.started <= RunsOf(call) * call.try,
         call.left > 0 => call.expired \/ (call.set.timer = "invalid" /\ message = "errorSaysTimeout"),
         call.set.legacy /\ ~call.unfit /\ ~(call.set.timer = "invalid" /\ message = "errorSaysTimeout")
           => call.started >= LeastRuns(call),
         message = "errorSaysTimeout" => \/ call.set.legacy \/ call.set.timer \in {"own", "invalid"}
                                         \/ call.unfit \/ call.set.outputs,
         message = "invalid" => call.unfit /\ ~call.set.named
  PROVE  CallInv'
<1>2. MaxTries \in Nat /\ call.try \in Nat /\ call.started \in Nat /\ call.left \in Nat
  BY AdaptersAssumption DEF CallStates
<1>3. message \in {"error", "errorSaysTimeout", "invalid"}
  BY DEF Failures
<1>4. ASSUME NEW at \in {"timeout", "failure", "threw"}, CallEnds(call, at),
             at = "threw" => call.set.timer = "invalid" /\ message = "errorSaysTimeout",
             at = "timeout" => message = "errorSaysTimeout" /\ call.set.timer # "invalid",
             at = "failure" => \/ message = "invalid"
                               \/ message = "error" /\ (call.try = MaxTries \/ call.set.policy)
      PROVE  CallInv'
  <2>1. stepCall' = AfterAttempt(call, at, call.try)
    BY <1>4 DEF CallEnds, CallStates, AfterAttempt
  <2>2. /\ stepCall' \in CallStates /\ stepCall'.at = at /\ stepCall'.try = call.try
        /\ stepCall'.set = call.set /\ stepCall'.started = call.started
        /\ stepCall'.left = call.left /\ stepCall'.expired = call.expired
        /\ stepCall'.unfit = call.unfit
        /\ RunsOf(stepCall') = RunsOf(call) /\ LeastRuns(stepCall') = LeastRuns(call)
    BY <2>1, AttemptOver
  <2>3. CallCounts(stepCall')
    BY <1>4, <2>2 DEF CallCounts
  <2>4. stepCall'.started <= RunsOf(stepCall') * stepCall'.try
    BY <2>2
  <2>5. CallSafe'
    BY <1>2, <1>4, <2>2, <2>4 DEF CallSafe, RunsOf, LeastRuns
  <2> QED
    BY <2>2, <2>3, <2>5 DEF CallInv
<1>5. CASE message = "errorSaysTimeout"
  <2>1. CallEnds(call, IF call.set.timer = "invalid" THEN "threw" ELSE "timeout")
    BY <1>5 DEF AttemptFails
  <2>2. CASE call.set.timer = "invalid"
    BY <1>4, <1>5, <2>1, <2>2
  <2>3. CASE call.set.timer # "invalid"
    BY <1>4, <1>5, <2>1, <2>3
  <2> QED
    BY <2>2, <2>3
<1>6. CASE /\ CallEnds(call, "failure")
           /\ message = "invalid" \/ (message = "error" /\ (call.try = MaxTries \/ call.set.policy))
  BY <1>4, <1>6
<1>7. CASE /\ message = "error" /\ call.try < MaxTries
           /\ stepCall' = [call EXCEPT !.at = "trying", !.try = @ + 1, !.second = FALSE]
  <2>1. stepCall' = AfterAttempt(call, "trying", call.try + 1) /\ call.try + 1 \in 1 .. MaxTries
    BY <1>2, <1>7 DEF CallStates, AfterAttempt
  <2>2. /\ stepCall' \in CallStates /\ stepCall'.at = "trying" /\ stepCall'.try = call.try + 1
        /\ stepCall'.set = call.set /\ stepCall'.started = call.started
        /\ stepCall'.left = call.left /\ stepCall'.expired = call.expired
        /\ stepCall'.unfit = call.unfit
        /\ RunsOf(stepCall') = RunsOf(call) /\ LeastRuns(stepCall') = LeastRuns(call)
    BY <2>1, AttemptOver
  <2>3. /\ RunsOf(stepCall') * (stepCall'.try - 1) = RunsOf(call) * call.try
        /\ stepCall'.started <= RunsOf(stepCall') * stepCall'.try
    BY <1>2, <2>2, CallArithmetic
  <2>4. CallCounts(stepCall')
    BY <1>2, <1>7, <2>1, <2>2, <2>3 DEF CallCounts
  <2>5. CallSafe'
    BY <1>2, <1>7, <2>2, <2>3 DEF CallSafe, RunsOf
  <2> QED
    BY <2>2, <2>4, <2>5 DEF CallInv
<1> QED
  BY <1>3, <1>5, <1>6, <1>7 DEF AttemptFails

\* The legacy adapter takes over from a driver.
LEMMA LegacyTakesOver ==
  ASSUME NEW call \in CallStates, call.try \in 1 .. MaxTries, call.set.legacy, call.set.timer # "invalid",
         stepCall' = WithLegacy(call),
         call.left > 0 => call.expired,
         call.started <= RunsOf(call) * (call.try - 1) + RunsOf(call) - 1,
         call.started >= RunsOf(call) - 1
  PROVE  CallInv'
<1>1. /\ stepCall' \in CallStates /\ stepCall'.at = "legacy" /\ stepCall'.try = call.try
      /\ stepCall'.set = call.set /\ stepCall'.started = call.started
      /\ stepCall'.left = call.left /\ stepCall'.expired = call.expired
      /\ RunsOf(stepCall') = RunsOf(call) /\ call.started \in Nat
  BY DEF CallStates, RunsOf, WithLegacy
<1>2. call.started <= RunsOf(call) * call.try
  BY <1>1, CallArithmetic
<1>3. CallCounts(stepCall')
  BY <1>1 DEF CallCounts
<1>4. CallSafe'
  BY <1>1, <1>2 DEF CallSafe, RunsOf
<1> QED
  BY <1>1, <1>3, <1>4 DEF CallInv

\* A driver that has failed leaves the action to the legacy adapter, or the attempt
\* has failed.
LEMMA FailedDriver ==
  ASSUME NEW call \in CallStates, call.try \in 1 .. MaxTries, call.set.timer # "invalid",
         NEW message \in Failures, DriverFails(call, message),
         message = "errorSaysTimeout" => call.set.timer = "own",
         call.left > 0 => call.expired,
         call.started <= RunsOf(call) * (call.try - 1) + (IF call.set.driver = "handles" THEN 1 ELSE 0),
         call.set.driver = "handles" => call.started >= 1
  PROVE  CallInv'
<1>1. call.started \in Nat
  BY DEF CallStates
<1>2. CASE call.set.legacy
  <2>1. stepCall' = WithLegacy(call)
    BY <1>2 DEF DriverFails, WithLegacy
  <2>2. RunsOf(call) = IF call.set.driver = "handles" THEN 2 ELSE 1
    BY <1>2 DEF RunsOf
  <2>3. /\ call.started <= RunsOf(call) * (call.try - 1) + RunsOf(call) - 1
        /\ call.started >= RunsOf(call) - 1
    BY <1>1, <2>2, CallArithmetic
  <2> QED
    BY <1>2, <2>1, <2>3, LegacyTakesOver
<1>3. CASE ~call.set.legacy
  <2>1. AttemptFails(call, message) /\ call.started <= RunsOf(call) * call.try
    BY <1>1, <1>3, CallArithmetic DEF DriverFails
  <2> QED
    BY <1>3, <2>1, FailedAttempt DEF Failures
<1> QED
  BY <1>2, <1>3

LEMMA CallSteps == CallInv /\ [CallNext]_stepCall => CallInv'
<1> SUFFICES ASSUME CallInv, [CallNext]_stepCall PROVE CallInv'
  OBVIOUS
<1>0. /\ stepCall \in CallStates /\ MaxTries \in Nat \ {0} /\ stepCall.set \in CallSettings
      /\ stepCall.started \in Nat /\ stepCall.left \in Nat /\ stepCall.try \in 0 .. MaxTries
      /\ CallCounts(stepCall) /\ stepCall.started <= RunsOf(stepCall) * stepCall.try
      /\ stepCall.left > 0 => stepCall.expired \/ stepCall.at \in {"success", "threw"}
  BY AdaptersAssumption DEF CallInv, CallStates, CallSafe, RunsOf
<1>1. CASE CallBegins
  <2>1. CASE Met(stepCall.set.when)
    <3>1. /\ stepCall' \in CallStates /\ stepCall'.at = "trying" /\ stepCall'.try = 1
          /\ stepCall'.set = stepCall.set /\ stepCall'.started = 0
          /\ stepCall'.left = 0 /\ RunsOf(stepCall') = RunsOf(stepCall)
          /\ 1 \in 1 .. MaxTries
      <4>1. stepCall' = [stepCall EXCEPT !.at = "trying", !.try = 1] /\ stepCall.at = "called"
        BY <1>1, <2>1 DEF CallBegins
      <4>2. 1 \in 1 .. MaxTries /\ 1 \in 0 .. MaxTries
        BY <1>0
      <4>3. stepCall.started = 0 /\ stepCall.left = 0
        BY <1>0, <4>1 DEF CallCounts
      <4> QED
        BY <1>0, <4>1, <4>2, <4>3 DEF CallStates, RunsOf
    <3>2. 0 <= RunsOf(stepCall') * stepCall'.try /\ RunsOf(stepCall') * (1 - 1) = 0
      BY <1>0, <3>1, CallArithmetic
    <3>3. CallCounts(stepCall')
      BY <3>1, <3>2 DEF CallCounts
    <3>4. CallSafe'
      BY <3>1, <3>2 DEF CallSafe, RunsOf
    <3> QED
      BY <3>1, <3>3, <3>4 DEF CallInv
  <2>2. CASE ~Met(stepCall.set.when)
    <3>1. /\ stepCall' \in CallStates /\ stepCall'.at = "skipped" /\ stepCall'.try = 0
          /\ stepCall'.set = stepCall.set /\ stepCall'.started = 0
          /\ stepCall'.left = 0 /\ RunsOf(stepCall') = RunsOf(stepCall)
      BY <1>0, <1>1, <2>2 DEF CallBegins, CallStates, RunsOf, Done, CallCounts
    <3>2. RunsOf(stepCall') * stepCall'.try = 0
      BY <1>0, <3>1, CallArithmetic
    <3>3. CallCounts(stepCall') /\ CallSafe'
      BY <2>2, <3>1, <3>2 DEF CallCounts, CallSafe, RunsOf
    <3> QED
      BY <3>1, <3>3 DEF CallInv
  <2> QED
    BY <2>1, <2>2
<1>2. CASE ValidationFails
  <2> DEFINE call == [stepCall EXCEPT !.unfit = TRUE]
  <2>1. stepCall.at = "trying" /\ stepCall.try \in 1 .. MaxTries
    BY <1>0, <1>2 DEF ValidationFails, CallCounts
  <2>2. PICK message \in {"errorSaysTimeout", IF stepCall.set.named THEN "error" ELSE "invalid"} :
          AttemptFails(call, message)
    BY <1>2 DEF ValidationFails
  <2>3. /\ call \in CallStates /\ call.try = stepCall.try /\ call.set = stepCall.set /\ call.unfit
        /\ call.started = stepCall.started /\ call.left = stepCall.left /\ call.expired = stepCall.expired
        /\ RunsOf(call) = RunsOf(stepCall)
    BY <1>0 DEF CallStates, RunsOf
  <2>4. message \in Failures \cup {"invalid"} /\ (message = "invalid" => ~stepCall.set.named)
    BY <2>2 DEF Failures
  <2> HIDE DEF call
  <2> QED
    BY <1>0, <2>1, <2>2, <2>3, <2>4, FailedAttempt
<1>3. CASE TryDriver
  <2>0. /\ stepCall.at = "trying" /\ stepCall.set.driver \in {"handles", "unable"}
        /\ stepCall.try \in 1 .. MaxTries /\ (stepCall.left > 0 => stepCall.expired)
        /\ stepCall.started <= RunsOf(stepCall) * (stepCall.try - 1)
    BY <1>0, <1>3 DEF TryDriver, CallSettings, CallCounts
  <2>1. CASE stepCall.set.timer = "invalid"
    <3>1. AttemptFails(stepCall, "errorSaysTimeout")
      BY <1>3, <2>1 DEF TryDriver
    <3> QED
      BY <1>0, <2>0, <2>1, <3>1, FailedAttempt DEF Failures
  <2>2. CASE stepCall.set.timer # "invalid" /\ stepCall.set.driver = "unable"
    <3>1. DriverFails(stepCall, "error")
      BY <1>3, <2>2 DEF TryDriver
    <3> QED
      BY <1>0, <2>0, <2>2, <3>1, FailedDriver, CallArithmetic DEF Failures
  <2>3. CASE stepCall.set.timer # "invalid" /\ stepCall.set.driver = "handles"
    <3>1. stepCall' = [stepCall EXCEPT !.at = "driver", !.started = @ + 1]
      BY <1>3, <2>3 DEF TryDriver
    <3>2. /\ stepCall' \in CallStates /\ stepCall'.at = "driver" /\ stepCall'.try = stepCall.try
          /\ stepCall'.set = stepCall.set /\ stepCall'.started = stepCall.started + 1
          /\ stepCall'.left = stepCall.left /\ stepCall'.expired = stepCall.expired
          /\ RunsOf(stepCall') = RunsOf(stepCall)
      <4>1. stepCall.started + 1 \in Nat
        BY <1>0
      <4> QED
        BY <1>0, <3>1, <4>1 DEF CallStates, RunsOf
    <3>3. stepCall.started + 1 <= RunsOf(stepCall) * stepCall.try
      BY <1>0, <2>0, CallArithmetic
    <3>4. CallCounts(stepCall')
      <4>1. /\ RunsOf(stepCall') * (stepCall'.try - 1) = RunsOf(stepCall) * (stepCall.try - 1)
            /\ RunsOf(stepCall) * (stepCall.try - 1) \in Int
        BY <1>0, <3>2, CallArithmetic
      <4>2. stepCall'.started <= RunsOf(stepCall') * (stepCall'.try - 1) + 1 /\ stepCall'.started >= 1
        BY <1>0, <2>0, <3>2, <4>1
      <4> QED
        BY <2>0, <2>3, <3>2, <4>2 DEF CallCounts
    <3>5. CallSafe'
      BY <1>0, <2>0, <3>2, <3>3 DEF CallSafe, RunsOf
    <3> QED
      BY <3>2, <3>4, <3>5 DEF CallInv
  <2> QED
    BY <2>0, <2>1, <2>2, <2>3
<1>4. CASE TryLegacy
  <2>0. /\ stepCall.at = "legacy" \/ (stepCall.at = "trying" /\ stepCall.set.driver = "none")
        /\ stepCall.try \in 1 .. MaxTries /\ (stepCall.left > 0 => stepCall.expired)
        /\ stepCall.started <= RunsOf(stepCall) * (stepCall.try - 1) + RunsOf(stepCall) - 1
        /\ stepCall.started >= RunsOf(stepCall) - 1
    <3>1. stepCall.at = "legacy" \/ (stepCall.at = "trying" /\ stepCall.set.driver = "none")
      BY <1>4 DEF TryLegacy
    <3> QED
      BY <1>0, <3>1, CallArithmetic DEF CallCounts, RunsOf
  <2>1. CASE ~stepCall.set.legacy
    <3>1. AttemptFails(stepCall, "error")
      BY <1>4, <2>1 DEF TryLegacy
    <3> QED
      BY <1>0, <2>0, <2>1, <3>1, FailedAttempt DEF Failures
  <2>2. CASE stepCall.set.legacy /\ stepCall.set.timer = "invalid"
    <3> DEFINE call == [stepCall EXCEPT !.started = @ + 1, !.left = @ + 1]
    <3>1. AttemptFails(call, "errorSaysTimeout")
      BY <1>4, <2>2 DEF TryLegacy
    <3>2. stepCall.started + 1 \in Nat /\ stepCall.left + 1 \in Nat
      BY <1>0
    <3>3. /\ call \in CallStates /\ call.try = stepCall.try /\ call.set = stepCall.set
          /\ call.started = stepCall.started + 1 /\ RunsOf(call) = RunsOf(stepCall)
      BY <1>0, <3>2 DEF CallStates, RunsOf
    <3>4. stepCall.started + 1 <= RunsOf(stepCall) * stepCall.try
      BY <1>0, <2>0, CallArithmetic
    <3> HIDE DEF call
    <3> QED
      BY <2>0, <2>2, <3>1, <3>3, <3>4, FailedAttempt DEF Failures
  <2>3. CASE stepCall.set.legacy /\ stepCall.set.timer # "invalid"
    <3>1. stepCall' = [stepCall EXCEPT !.at = "legacyRuns", !.started = @ + 1]
      BY <1>4, <2>3 DEF TryLegacy
    <3>2. /\ stepCall' \in CallStates /\ stepCall'.at = "legacyRuns" /\ stepCall'.try = stepCall.try
          /\ stepCall'.set = stepCall.set /\ stepCall'.started = stepCall.started + 1
          /\ stepCall'.left = stepCall.left /\ stepCall'.expired = stepCall.expired
          /\ RunsOf(stepCall') = RunsOf(stepCall)
      <4>1. stepCall.started + 1 \in Nat
        BY <1>0
      <4> QED
        BY <1>0, <3>1, <4>1 DEF CallStates, RunsOf
    <3>3. stepCall.started + 1 <= RunsOf(stepCall) * stepCall.try /\ stepCall.started + 1 >= RunsOf(stepCall)
      BY <1>0, <2>0, CallArithmetic
    <3>4. CallCounts(stepCall')
      BY <2>0, <2>3, <3>2, <3>3 DEF CallCounts
    <3>5. CallSafe'
      BY <1>0, <2>0, <3>2, <3>3 DEF CallSafe, RunsOf
    <3> QED
      BY <3>2, <3>4, <3>5 DEF CallInv
  <2> QED
    BY <2>1, <2>2, <2>3
<1>5. ASSUME stepCall.at \in {"driver", "legacyRuns"}
      PROVE  /\ stepCall.try \in 1 .. MaxTries /\ (stepCall.left > 0 => stepCall.expired)
             /\ stepCall.set.timer # "invalid"
             /\ stepCall.at = "driver" => /\ stepCall.set.driver = "handles" /\ stepCall.started >= 1
                                          /\ stepCall.started <= RunsOf(stepCall) * (stepCall.try - 1) + 1
             /\ stepCall.at = "legacyRuns" => stepCall.set.legacy /\ stepCall.started >= LeastRuns(stepCall)
  BY <1>0, <1>5 DEF CallCounts, RunsOf, LeastRuns
<1>6. CASE ExecutionEnds
  <2>1. ASSUME stepCall.at \in {"driver", "legacyRuns"},
               stepCall' = [stepCall EXCEPT !.at = "success", !.resolved = TRUE, !.expired = FALSE]
        PROVE  CallInv'
    <3>1. /\ stepCall' \in CallStates /\ stepCall'.at = "success" /\ stepCall'.try = stepCall.try
          /\ stepCall'.set = stepCall.set /\ stepCall'.started = stepCall.started
          /\ stepCall'.left = stepCall.left /\ stepCall'.resolved /\ RunsOf(stepCall') = RunsOf(stepCall)
      BY <1>0, <2>1 DEF CallStates, Done, RunsOf
    <3>2. CallCounts(stepCall') /\ CallSafe'
      BY <1>0, <1>5, <2>1, <3>1 DEF CallCounts, CallSafe, RunsOf
    <3> QED
      BY <3>1, <3>2 DEF CallInv
  <2>2. CASE stepCall.at = "driver" /\ DriverFails(stepCall, "error")
    BY <1>0, <1>5, <2>2, FailedDriver DEF Failures
  <2>3. ASSUME stepCall.at = "legacyRuns", NEW message \in Failures, AttemptFails(stepCall, message)
        PROVE  CallInv'
    BY <1>0, <1>5, <2>3, FailedAttempt DEF Failures
  <2> QED
    BY <1>6, <2>1, <2>2, <2>3 DEF ExecutionEnds
<1>7. CASE MappingFails
  <2>1. /\ stepCall.at \in {"driver", "legacyRuns"} /\ stepCall.set.outputs
        /\ \E message \in Failures : AttemptFails(stepCall, message)
    BY <1>7 DEF MappingFails
  <2>2. stepCall.set.legacy => stepCall.started >= LeastRuns(stepCall)
    BY <1>5, <2>1 DEF LeastRuns
  <2> QED
    BY <1>0, <1>5, <2>1, <2>2, FailedAttempt DEF Failures
<1>8. CASE ExecutionTimesOut
  <2> DEFINE message == IF stepCall.set.timer = "own" THEN "errorSaysTimeout" ELSE "error"
             later == [stepCall EXCEPT !.left = @ + 1, !.expired = TRUE]
  <2>1. /\ stepCall.at \in {"driver", "legacyRuns"}
        /\ IF stepCall.at = "driver" THEN DriverFails(later, message) ELSE AttemptFails(later, message)
    BY <1>8 DEF ExecutionTimesOut
  <2>2. stepCall.left + 1 \in Nat
    BY <1>0
  <2>3. /\ later \in CallStates /\ later.try = stepCall.try /\ later.set = stepCall.set /\ later.expired
        /\ later.started = stepCall.started /\ later.unfit = stepCall.unfit
        /\ RunsOf(later) = RunsOf(stepCall) /\ LeastRuns(later) = LeastRuns(stepCall)
    BY <1>0, <2>2 DEF CallStates, RunsOf, LeastRuns
  <2>4. message \in Failures /\ message # "invalid" /\ (message = "errorSaysTimeout" => stepCall.set.timer = "own")
    BY DEF Failures
  <2> HIDE DEF later, message
  <2>5. CASE stepCall.at = "driver"
    BY <1>5, <2>1, <2>3, <2>4, <2>5, FailedDriver
  <2>6. CASE stepCall.at = "legacyRuns"
    BY <1>0, <1>5, <2>1, <2>3, <2>4, <2>6, FailedAttempt
  <2> QED
    BY <2>1, <2>5, <2>6
<1>9. CASE LeftEnds
  <2>1. /\ stepCall' \in CallStates /\ stepCall'.at = stepCall.at /\ stepCall'.try = stepCall.try
        /\ stepCall'.set = stepCall.set /\ stepCall'.started = stepCall.started
        /\ stepCall'.left = stepCall.left - 1 /\ stepCall.left > 0 /\ stepCall'.expired = stepCall.expired
        /\ stepCall'.resolved = stepCall.resolved /\ stepCall'.unfit = stepCall.unfit
        /\ RunsOf(stepCall') = RunsOf(stepCall) /\ LeastRuns(stepCall') = LeastRuns(stepCall)
    <3>1. stepCall' = [stepCall EXCEPT !.left = stepCall.left - 1] /\ stepCall.left > 0
      BY <1>0, <1>9 DEF LeftEnds, CallStates
    <3>2. stepCall.left - 1 \in Nat
      BY <1>0, <3>1
    <3> QED
      BY <1>0, <3>1, <3>2 DEF CallStates, RunsOf, LeastRuns
  <2>2. CallCounts(stepCall')
    BY <1>0, <2>1 DEF CallCounts
  <2>3. CallSafe'
    BY <1>0, <2>1 DEF CallInv, CallSafe
  <2> QED
    BY <2>1, <2>2, <2>3 DEF CallInv
<1>10. CASE UNCHANGED stepCall
  BY <1>10 DEF CallInv, CallCounts, CallSafe, RunsOf, LeastRuns
<1> QED
  BY <1>1, <1>2, <1>3, <1>4, <1>6, <1>7, <1>8, <1>9, <1>10 DEF CallNext

\* An attempt runs the action of a step at most twice, and twice only when a
\* legacy adapter stands behind a driver.  A step that fails before its last
\* attempt does so by a policy, or by an input that was refused and not wrapped;
\* one that fails or times out has asked the legacy adapter there is, unless its
\* input or its outputs were to blame; and it succeeds only when an execution
\* ended well: whatever timers run out, for any number of attempts
\* (StepExecutor.execute).
THEOREM CallsAreSafe == CallSpec => []CallSafe
<1>1. CallInv => CallSafe
  BY DEF CallInv
<1> QED
  BY CallStarts, CallSteps, <1>1, PTL DEF CallSpec

-----------------------------------------------------------------------------
(***************************************************************************)
(* ExecutionStates: a machine and its entry in the record move together.   *)
(* What the record says of the end rests on three things the properties do *)
(* not say: what runs has a start, what ended without one is over for good *)
(* and only a step that failed leaves a state the record calls terminal.   *)
(***************************************************************************)
StateNames == DOMAIN StepTransitions \cup DOMAIN FlowTransitions

MachineType == [state : StateNames, history : Seq([from : StateNames, to : StateNames]), lost : Nat]
EntryType == [status : StateNames, start : Nat, end : Nat, duration : Int, error : BOOLEAN]

StatesTyped ==
  /\ machine \in [Machines -> MachineType]
  /\ book \in [entries : [Machines -> EntryType], counts : [completed : Nat, failed : Nat, skipped : Nat]]
  /\ instant \in Nat \ {0}

\* HistoryIsPath for machine a of m.
StateAt(m, h, i) == IF i = 0 THEN InitialOf(m) ELSE h[i].to
PathOf(m, a) ==
  /\ a.state \in DOMAIN TransitionsOf(m)
  /\ a.state = StateAt(m, a.history, Len(a.history))
  /\ \A i \in 1 .. Len(a.history) :
       /\ a.history[i].from = StateAt(m, a.history, i - 1)
       /\ a.history[i].to \in TransitionsOf(m)[a.history[i].from]
       /\ a.history[i].from \notin TerminalOf(m)

\* Entry e of machine a of m at time n, and what it says while no reset has
\* come between them.
Followed(m, a, e) ==
  /\ a.state = e.status
  /\ e.status = "running" => e.start # 0
  /\ e.end # 0 /\ e.start # 0 => e.end >= e.start /\ e.duration = e.end - e.start
  /\ e.end # 0 /\ e.start = 0 => e.status \in TerminalOf(m)
  /\ e.end # 0 /\ e.status \notin RecordedTerminal(m) => m # Flow /\ e.error

EntryOf(m, a, e, n) ==
  /\ e.start <= n /\ e.end <= n
  /\ e.status \in DOMAIN TransitionsOf(m)
  /\ e.status \in RecordedTerminal(m) => e.end # 0
  /\ e.status = "failed" => e.error
  /\ a.lost = 0 => Followed(m, a, e)

StatesInv ==
  /\ StatesTyped
  /\ \A m \in Machines : PathOf(m, machine[m]) /\ EntryOf(m, machine[m], book.entries[m], instant)
  /\ book.counts = CountsOf(book.entries)

-----------------------------------------------------------------------------
\* The tables: where a transition may lead.
LEMMA StepTable ==
  /\ DOMAIN StepTransitions = {"pending", "running", "failed", "retrying",
                               "skipped", "success", "timeout", "cancelled"}
  /\ StepTransitions["pending"] = {"running", "skipped", "cancelled"}
  /\ StepTransitions["running"] = {"success", "failed", "timeout", "cancelled"}
  /\ StepTransitions["failed"] = {"retrying", "cancelled"}
  /\ StepTransitions["retrying"] = {"running", "cancelled"}
  /\ \A t \in StepTerminal : StepTransitions[t] = {}
  BY DEF StepTransitions, StepTerminal

LEMMA FlowTable ==
  /\ DOMAIN FlowTransitions = {"queued", "running", "paused", "completed",
                               "failed", "partial", "timeout", "cancelled"}
  /\ FlowTransitions["queued"] = {"running", "cancelled"}
  /\ FlowTransitions["running"] = {"completed", "failed", "partial", "timeout", "cancelled", "paused"}
  /\ FlowTransitions["paused"] = {"running", "cancelled"}
  /\ \A t \in FlowTerminal : FlowTransitions[t] = {}
  BY DEF FlowTransitions, FlowTerminal

LEMMA TablesAreClosed == TablesClosed
<1> SUFFICES ASSUME NEW m \in Machines, NEW s \in DOMAIN TransitionsOf(m)
             PROVE  /\ TransitionsOf(m)[s] = {} <=> s \in TerminalOf(m)
                    /\ TransitionsOf(m)[s] # {} => TransitionsOf(m)[s] \cap TerminalOf(m) # {}
  BY DEF TablesClosed
<1>1. CASE m = Flow
  <2>1. s \in DOMAIN FlowTransitions /\ TransitionsOf(m) = FlowTransitions /\ TerminalOf(m) = FlowTerminal
    BY <1>1 DEF TransitionsOf, TerminalOf
  <2>2. CASE s \in FlowTerminal
    BY <2>1, <2>2, FlowTable
  <2>3. CASE s \in {"queued", "running", "paused"}
    <3>1. "cancelled" \in FlowTransitions[s] /\ "cancelled" \in FlowTerminal /\ s \notin FlowTerminal
      BY <2>3, FlowTable DEF FlowTerminal
    <3> QED
      BY <2>1, <3>1
  <2> QED
    BY <2>1, <2>2, <2>3, FlowTable DEF FlowTerminal
<1>2. CASE m # Flow
  <2>1. s \in DOMAIN StepTransitions /\ TransitionsOf(m) = StepTransitions /\ TerminalOf(m) = StepTerminal
    BY <1>2 DEF TransitionsOf, TerminalOf
  <2>2. CASE s \in StepTerminal
    BY <2>1, <2>2, StepTable
  <2>3. CASE s \in {"pending", "running", "failed", "retrying"}
    <3>1. "cancelled" \in StepTransitions[s] /\ "cancelled" \in StepTerminal /\ s \notin StepTerminal
      BY <2>3, StepTable DEF StepTerminal
    <3> QED
      BY <2>1, <3>1
  <2> QED
    BY <2>1, <2>2, <2>3, StepTable DEF StepTerminal
<1> QED
  BY <1>1, <1>2

\* What a move from one state to another says of both.
LEMMA MovesStayInTheTable ==
  ASSUME NEW m \in Machines, NEW s \in DOMAIN TransitionsOf(m), NEW t \in TransitionsOf(m)[s]
  PROVE  /\ t \in DOMAIN TransitionsOf(m)
         /\ s \notin TerminalOf(m)
         /\ s \in RecordedTerminal(m) => m # Flow /\ s = "failed"
         /\ t \in RecordedTerminal(m) \ TerminalOf(m) => s = "running"
         /\ t = "running" => t \notin RecordedTerminal(m)
<1>1. CASE m = Flow
  <2>1. s \in DOMAIN FlowTransitions /\ t \in FlowTransitions[s]
    BY <1>1 DEF TransitionsOf
  <2>2. s \in {"queued", "running", "paused"}
    BY <2>1, FlowTable DEF FlowTerminal
  <2> QED
    BY <1>1, <2>1, <2>2, FlowTable DEF TransitionsOf, TerminalOf, RecordedTerminal, FlowTerminal
<1>2. CASE m # Flow
  <2>1. s \in DOMAIN StepTransitions /\ t \in StepTransitions[s]
    BY <1>2 DEF TransitionsOf
  <2>2. s \in {"pending", "running", "failed", "retrying"}
    BY <2>1, StepTable DEF StepTerminal
  <2> QED
    BY <1>2, <2>1, <2>2, StepTable DEF TransitionsOf, TerminalOf, RecordedTerminal, StepTerminal
<1> QED
  BY <1>1, <1>2

LEMMA TablesAreNamed ==
  ASSUME NEW m \in Machines
  PROVE  DOMAIN TransitionsOf(m) \subseteq StateNames /\ InitialOf(m) \in DOMAIN TransitionsOf(m)
  BY StepTable, FlowTable DEF TransitionsOf, StateNames, InitialOf

-----------------------------------------------------------------------------
\* One move of a machine and of its entry.
MovedOf(a, to) == [state |-> to, history |-> Append(a.history, [from |-> a.state, to |-> to]), lost |-> a.lost]

LEMMA MovedKeeps ==
  ASSUME NEW m \in Machines, NEW a \in MachineType, PathOf(m, a), NEW to \in TransitionsOf(m)[a.state]
  PROVE  /\ MovedOf(a, to) \in MachineType /\ PathOf(m, MovedOf(a, to))
         /\ MovedOf(a, to).state = to /\ MovedOf(a, to).lost = a.lost
<1> DEFINE b == MovedOf(a, to)  h == a.history  k == [from |-> a.state, to |-> to]
<1>1. h \in Seq([from : StateNames, to : StateNames]) /\ a.state \in StateNames /\ Len(h) \in Nat
  BY DEF MachineType
<1>2. to \in DOMAIN TransitionsOf(m) /\ a.state \notin TerminalOf(m) /\ to \in StateNames
  BY MovesStayInTheTable, TablesAreNamed DEF PathOf
<1>3. k \in [from : StateNames, to : StateNames]
  BY <1>1, <1>2
<1>4. /\ Append(h, k) \in Seq([from : StateNames, to : StateNames])
      /\ Len(Append(h, k)) = Len(h) + 1
      /\ Append(h, k)[Len(h) + 1] = k
      /\ \A i \in 1 .. Len(h) : Append(h, k)[i] = h[i]
  BY <1>1, <1>3
<1>5. b = [state |-> to, history |-> Append(h, k), lost |-> a.lost]
  BY DEF MovedOf
<1>6. b \in MachineType /\ b.state = to /\ b.lost = a.lost /\ b.history = Append(h, k)
  BY <1>2, <1>4, <1>5 DEF MachineType
<1>7. StateAt(m, b.history, Len(b.history)) = to
  BY <1>1, <1>4, <1>6 DEF StateAt
<1>8. ASSUME NEW i \in 1 .. Len(h) + 1
      PROVE  /\ b.history[i].from = StateAt(m, b.history, i - 1)
             /\ b.history[i].to \in TransitionsOf(m)[b.history[i].from]
             /\ b.history[i].from \notin TerminalOf(m)
  <2>1. StateAt(m, b.history, i - 1) = StateAt(m, h, i - 1)
    BY <1>1, <1>4, <1>6 DEF StateAt
  <2>2. CASE i = Len(h) + 1
    BY <1>1, <1>2, <1>4, <1>6, <2>1, <2>2 DEF PathOf
  <2>3. CASE i # Len(h) + 1
    BY <1>1, <1>4, <1>6, <2>1, <2>3 DEF PathOf
  <2> QED
    BY <2>2, <2>3
<1> QED
  BY <1>2, <1>4, <1>6, <1>7, <1>8 DEF PathOf

LEMMA EntryMoves ==
  ASSUME NEW m \in Machines, NEW a \in MachineType, NEW e \in EntryType, PathOf(m, a),
         EntryOf(m, a, e, instant), instant \in Nat \ {0}, NEW to \in TransitionsOf(m)[a.state]
  PROVE  UpdatedEntry(m, e, to) \in EntryType /\ EntryOf(m, MovedOf(a, to), UpdatedEntry(m, e, to), instant)
<1> DEFINE f == UpdatedEntry(m, e, to)  b == MovedOf(a, to)
           starts == IF to = "running" /\ e.start = 0 THEN instant ELSE e.start
           ends == to \in RecordedTerminal(m) /\ e.end = 0
<1>1. /\ e.status \in StateNames /\ e.start \in Nat /\ e.end \in Nat /\ e.duration \in Int /\ e.error \in BOOLEAN
      /\ a.state \in DOMAIN TransitionsOf(m) /\ starts \in Nat /\ starts <= instant
  BY DEF EntryType, PathOf, EntryOf
<1>2. /\ f.status = to /\ f.start = starts /\ f.end = (IF ends THEN instant ELSE e.end)
      /\ f.duration = (IF ends /\ starts # 0 THEN instant - starts ELSE e.duration)
      /\ f.error = (e.error \/ to \in {"failed", "timeout"})
      /\ f = [status |-> f.status, start |-> f.start, end |-> f.end, duration |-> f.duration, error |-> f.error]
  BY DEF UpdatedEntry
<1>3. /\ to \in DOMAIN TransitionsOf(m) /\ to \in StateNames
      /\ a.state \notin TerminalOf(m)
      /\ a.state \in RecordedTerminal(m) => m # Flow /\ a.state = "failed"
      /\ to \in RecordedTerminal(m) \ TerminalOf(m) => a.state = "running"
      /\ to = "running" => to \notin RecordedTerminal(m)
  BY <1>1, MovesStayInTheTable, TablesAreNamed
<1>4. b.state = to /\ b.lost = a.lost
  BY MovedKeeps
<1>5. /\ f.status \in StateNames /\ f.start \in Nat /\ f.end \in Nat /\ f.duration \in Int /\ f.error \in BOOLEAN
      /\ f.start <= instant /\ f.end <= instant
  BY <1>1, <1>2, <1>3 DEF EntryOf
<1>6. f \in EntryType
  BY <1>2, <1>5 DEF EntryType
<1>7. (to \in RecordedTerminal(m) => f.end # 0) /\ (to = "failed" => f.error)
  BY <1>2
<1>8. ASSUME a.lost = 0
      PROVE  Followed(m, b, f)
  <2> DEFINE over == to \in RecordedTerminal(m)
             done == to \in TerminalOf(m)
  <2>1. /\ a.state = e.status
        /\ e.status = "running" => e.start # 0
        /\ e.end # 0 => e.start # 0
        /\ e.end # 0 => e.end >= e.start /\ e.duration = e.end - e.start
        /\ e.end # 0 /\ e.status \notin RecordedTerminal(m) => m # Flow /\ e.error
        /\ e.status = "failed" => e.error
    BY <1>3, <1>8 DEF EntryOf, Followed
  <2>2. to = "running" => f.start # 0
    BY <1>2
  <2>3. f.end # 0 /\ f.start # 0 => f.end >= f.start /\ f.duration = f.end - f.start
    <3>1. CASE ends
      BY <1>1, <1>2, <3>1
    <3>2. CASE ~ends
      BY <1>1, <1>2, <2>1, <3>2
    <3> QED
      BY <3>1, <3>2
  <2>4. f.end # 0 /\ f.start = 0 => to \in TerminalOf(m)
    <3>1. ASSUME f.end # 0, f.start = 0 PROVE over /\ a.state # "running"
      BY <1>1, <1>2, <2>1, <3>1
    <3> QED
      BY <1>3, <3>1
  <2>5. ASSUME f.end # 0, to \notin RecordedTerminal(m) PROVE m # Flow /\ f.error
    <3>1. e.end # 0
      BY <1>2, <2>5
    <3>2. m # Flow /\ e.error
      BY <1>3, <2>1, <3>1
    <3> QED
      BY <1>2, <3>2
  <2> QED
    BY <1>2, <1>4, <2>2, <2>3, <2>4, <2>5 DEF Followed
<1> QED
  BY <1>2, <1>3, <1>4, <1>5, <1>6, <1>7, <1>8 DEF EntryOf

-----------------------------------------------------------------------------
LEMMA InitStatesInv == StatesInit => StatesInv
<1> SUFFICES ASSUME StatesInit PROVE StatesInv
  OBVIOUS
<1>1. ASSUME NEW m \in Machines
      PROVE  /\ [state |-> InitialOf(m), history |-> <<>>, lost |-> 0] \in MachineType
             /\ FreshEntry(m) \in EntryType
             /\ PathOf(m, [state |-> InitialOf(m), history |-> <<>>, lost |-> 0])
             /\ EntryOf(m, [state |-> InitialOf(m), history |-> <<>>, lost |-> 0], FreshEntry(m), 1)
  <2>1. InitialOf(m) \in DOMAIN TransitionsOf(m) /\ InitialOf(m) \in StateNames
    BY TablesAreNamed
  <2>2. InitialOf(m) \notin RecordedTerminal(m) /\ InitialOf(m) # "failed" /\ InitialOf(m) # "running"
    BY DEF InitialOf, RecordedTerminal, FlowTerminal, StepTerminal
  <2>3. <<>> \in Seq([from : StateNames, to : StateNames])
    OBVIOUS
  <2> QED
    BY <2>1, <2>2, <2>3 DEF MachineType, EntryType, FreshEntry, PathOf, EntryOf, Followed, StateAt
<1>2. machine \in [Machines -> MachineType]
  BY <1>1 DEF StatesInit
<1>3. [m \in Machines |-> FreshEntry(m)] \in [Machines -> EntryType]
  BY <1>1
<1>4. NoCounts \in [completed : Nat, failed : Nat, skipped : Nat]
  BY DEF NoCounts
<1>5. StatesTyped
  BY <1>2, <1>3, <1>4 DEF StatesInit, StatesTyped
<1>6. \A s \in StateStep : book.entries[s].status = "pending"
  <2>1. ASSUME NEW s \in StateStep PROVE book.entries[s].status = "pending"
    <3>1. s \in Machines /\ s # Flow
      BY StatesAssumption DEF Machines, Flow
    <3> QED
      BY <3>1 DEF StatesInit, FreshEntry, InitialOf
  <2> QED
    BY <2>1
<1>7. /\ StepsIn(book.entries, {"success"}) = {} /\ StepsIn(book.entries, {"skipped"}) = {}
      /\ StepsIn(book.entries, {"failed", "timeout"}) = {}
  BY <1>6 DEF StepsIn
<1>8. book.counts = CountsOf(book.entries)
  BY <1>7, FS_EmptySet DEF CountsOf, StatesInit, NoCounts
<1> QED
  BY <1>1, <1>5, <1>8 DEF StatesInv, StatesInit

LEMMA StepsAreFinite ==
  ASSUME NEW entries, NEW names
  PROVE  IsFiniteSet(StepsIn(entries, names)) /\ Cardinality(StepsIn(entries, names)) \in Nat
<1>1. StepsIn(entries, names) \subseteq StateStep /\ IsFiniteSet(StateStep)
  BY StatesAssumption DEF StepsIn
<1> QED
  BY <1>1, FS_Subset, FS_CardinalityType

LEMMA TransitsKeeps ==
  ASSUME StatesInv, NEW m \in Machines, NEW to, Transits(m, to)
  PROVE  StatesInv'
<1> DEFINE a == machine[m]  e == book.entries[m]
<1>0. /\ machine \in [Machines -> MachineType] /\ instant \in Nat \ {0}
      /\ book \in [entries : [Machines -> EntryType], counts : [completed : Nat, failed : Nat, skipped : Nat]]
      /\ book.entries \in [Machines -> EntryType] /\ a \in MachineType /\ e \in EntryType
      /\ PathOf(m, a) /\ EntryOf(m, a, e, instant)
  BY DEF StatesInv, StatesTyped
<1>1. to \in TransitionsOf(m)[a.state] /\ instant' = instant
  BY DEF Transits, Transition, CanTransition
<1>2. machine' = [machine EXCEPT ![m] = MovedOf(a, to)]
  <2> DEFINE k == [from |-> a.state, to |-> to]
             c == [a EXCEPT !.state = to, !.history = Append(a.history, k)]
  <2>1. k \in [from : StateNames, to : StateNames] /\ to \in StateNames
    BY <1>0, <1>1, MovesStayInTheTable, TablesAreNamed DEF PathOf, MachineType
  <2>2. Append(a.history, k) \in Seq([from : StateNames, to : StateNames])
    BY <1>0, <2>1 DEF MachineType
  <2> HIDE DEF k
  <2>3. c \in MachineType
    BY <1>0, <2>1, <2>2 DEF MachineType
  <2>4. c.state = to /\ c.history = Append(a.history, k) /\ c.lost = a.lost
    BY <1>0 DEF MachineType
  <2> HIDE DEF c
  <2>5. c = [state |-> c.state, history |-> c.history, lost |-> c.lost]
    BY <2>3 DEF MachineType
  <2>6. machine' = [machine EXCEPT ![m] = c]
    BY DEF Transits, Transition, k, c
  <2>7. c = MovedOf(a, to)
    BY <2>4, <2>5 DEF MovedOf, k
  <2> QED
    BY <2>6, <2>7
<1>3. /\ book'.entries = [book.entries EXCEPT ![m] = UpdatedEntry(m, e, to)]
      /\ book'.counts = (IF m = Flow THEN book.counts ELSE CountsOf(book'.entries))
      /\ book' = [entries |-> book'.entries, counts |-> book'.counts]
  BY DEF Transits
<1>4. MovedOf(a, to) \in MachineType /\ PathOf(m, MovedOf(a, to))
  BY <1>0, <1>1, MovedKeeps
<1>5. UpdatedEntry(m, e, to) \in EntryType /\ EntryOf(m, MovedOf(a, to), UpdatedEntry(m, e, to), instant)
  BY <1>0, <1>1, EntryMoves
<1>6. machine' \in [Machines -> MachineType] /\ book'.entries \in [Machines -> EntryType]
  BY <1>0, <1>2, <1>3, <1>4, <1>5
<1>7. CountsOf(book'.entries) \in [completed : Nat, failed : Nat, skipped : Nat]
  BY StepsAreFinite DEF CountsOf
<1>8. book' \in [entries : [Machines -> EntryType], counts : [completed : Nat, failed : Nat, skipped : Nat]]
  <2>1. book.counts \in [completed : Nat, failed : Nat, skipped : Nat]
    BY <1>0
  <2> QED
    BY <1>3, <1>6, <1>7, <2>1
<1>9. ASSUME NEW o \in Machines
      PROVE  PathOf(o, machine'[o]) /\ EntryOf(o, machine'[o], book'.entries[o], instant')
  <2>1. CASE o = m
    BY <1>0, <1>1, <1>2, <1>3, <1>4, <1>5, <2>1
  <2>2. CASE o # m
    <3>1. machine'[o] = machine[o] /\ book'.entries[o] = book.entries[o]
      BY <1>0, <1>2, <1>3, <2>2
    <3> QED
      BY <1>1, <3>1 DEF StatesInv
  <2> QED
    BY <2>1, <2>2
<1>10. book'.counts = CountsOf(book'.entries)
  <2>1. CASE m # Flow
    BY <1>3, <2>1
  <2>2. CASE m = Flow
    <3>1. \A s \in StateStep : book'.entries[s] = book.entries[s]
      BY <1>0, <1>3, <2>2, StatesAssumption DEF Machines, Flow
    <3>2. \A names : StepsIn(book'.entries, names) = StepsIn(book.entries, names)
      BY <3>1 DEF StepsIn
    <3>3. CountsOf(book'.entries) = CountsOf(book.entries)
      BY <3>2 DEF CountsOf
    <3> QED
      BY <1>3, <2>2, <3>3 DEF StatesInv
  <2> QED
    BY <2>1, <2>2
<1>11. StatesTyped'
  BY <1>0, <1>1, <1>6, <1>8 DEF StatesTyped
<1> QED
  BY <1>9, <1>10, <1>11 DEF StatesInv

LEMMA ResetKeeps == ASSUME StatesInv, MachineResets PROVE StatesInv'
<1>1. PICK s \in StateStep :
        /\ machine[s].history # <<>>
        /\ machine' = [machine EXCEPT ![s] = [state |-> "pending", history |-> <<>>, lost |-> Len(machine[s].history)]]
        /\ UNCHANGED <<book, instant>>
  BY DEF MachineResets
<1> DEFINE b == [state |-> "pending", history |-> <<>>, lost |-> Len(machine[s].history)]
<1>2. s \in Machines /\ s # Flow
  BY StatesAssumption DEF Machines, Flow
<1>3. machine \in [Machines -> MachineType] /\ machine[s].history \in Seq([from : StateNames, to : StateNames])
  BY <1>2 DEF StatesInv, StatesTyped, MachineType
<1>4. Len(machine[s].history) \in Nat \ {0}
  BY <1>1, <1>3
<1>5. "pending" \in DOMAIN TransitionsOf(s) /\ InitialOf(s) = "pending" /\ "pending" \in StateNames
  BY <1>2, TablesAreNamed DEF InitialOf
<1>6. b \in MachineType
  BY <1>4, <1>5 DEF MachineType
<1>7. PathOf(s, b)
  BY <1>5 DEF PathOf, StateAt
<1>8. machine' \in [Machines -> MachineType]
  BY <1>1, <1>3, <1>6
<1>9. ASSUME NEW m \in Machines
      PROVE  PathOf(m, machine'[m]) /\ EntryOf(m, machine'[m], book.entries[m], instant)
  <2>1. CASE m = s
    <3>1. machine'[m] = b /\ b.lost # 0
      BY <1>1, <1>3, <1>4, <2>1
    <3> QED
      BY <1>7, <2>1, <3>1 DEF StatesInv, EntryOf
  <2>2. CASE m # s
    BY <1>1, <1>3, <2>2 DEF StatesInv
  <2> QED
    BY <2>1, <2>2
<1>10. StatesTyped'
  BY <1>1, <1>8 DEF StatesInv, StatesTyped
<1> QED
  BY <1>1, <1>9, <1>10 DEF StatesInv

LEMMA InstantKeeps == ASSUME StatesInv, InstantPasses PROVE StatesInv'
<1>1. instant' = instant + 1 /\ machine' = machine /\ book' = book /\ instant \in Nat \ {0}
  BY DEF InstantPasses, StatesInv, StatesTyped
<1>2. StatesTyped'
  BY <1>1 DEF StatesInv, StatesTyped
<1>3. ASSUME NEW m \in Machines
      PROVE  EntryOf(m, machine[m], book.entries[m], instant + 1)
  <2>1. EntryOf(m, machine[m], book.entries[m], instant) /\ book.entries[m] \in EntryType
    BY DEF StatesInv, StatesTyped
  <2>2. book.entries[m].start \in Nat /\ book.entries[m].end \in Nat
    BY <2>1 DEF EntryType
  <2> QED
    BY <1>1, <2>1, <2>2 DEF EntryOf
<1> QED
  BY <1>1, <1>2, <1>3 DEF StatesInv

LEMMA StatesStep == StatesInv /\ [StatesNext]_stateVars => StatesInv'
<1> SUFFICES ASSUME StatesInv, [StatesNext]_stateVars PROVE StatesInv'
  OBVIOUS
<1>1. CASE StepMoves
  <2>1. PICK s \in StateStep : \E to \in DOMAIN StepTransitions : Transits(s, to)
    BY <1>1 DEF StepMoves
  <2> QED
    BY <2>1, TransitsKeeps DEF Machines
<1>2. CASE FlowMoves
  <2>1. PICK to \in DOMAIN FlowTransitions : Transits(Flow, to)
    BY <1>2 DEF FlowMoves
  <2> QED
    BY <2>1, TransitsKeeps DEF Machines
<1>3. CASE MachineResets
  BY <1>3, ResetKeeps
<1>4. CASE InstantPasses
  BY <1>4, InstantKeeps
<1>5. CASE UNCHANGED stateVars
  BY <1>5 DEF stateVars, StatesInv, StatesTyped
<1> QED
  BY <1>1, <1>2, <1>3, <1>4, <1>5 DEF StatesNext

\* The steps that are counted are different ones, and all have ended.
LEMMA CountedOnce == StatesInv => CountsAreTrue
<1> SUFFICES ASSUME StatesInv PROVE CountsAreTrue
  OBVIOUS
<1> DEFINE A == StepsIn(book.entries, {"success"})
           B == StepsIn(book.entries, {"failed", "timeout"})
           C == StepsIn(book.entries, {"skipped"})
           D == GetCompletedSteps
<1>1. D = StepsIn(book.entries, StepTerminal \cup {"failed"})
  <2>1. CASE StateStep = {}
    BY <2>1 DEF GetCompletedSteps, StepsIn
  <2>2. CASE StateStep # {}
    <3>1. (CHOOSE s \in StateStep : TRUE) \in StateStep
      BY <2>2
    <3> QED
      BY <3>1, StatesAssumption DEF GetCompletedSteps, RecordedTerminal, Flow
  <2> QED
    BY <2>1, <2>2
<1>2. /\ A \subseteq D /\ B \subseteq D /\ C \subseteq D
      /\ A \cap B = {} /\ (A \cup B) \cap C = {}
  BY <1>1 DEF StepsIn, StepTerminal
<1>3. IsFiniteSet(A) /\ IsFiniteSet(B) /\ IsFiniteSet(C) /\ IsFiniteSet(D)
  BY <1>1, StepsAreFinite
<1>4. IsFiniteSet(A \cup B) /\ Cardinality(A \cup B) = Cardinality(A) + Cardinality(B)
  BY <1>2, <1>3, ApartCardinality
<1>5. Cardinality((A \cup B) \cup C) = Cardinality(A \cup B) + Cardinality(C)
  BY <1>2, <1>3, <1>4, ApartCardinality
<1>6. Cardinality((A \cup B) \cup C) <= Cardinality(D)
  BY <1>2, <1>3, FS_Subset
<1>7. /\ book.counts = CountsOf(book.entries)
      /\ book.counts.completed = Cardinality(A) /\ book.counts.failed = Cardinality(B)
      /\ book.counts.skipped = Cardinality(C)
  BY DEF StatesInv, CountsOf
<1>8. GetFailedSteps \subseteq GetCompletedSteps
  BY <1>2 DEF GetFailedSteps
<1> QED
  BY <1>4, <1>5, <1>6, <1>7, <1>8 DEF CountsAreTrue

\* For any steps, what the machines and the record say of an execution is one
\* story: every history is a path of allowed transitions, and what the record
\* says of ends, durations and counts is true also of a step that failed and
\* is tried again.
THEOREM StatesAreSound == StatesSpec => []StatesSound
<1>1. StatesInv => StatesSound
  <2> SUFFICES ASSUME StatesInv PROVE StatesSound
    OBVIOUS
  <2>1. HistoryIsPath
    BY DEF StatesInv, HistoryIsPath, PathOf, StateAt
  <2>2. RecordIsTrue
    BY DEF StatesInv, EntryOf, Followed, RecordIsTrue
  <2> QED
    BY <2>1, <2>2, TablesAreClosed, CountedOnce DEF StatesSound
<1> QED
  BY <1>1, InitStatesInv, StatesStep, PTL DEF StatesSpec

-----------------------------------------------------------------------------
(***************************************************************************)
(* The checks on a step: every text of a duration, of any amount, and      *)
(* every policy.                                                           *)
(***************************************************************************)
LEMMA ExactIsNat ==
  ASSUME NEW t \in DurationText
  PROVE  Exact(t) \in Nat /\ t.form \in Forms /\ t # NoText
<1>1. t.amount \in Nat /\ t.unit \in DOMAIN UnitMs /\ t.form \in Forms
  BY GuardsAssumption DEF DurationText
<1>2. UnitMs[t.unit] \in Nat
  BY <1>1 DEF UnitMs
<1>3. t # NoText
  BY <1>1 DEF NoText, Forms
<1> QED
  BY <1>1, <1>2, <1>3 DEF Exact

LEMMA AllDurationsAgree ==
  ASSUME NEW t \in DurationText
  PROVE  DurationsAgree(t)
<1>1. Exact(t) \in Nat /\ Exact(t) # Refuses
  BY ExactIsNat DEF Refuses
<1>2. ASSUME t.form = "plain", t.unit # "d"
      PROVE  /\ SchemaMs(t) = Exact(t) /\ IntervalMs(t) = Exact(t) /\ LimitMs(t) = Exact(t) /\ PolicyMs(t) = Exact(t)
             /\ ExecutorMs(t) = Exact(t) /\ GraphMs(t) = Exact(t) /\ ManagerMs(t) = Exact(t)
  BY <1>2 DEF SchemaMs, IntervalMs, LimitMs, PolicyMs, ExecutorMs, GraphMs, ManagerMs
<1>3. ExecutorMs(t) # Refuses => t.form = "plain" /\ t.unit # "d"
  BY DEF ExecutorMs
<1> QED
  BY <1>2, <1>3 DEF DurationsAgree

LEMMA AllAdmittedStepsRun == AdmittedStepsRun
<1> SUFFICES ASSUME NEW timeout \in DurationText \cup {NoText}, NEW ids \in SUBSET {1, 2}, NEW wanted \in SUBSET {1, 2}, NEW mentions \in SUBSET {1, 2},
                    NEW max \in {-1, 0, 10, 11}, NEW delay \in {-1, 0},
                    StepGuardRefusal([id |-> 1, timeout |-> timeout, retryMax |-> max,
                                      retryDelay |-> delay, needs |-> wanted, mentions |-> mentions], ids) = "none"
             PROVE  /\ timeout = NoText \/ ExecutorMs(timeout) # Refuses
                    /\ wanted \cup mentions \subseteq ids /\ 1 \notin wanted
                    /\ max \in 0 .. 10
  BY DEF AdmittedStepsRun
<1> DEFINE whole == [id |-> 1, timeout |-> timeout, retryMax |-> max,
                     retryDelay |-> delay, needs |-> wanted, mentions |-> mentions]
<1>1. /\ whole.id = 1 /\ whole.timeout = timeout /\ whole.retryMax = max
      /\ whole.needs = wanted /\ whole.mentions = mentions
  OBVIOUS
<1>2. /\ whole.timeout = NoText /\ whole.retryMax \in 0 .. 10
      /\ whole.needs \subseteq ids \ {whole.id} /\ whole.mentions \subseteq ids
  <2> HIDE DEF whole
  <2> QED
    BY DEF StepGuardRefusal, whole
<1> QED
  BY <1>1, <1>2

LEMMA MinutesGrow ==
  /\ \A n \in Nat : Minutes(n) \in Nat
  /\ Minutes(5) < Minutes(15) /\ Minutes(15) < Minutes(30) /\ Minutes(30) < Minutes(120)
  /\ Minutes(120) < Minutes(1440)
<1>1. UnitMs.m \in Nat \ {0}
  BY SMT DEF UnitMs
<1> QED
  BY <1>1, SMT DEF Minutes

\* What a policy says of its own.
LEMMA PolicyFields ==
  ASSUME NEW p \in GuardPolicies
  PROVE  /\ p.maxStep = Minutes(5) \/ p.maxStep = Minutes(30)
         /\ p.maxWorkflow = Minutes(15) \/ p.maxWorkflow = Minutes(120)
         /\ p.network \in BOOLEAN /\ p.files \in BOOLEAN /\ p.shell \in BOOLEAN
<1>1. /\ Permissive.maxStep = Minutes(30) /\ Permissive.maxWorkflow = Minutes(120)
      /\ Permissive.network \in BOOLEAN /\ Permissive.files \in BOOLEAN /\ Permissive.shell \in BOOLEAN
  BY SMT DEF Permissive
<1>2. /\ Restrictive.maxStep = Minutes(5) /\ Restrictive.maxWorkflow = Minutes(15)
      /\ Restrictive.network \in BOOLEAN /\ Restrictive.files \in BOOLEAN /\ Restrictive.shell \in BOOLEAN
  BY SMT DEF Restrictive
<1>3. CASE p \in {Permissive, Restrictive}
  BY <1>1, <1>2, <1>3, SMT
<1>4. CASE p = [Permissive EXCEPT !.network = FALSE]
  BY <1>4, SMT DEF Permissive
<1>5. CASE p = [Permissive EXCEPT !.files = FALSE]
  BY <1>5, SMT DEF Permissive
<1>6. CASE p = [Permissive EXCEPT !.shell = FALSE]
  BY <1>6, SMT DEF Permissive
<1>7. CASE p = [Permissive EXCEPT !.blocked = {"db"}, !.maxStep = Minutes(5)]
  BY <1>7, SMT DEF Permissive
<1> QED
  BY <1>3, <1>4, <1>5, <1>6, <1>7 DEF GuardPolicies

LEMMA PoliciesHold ==
  ASSUME NEW step, NEW p \in GuardPolicies, step.timeout \in DurationText \cup {NoText}
  PROVE  PolicyHolds(step, p)
<1> SUFFICES ASSUME PolicyRefusal(step, p) = "none"
             PROVE  /\ step.timeout # NoText => ExecutorMs(step.timeout) <= p.maxStep
                    /\ ~p.network => step.adapter \notin {"http", "webhook"}
                    /\ ~p.files => step.adapter # "fs"
                    /\ ~p.shell => step.adapter \notin {"shell", "cli"}
                    /\ p = Restrictive =>
                         /\ PolicyRefusal(step, Permissive) = "none" /\ step.adapter = "plugin"
                         /\ \A time \in {0, Minutes(15)} : ~WorkflowRefused({step}, time, Permissive)
                    /\ ~WorkflowRefused({step}, p.maxWorkflow, p)
                    /\ WorkflowRefused({step}, p.maxWorkflow + 1, p)
  BY DEF PolicyHolds
<1>1. /\ step.adapter \notin p.blocked /\ step.adapter \in p.allowed
      /\ ~(step.timeout # NoText /\ PolicyMs(step.timeout) > p.maxStep)
      /\ ~(~p.network /\ step.adapter \in {"http", "webhook", "api"})
      /\ ~(~p.files /\ step.adapter \in {"fs", "file"})
      /\ ~(~p.shell /\ step.adapter \in {"shell", "cli", "exec"})
  BY DEF PolicyRefusal
<1>2. /\ Minutes(5) \in Nat /\ Minutes(30) \in Nat /\ Minutes(15) \in Nat /\ Minutes(120) \in Nat
      /\ Minutes(5) < Minutes(30) /\ 0 < Minutes(15) /\ Minutes(15) < Minutes(120)
  BY MinutesGrow
<1>3. p.maxStep \in Nat /\ p.maxWorkflow \in Nat \ {0}
  BY <1>2, PolicyFields
<1>4. ASSUME step.timeout # NoText
      PROVE  /\ ExecutorMs(step.timeout) <= p.maxStep
             /\ PolicyMs(step.timeout) \in Nat /\ PolicyMs(step.timeout) <= p.maxStep
  <2>1. Exact(step.timeout) \in Nat
    BY <1>4, ExactIsNat
  <2>2. PolicyMs(step.timeout) \in Nat /\ PolicyMs(step.timeout) <= p.maxStep
    BY <1>1, <1>3, <1>4, <2>1 DEF PolicyMs
  <2>3. CASE step.timeout.form = "plain" /\ step.timeout.unit # "d"
    BY <2>2, <2>3 DEF PolicyMs, ExecutorMs
  <2>4. CASE ~(step.timeout.form = "plain" /\ step.timeout.unit # "d")
    <3>1. ExecutorMs(step.timeout) = -1
      BY <2>4 DEF ExecutorMs, Refuses
    <3> QED
      BY <1>3, <2>2, <3>1
  <2> QED
    BY <2>3, <2>4
<1>5. ASSUME p = Restrictive
      PROVE  /\ PolicyRefusal(step, Permissive) = "none" /\ step.adapter = "plugin"
             /\ \A time \in {0, Minutes(15)} : ~WorkflowRefused({step}, time, Permissive)
  <2>1. p.allowed = {"plugin"} /\ p.maxStep = Minutes(5)
    BY <1>2, <1>5 DEF Restrictive
  <2>2. step.adapter = "plugin"
    BY <1>1, <2>1
  <2>3. /\ Permissive.blocked = {} /\ "plugin" \in Permissive.allowed /\ Permissive.network /\ Permissive.files
        /\ Permissive.shell /\ Permissive.maxStep = Minutes(30) /\ Permissive.maxWorkflow = Minutes(120)
    BY <1>2 DEF Permissive, Adapters
  <2>4. step.timeout # NoText => ~(PolicyMs(step.timeout) > Permissive.maxStep)
    BY <1>2, <1>4, <2>1, <2>3, SMT
  <2>5. PolicyRefusal(step, Permissive) = "none"
    BY <2>2, <2>3, <2>4 DEF PolicyRefusal
  <2>6. \A time \in {0, Minutes(15)} : ~(time # 0 /\ time > Permissive.maxWorkflow)
    BY <1>2, <2>3
  <2> QED
    BY <2>2, <2>5, <2>6 DEF WorkflowRefused
<1>6. ~WorkflowRefused({step}, p.maxWorkflow, p) /\ WorkflowRefused({step}, p.maxWorkflow + 1, p)
  BY <1>3 DEF WorkflowRefused
<1> QED
  BY <1>1, <1>4, <1>5, <1>6

\* For texts of any amounts: whoever reads a duration that is let through reads
\* the same, and what the guards let through keeps to the policy.
THEOREM GuardsAreSound == GuardsSpec => []GuardsSound
<1>1. GuardsInit => GuardsTypeOK
  BY DEF GuardsInit, GuardsTypeOK, Unwritten
<1>2. GuardsTypeOK /\ [GuardsNext]_guarded => GuardsTypeOK'
  <2> SUFFICES ASSUME GuardsTypeOK, [GuardsNext]_guarded PROVE GuardsTypeOK'
    OBVIOUS
  <2>1. CASE WritesTimeout
    BY <2>1 DEF WritesTimeout, GuardsTypeOK, Unwritten
  <2>2. CASE WritesAdapter
    BY <2>2 DEF WritesAdapter, GuardsTypeOK
  <2>3. CASE MeetsPolicy
    BY <2>3 DEF MeetsPolicy, GuardsTypeOK
  <2>4. CASE UNCHANGED guarded
    BY <2>4 DEF GuardsTypeOK
  <2> QED
    BY <2>1, <2>2, <2>3, <2>4 DEF GuardsNext
<1>3. GuardsTypeOK => GuardsSound
  BY AllDurationsAgree, AllAdmittedStepsRun, PoliciesHold DEF GuardsTypeOK, GuardsSound
<1> QED
  BY <1>1, <1>2, <1>3, PTL DEF GuardsSpec

-----------------------------------------------------------------------------
(***************************************************************************)
(* What a run may use: every tier, every request, every text of a duration.*)
(***************************************************************************)
LEMMA TheSmaller == ASSUME NEW a \in Int, NEW b \in Int PROVE Min({a, b}) = IF a <= b THEN a ELSE b
<1> DEFINE m == IF a <= b THEN a ELSE b
<1>1. m \in {a, b} /\ \A y \in {a, b} : m <= y
  OBVIOUS
<1>2. \A x \in {a, b} : (\A y \in {a, b} : x <= y) => x = m
  OBVIOUS
<1> HIDE DEF m
<1>3. Min({a, b}) = m
  BY <1>1, <1>2 DEF Min
<1> QED
  BY <1>3 DEF m

LEMMA TheLarger == ASSUME NEW a \in Int, NEW b \in Int PROVE Max({a, b}) = IF a <= b THEN b ELSE a
<1> DEFINE m == IF a <= b THEN b ELSE a
<1>1. m \in {a, b} /\ \A y \in {a, b} : m >= y
  OBVIOUS
<1>2. \A x \in {a, b} : (\A y \in {a, b} : x >= y) => x = m
  OBVIOUS
<1> HIDE DEF m
<1>3. Max({a, b}) = m
  BY <1>1, <1>2 DEF Max
<1> QED
  BY <1>3 DEF m

LEMMA AtMostIs ==
  ASSUME NEW n \in Int, NEW limit \in Int, n # NotANumber
  PROVE  AtMost(n, limit) = IF n <= limit THEN n ELSE limit
BY TheSmaller DEF AtMost

Tiers == {FreeTier, ProTier, EnterpriseTier}

\* What is said of the fields of a tier, from free to enterprise.
TierFields(l, retries, step, workflow, concurrency, cpu, memory, disk) ==
  /\ l.retries = retries /\ l.step = Minutes(step) /\ l.workflow = Minutes(workflow)
  /\ l.concurrency = concurrency /\ l.cpu = cpu /\ l.memory = memory /\ l.disk = disk
  /\ 1 \in DOMAIN l.modes /\ l.modes[1] = "local"

LEMMA FieldsOfTiers ==
  /\ TierFields(FreeTier, 3, 5, 15, 2, 1, 512, 1024)
  /\ TierFields(ProTier, 10, 30, 120, 10, 4, 2048, 10240)
  /\ TierFields(EnterpriseTier, 50, 120, 1440, 100, 32, 32768, 102400)
  /\ FreeTier.sandbox = "basic" /\ ~FreeTier.mayDisable /\ ~FreeTier.mayRush
  /\ ProTier.sandbox = "basic" /\ ~ProTier.mayDisable /\ ~ProTier.mayRush
  /\ EnterpriseTier.sandbox = "none" /\ EnterpriseTier.mayDisable /\ EnterpriseTier.mayRush
<1>1. TierFields(FreeTier, 3, 5, 15, 2, 1, 512, 1024) /\ FreeTier.sandbox = "basic" /\ ~FreeTier.mayDisable /\ ~FreeTier.mayRush
  BY SMT DEF TierFields, FreeTier
<1>2. TierFields(ProTier, 10, 30, 120, 10, 4, 2048, 10240) /\ ProTier.sandbox = "basic" /\ ~ProTier.mayDisable /\ ~ProTier.mayRush
  BY SMT DEF TierFields, ProTier
<1>3. /\ TierFields(EnterpriseTier, 50, 120, 1440, 100, 32, 32768, 102400)
      /\ EnterpriseTier.sandbox = "none" /\ EnterpriseTier.mayDisable /\ EnterpriseTier.mayRush
  BY SMT DEF TierFields, EnterpriseTier
<1> QED
  BY <1>1, <1>2, <1>3

\* A higher tier never has less than a lower one.
LEMMA TiersAscend ==
  ASSUME NEW limits \in Tiers
  PROVE  /\ \A f \in {"retries", "step", "workflow", "concurrency", "cpu", "memory", "disk"} :
              /\ FreeTier[f] \in Nat /\ limits[f] \in Nat /\ EnterpriseTier[f] \in Nat
              /\ FreeTier[f] <= limits[f] /\ limits[f] <= EnterpriseTier[f]
         /\ FreeTier.retries = 3 /\ FreeTier.step = Minutes(5) /\ FreeTier.workflow = Minutes(15)
         /\ FreeTier.cpu = 1 /\ FreeTier.memory = 512 /\ FreeTier.disk = 1024
         /\ 1 \in DOMAIN limits.modes /\ limits.modes[1] = "local"
<1>1. /\ \A n \in {5, 15, 30, 120, 1440} : Minutes(n) \in Nat
      /\ Minutes(5) < Minutes(15) /\ Minutes(15) < Minutes(30) /\ Minutes(30) < Minutes(120)
      /\ Minutes(120) < Minutes(1440)
  BY MinutesGrow
<1>2. CASE limits = FreeTier
  BY <1>1, <1>2, FieldsOfTiers, SMT DEF TierFields
<1>3. CASE limits = ProTier
  BY <1>1, <1>3, FieldsOfTiers, SMT DEF TierFields
<1>4. CASE limits = EnterpriseTier
  BY <1>1, <1>4, FieldsOfTiers, SMT DEF TierFields
<1> QED
  BY <1>2, <1>3, <1>4 DEF Tiers

LEMMA RequestsAreClamped ==
  ASSUME NEW limits \in Tiers, NEW n \in {Unknown, 0, 3, 4, 11, 51, 101}
  PROVE  /\ EnforcedRetries(n, limits) <= limits.retries
         /\ n # Unknown => EnforcedConcurrency(n, limits) <= limits.concurrency
         /\ Between(EnforcedRetries(n, FreeTier), EnforcedRetries(n, limits),
                    EnforcedRetries(n, EnterpriseTier))
         /\ Between(EnforcedConcurrency(n, FreeTier), EnforcedConcurrency(n, limits),
                    EnforcedConcurrency(n, EnterpriseTier))
         /\ n # Unknown => (RetryWarned(n, limits) <=> EnforcedRetries(n, limits) # n)
<1>1. n \in Int /\ n # NotANumber
  BY DEF Unknown, NotANumber
<1>2. /\ FreeTier.retries = 3 /\ limits.retries \in Nat /\ EnterpriseTier.retries \in Nat
      /\ 3 <= limits.retries /\ limits.retries <= EnterpriseTier.retries
      /\ FreeTier.concurrency \in Nat /\ limits.concurrency \in Nat /\ EnterpriseTier.concurrency \in Nat
      /\ FreeTier.concurrency <= limits.concurrency /\ limits.concurrency <= EnterpriseTier.concurrency
  BY TiersAscend
<1>3. ASSUME NEW l \in {FreeTier, limits, EnterpriseTier}
      PROVE  /\ EnforcedRetries(n, l) = IF n = Unknown THEN 3 ELSE IF n <= l.retries THEN n ELSE l.retries
             /\ EnforcedConcurrency(n, l) = IF n = Unknown THEN 5 ELSE IF n <= l.concurrency THEN n ELSE l.concurrency
  <2>1. l.retries \in Int /\ l.concurrency \in Int
    BY <1>2
  <2> QED
    BY <1>1, <2>1, AtMostIs DEF EnforcedRetries, EnforcedConcurrency
<1>4. Between(EnforcedRetries(n, FreeTier), EnforcedRetries(n, limits), EnforcedRetries(n, EnterpriseTier))
  BY <1>1, <1>2, <1>3 DEF Between
<1>5. Between(EnforcedConcurrency(n, FreeTier), EnforcedConcurrency(n, limits), EnforcedConcurrency(n, EnterpriseTier))
  BY <1>1, <1>2, <1>3 DEF Between
<1> QED
  BY <1>1, <1>2, <1>3, <1>4, <1>5 DEF RetryWarned

LEMMA LimitMsIsNat == ASSUME NEW t \in DurationText PROVE LimitMs(t) \in Nat
BY ExactIsNat, MinutesGrow DEF LimitMs

LEMMA TimeoutsAreClamped ==
  ASSUME NEW limits \in Tiers, NEW t \in DurationText \cup {NoText}, NEW ofWorkflow \in BOOLEAN
  PROVE  /\ EnforcedTimeout(t, limits, ofWorkflow) <= (IF ofWorkflow THEN limits.workflow ELSE limits.step)
         /\ Between(EnforcedTimeout(t, FreeTier, ofWorkflow), EnforcedTimeout(t, limits, ofWorkflow),
                    EnforcedTimeout(t, EnterpriseTier, ofWorkflow))
         /\ t # NoText => (TimeoutWarned(t, limits) <=> EnforcedTimeout(t, limits, FALSE) # LimitMs(t))
<1> DEFINE Bound(l, w) == IF w THEN l.workflow ELSE l.step
<1>1. ASSUME NEW w \in BOOLEAN
      PROVE  /\ Bound(FreeTier, w) = Minutes(IF w THEN 15 ELSE 5)
             /\ Bound(FreeTier, w) \in Nat /\ Bound(limits, w) \in Nat /\ Bound(EnterpriseTier, w) \in Nat
             /\ Bound(FreeTier, w) <= Bound(limits, w) /\ Bound(limits, w) <= Bound(EnterpriseTier, w)
  BY TiersAscend
<1>2. CASE t = NoText
  <2>1. ASSUME NEW l PROVE EnforcedTimeout(t, l, ofWorkflow) = Bound(FreeTier, ofWorkflow)
    BY <1>1, <1>2 DEF EnforcedTimeout
  <2> QED
    <3> HIDE DEF Bound
    <3>1. EnforcedTimeout(t, limits, ofWorkflow) <= Bound(limits, ofWorkflow)
      BY <1>1, <2>1
    <3>2. Between(EnforcedTimeout(t, FreeTier, ofWorkflow), EnforcedTimeout(t, limits, ofWorkflow),
                  EnforcedTimeout(t, EnterpriseTier, ofWorkflow))
      BY <1>1, <2>1 DEF Between
    <3> QED BY <1>2, <3>1, <3>2 DEF Bound
<1>3. CASE t # NoText
  <2>1. LimitMs(t) \in Nat /\ LimitMs(t) # NotANumber
    BY <1>3, LimitMsIsNat DEF NotANumber
  <2>2. ASSUME NEW l \in {FreeTier, limits, EnterpriseTier}, NEW w \in BOOLEAN
        PROVE  EnforcedTimeout(t, l, w) = IF LimitMs(t) <= Bound(l, w) THEN LimitMs(t) ELSE Bound(l, w)
    <3>1. EnforcedTimeout(t, l, w) = AtMost(LimitMs(t), Bound(l, w))
      BY <1>3 DEF EnforcedTimeout
    <3>2. Bound(l, w) \in Nat
      <4> HIDE DEF Bound
      <4> QED BY <1>1
    <3> HIDE DEF Bound
    <3> QED BY <2>1, <3>1, <3>2, AtMostIs
  <2>3. limits.step = Bound(limits, FALSE)
    OBVIOUS
  <2> HIDE DEF Bound
  <2>4. EnforcedTimeout(t, limits, ofWorkflow) <= Bound(limits, ofWorkflow)
    BY <1>1, <2>1, <2>2
  <2>5. Between(EnforcedTimeout(t, FreeTier, ofWorkflow), EnforcedTimeout(t, limits, ofWorkflow),
                EnforcedTimeout(t, EnterpriseTier, ofWorkflow))
    BY <1>1, <2>1, <2>2 DEF Between
  <2>6. TimeoutWarned(t, limits) <=> EnforcedTimeout(t, limits, FALSE) # LimitMs(t)
    <3>1. EnforcedTimeout(t, limits, FALSE) = IF LimitMs(t) <= Bound(limits, FALSE) THEN LimitMs(t) ELSE Bound(limits, FALSE)
      BY <2>2
    <3>2. Bound(limits, FALSE) \in Nat
      BY <1>1
    <3>3. TimeoutWarned(t, limits) <=> LimitMs(t) > Bound(limits, FALSE)
      BY <1>3, <2>3, Zenon DEF TimeoutWarned
    <3>4. LimitMs(t) > Bound(limits, FALSE) <=> EnforcedTimeout(t, limits, FALSE) # LimitMs(t)
      <4> DEFINE n == LimitMs(t)
                 b == Bound(limits, FALSE)
                 e == EnforcedTimeout(t, limits, FALSE)
      <4>1. n \in Nat /\ b \in Nat /\ e = IF n <= b THEN n ELSE b
        BY <2>1, <3>1, <3>2
      <4> HIDE DEF n, b, e
      <4>2. n > b <=> e # n
        BY <4>1
      <4> QED BY <4>2 DEF n, b, e
    <3> QED BY <3>3, <3>4, Zenon
  <2> QED BY <2>4, <2>5, <2>6 DEF Bound
<1> QED
  BY <1>2, <1>3

LEMMA SandboxesHold ==
  ASSUME NEW limits \in Tiers, NEW level \in {"unset", "none", "basic", "strict"}
  PROVE  /\ SandboxLevel[EnforcedSandbox(level, limits)] >= SandboxLevel[limits.sandbox]
         /\ level # "unset" => SandboxLevel[EnforcedSandbox(level, limits)] >= SandboxLevel[level]
<1>1. (limits.sandbox = "basic" /\ ~limits.mayDisable) \/ (limits.sandbox = "none" /\ limits.mayDisable)
  <2>1. CASE limits = FreeTier
    BY <2>1, SMT DEF FreeTier
  <2>2. CASE limits = ProTier
    BY <2>2, SMT DEF ProTier
  <2>3. CASE limits = EnterpriseTier
    BY <2>3, SMT DEF EnterpriseTier
  <2> QED BY <2>1, <2>2, <2>3, Zenon DEF Tiers
<1>2. SandboxLevel["none"] = 0 /\ SandboxLevel["basic"] = 1 /\ SandboxLevel["strict"] = 2
  BY DEF SandboxLevel
<1> QED
  BY <1>1, <1>2 DEF EnforcedSandbox

LEMMA ResourcesAreClamped ==
  ASSUME NEW limits \in Tiers, NEW cpu \in {Unknown, 1, 64},
         NEW memory \in {"unset", "MB", "GB", "TB", "odd"}, NEW disk \in {"unset", "MB", "GB", "TB", "odd"}
  PROVE  LET got == EnforcedResources(cpu, memory, disk, limits)
         IN got.cpu <= limits.cpu /\ got.memory <= limits.memory /\ got.disk <= limits.disk
<1> DEFINE c == IF cpu = Unknown THEN 1 ELSE cpu
           m == IF memory = "unset" THEN 512 ELSE SizeMB[memory]
           d == IF disk = "unset" THEN 1024 ELSE SizeMB[disk]
           got == EnforcedResources(cpu, memory, disk, limits)
<1>1. /\ c \in Int /\ c # NotANumber /\ m \in Int /\ m # NotANumber /\ d \in Int /\ d # NotANumber
  <2>1. c \in {1, 64} /\ 1 # NotANumber /\ 64 # NotANumber
    BY SMT DEF Unknown, NotANumber
  <2>2. \A size \in {"MB", "GB", "TB", "odd"} : SizeMB[size] \in Nat
    BY SMT DEF SizeMB
  <2>3. m \in Nat /\ d \in Nat
    BY <2>2
  <2>4. NotANumber \notin Nat
    BY DEF NotANumber
  <2> HIDE DEF c, m, d
  <2> QED BY <2>1, <2>3, <2>4
<1>2. limits.cpu \in Int /\ limits.memory \in Int /\ limits.disk \in Int
  <2>1. \A f \in {"cpu", "memory", "disk"} : limits[f] \in Nat
    BY TiersAscend
  <2> QED BY <2>1
<1>3. got.cpu = AtMost(c, limits.cpu) /\ got.memory = AtMost(m, limits.memory) /\ got.disk = AtMost(d, limits.disk)
  BY DEF EnforcedResources
<1> HIDE DEF c, m, d, got
<1>4. got.cpu <= limits.cpu /\ got.memory <= limits.memory /\ got.disk <= limits.disk
  BY <1>1, <1>2, <1>3, AtMostIs
<1> QED
  BY <1>4 DEF got

LEMMA AllClampsHold == ASSUME NEW tier PROVE ClampsHold(tier)
<1> DEFINE limits == LimitsForTier(tier)
<1>1. limits \in Tiers
  BY DEF LimitsForTier, Tiers
<1>2. \A mode \in {"unset", "local", "docker", "remote"} :
        \E i \in DOMAIN limits.modes : EnforcedMode(mode, limits) = limits.modes[i]
  <2>1. 1 \in DOMAIN limits.modes /\ limits.modes[1] = "local"
    BY <1>1, TiersAscend
  <2> HIDE DEF limits
  <2> QED BY <2>1 DEF EnforcedMode
<1>3. EnforcedPriority("high", limits) = "high" <=> limits.mayRush
  <2>1. limits.mayRush \in BOOLEAN
    <3> HIDE DEF limits
    <3>1. FreeTier.mayRush \in BOOLEAN /\ ProTier.mayRush \in BOOLEAN /\ EnterpriseTier.mayRush \in BOOLEAN
      BY SMT DEF FreeTier, ProTier, EnterpriseTier
    <3> QED BY <1>1, <3>1, Zenon DEF Tiers
  <2> HIDE DEF limits
  <2> QED BY <2>1 DEF EnforcedPriority
<1>4. limits # FreeTier => InternalContext(tier).billable /\ InternalContext(tier).payment = "active"
  BY DEF LimitsForTier, InternalContext
<1>5. \A n \in {Unknown, 0, 3, 4, 11, 51, 101} :
          /\ EnforcedRetries(n, limits) <= limits.retries
          /\ n # Unknown => EnforcedConcurrency(n, limits) <= limits.concurrency
          /\ Between(EnforcedRetries(n, FreeTier), EnforcedRetries(n, limits),
                     EnforcedRetries(n, EnterpriseTier))
          /\ Between(EnforcedConcurrency(n, FreeTier), EnforcedConcurrency(n, limits),
                     EnforcedConcurrency(n, EnterpriseTier))
          /\ n # Unknown => (RetryWarned(n, limits) <=> EnforcedRetries(n, limits) # n)
  <2> HIDE DEF limits
  <2> QED BY <1>1, RequestsAreClamped, Zenon
<1>6. \A t \in DurationText \cup {NoText} : \A ofWorkflow \in BOOLEAN :
          /\ EnforcedTimeout(t, limits, ofWorkflow)
               <= (IF ofWorkflow THEN limits.workflow ELSE limits.step)
          /\ Between(EnforcedTimeout(t, FreeTier, ofWorkflow), EnforcedTimeout(t, limits, ofWorkflow),
                     EnforcedTimeout(t, EnterpriseTier, ofWorkflow))
          /\ t # NoText => (TimeoutWarned(t, limits) <=> EnforcedTimeout(t, limits, FALSE) # LimitMs(t))
  <2> HIDE DEF limits
  <2> QED BY <1>1, TimeoutsAreClamped, Zenon
<1>7. \A level \in DOMAIN SandboxLevel \cup {"unset"} :
          /\ SandboxLevel[EnforcedSandbox(level, limits)] >= SandboxLevel[limits.sandbox]
          /\ level # "unset" => SandboxLevel[EnforcedSandbox(level, limits)] >= SandboxLevel[level]
  <2> HIDE DEF limits
  <2>1. DOMAIN SandboxLevel \cup {"unset"} = {"unset", "none", "basic", "strict"}
    BY DEF SandboxLevel
  <2> QED BY <1>1, <2>1, SandboxesHold, Zenon
<1>8. ASSUME NEW cpu \in {Unknown, 1, 64}, NEW memory \in DOMAIN SizeMB \cup {"unset"},
             NEW disk \in DOMAIN SizeMB \cup {"unset"}
      PROVE  LET got == EnforcedResources(cpu, memory, disk, limits)
             IN got.cpu <= limits.cpu /\ got.memory <= limits.memory /\ got.disk <= limits.disk
  <2>1. DOMAIN SizeMB \cup {"unset"} = {"unset", "MB", "GB", "TB", "odd"}
    BY SMT DEF SizeMB
  <2>2. memory \in {"unset", "MB", "GB", "TB", "odd"} /\ disk \in {"unset", "MB", "GB", "TB", "odd"}
    BY <2>1
  <2> HIDE DEF limits
  <2> QED BY <1>1, <2>2, ResourcesAreClamped
<1> QED
  BY <1>2, <1>3, <1>4, <1>5, <1>6, <1>7, <1>8, Zenon DEF ClampsHold

-----------------------------------------------------------------------------
(***************************************************************************)
(* How a run should go: what the intent and the need for a safe mode look  *)
(* at, and what load and record make of them.                              *)
(***************************************************************************)
\* r is a situation with the same workflow as s.
SameWorkflow(s, r) ==
  /\ r.size = s.size /\ r.kind = s.kind /\ r.retry = s.retry /\ r.words = s.words /\ r.note = s.note
  /\ r.limit = s.limit

LEMMA WorkflowsAreJudgedAlike ==
  ASSUME NEW s, NEW r, SameWorkflow(s, r)
  PROVE  IntentOf(r) = IntentOf(s) /\ (RequiresSafeMode(r) <=> RequiresSafeMode(s))
<1>1. \A i : AdapterOf(r, i) = AdapterOf(s, i)
  BY DEF SameWorkflow, AdapterOf
<1>2. \A set : AdapterCount(r, set) = AdapterCount(s, set)
  BY <1>1 DEF SameWorkflow, AdapterCount
<1>3. HasDataFlow(r) <=> HasDataFlow(s)
  <2>1. r.size = s.size
    BY DEF SameWorkflow
  <2> QED
    BY <1>1, <2>1 DEF HasDataFlow
<1>4. {AdapterOf(r, i) : i \in 1 .. r.size} = {AdapterOf(s, i) : i \in 1 .. s.size}
  BY <1>1 DEF SameWorkflow
<1>5. r.note = s.note /\ r.words = s.words
  BY DEF SameWorkflow
<1>6. IntentOf(r) = IntentOf(s)
  BY <1>2, <1>3, <1>4, <1>5 DEF IntentOf
<1>7. RequiresSafeMode(r) <=> RequiresSafeMode(s)
  BY <1>2, Zenon DEF SameWorkflow, RequiresSafeMode
<1> QED
  BY <1>6, <1>7

LEMMA GuessesAreModest == ASSUME NEW s PROVE IntentOf(s).confidence = "low" => IntentOf(s).intent # "data-pipeline"
<1>1. CASE s.note \in KnownIntents
  BY <1>1 DEF IntentOf, Classified
<1>2. CASE s.note \notin KnownIntents /\ s.words # "unset"
  BY <1>2 DEF IntentOf, Classified
<1>3. CASE s.note \notin KnownIntents /\ s.words = "unset"
  BY <1>3 DEF IntentOf, Classified
<1> QED
  BY <1>1, <1>2, <1>3

\* The numbers of a situation are integers.
Measured(s) ==
  /\ s.cpu \in Int /\ s.memory \in Int /\ s.active \in Int /\ s.rate \in Int /\ s.size \in Int
  /\ s.limit \in Int

LEMMA ConcurrencyIsInt == ASSUME NEW s, Measured(s) PROVE Concurrent(s) \in Int
<1>1. s.limit \in Int /\ \A n \in Int : Min({s.limit, n}) \in Int
  BY TheSmaller DEF Measured
<1>2. ForDataPipeline(s).concurrency \in Int
  BY <1>1 DEF ForDataPipeline, Strategy, Unknown
<1>3. ForUnreliable(s).concurrency \in Int
  BY DEF ForUnreliable, Strategy
<1>4. ForHighLoad(s).concurrency \in Int
  BY DEF ForHighLoad, Strategy
<1>5. \A intent : Resolve(s, intent).concurrency \in Int
  BY <1>2, <1>3, <1>4 DEF Resolve, Strategy, Unknown
<1> QED
  BY <1>1, <1>5 DEF Concurrent

\* What is asked for when the machine is not busy does not depend on its load.
LEMMA LoadIsHeeded ==
  ASSUME NEW s, NEW r, SameWorkflow(s, r), Measured(s), Measured(r), r.rate = s.rate, r.cpu > s.cpu
  PROVE  /\ r.cpu > 80 => Concurrent(r) \in 1 .. 3
         /\ r.cpu <= 80 => Concurrent(r) = Concurrent(s)
         /\ s.cpu > 80 => Concurrent(r) <= Concurrent(s)
<1>1. IntentOf(r) = IntentOf(s) /\ (RequiresSafeMode(r) <=> RequiresSafeMode(s))
  BY WorkflowsAreJudgedAlike
<1>2. ASSUME NEW q, Measured(q), q.cpu > 80, NEW intent
      PROVE  Resolve(q, intent).concurrency = IF q.cpu > 90 THEN 1 ELSE IF q.cpu > 85 THEN 2 ELSE 3
  BY <1>2 DEF Resolve, ForHighLoad, Strategy
<1>3. ASSUME NEW q, Measured(q), q.cpu > 80
      PROVE  Concurrent(q) = IF q.cpu > 90 THEN 1 ELSE IF q.cpu > 85 THEN 2 ELSE 3
  BY <1>2, <1>3 DEF Concurrent, Unknown, Measured
<1>4. ASSUME r.cpu <= 80 PROVE Concurrent(r) = Concurrent(s)
  <2>1. ~(r.cpu > 80) /\ ~(s.cpu > 80) /\ r.limit = s.limit /\ r.size = s.size
    BY <1>4 DEF Measured, SameWorkflow
  <2>2. ForDataPipeline(r) = ForDataPipeline(s)
    BY <2>1 DEF ForDataPipeline
  <2>3. ForUnreliable(r) = ForUnreliable(s)
    BY DEF ForUnreliable
  <2>4. \A intent : Resolve(r, intent) = Resolve(s, intent)
    BY <1>1, <2>1, <2>2, <2>3, Zenon DEF Resolve
  <2> QED
    BY <1>1, <2>1, <2>4, Zenon DEF Concurrent
<1>5. ASSUME r.cpu > 80 PROVE Concurrent(r) \in 1 .. 3
  BY <1>3, <1>5
<1>6. ASSUME s.cpu > 80 PROVE Concurrent(r) <= Concurrent(s)
  BY <1>3, <1>6 DEF Measured
<1> QED
  BY <1>4, <1>5, <1>6

\* A success rate is heeded below a half.
LEMMA RecordIsHeeded ==
  ASSUME NEW s, NEW r, SameWorkflow(s, r), Measured(s), Measured(r), r.cpu = s.cpu, r.memory = s.memory,
         0 < r.rate, r.rate < s.rate
  PROVE  /\ Concurrent(r) = Concurrent(s) \/ Concurrent(r) \in 1 .. 2
         /\ \A intent : \/ Resolve(r, intent).retries >= Resolve(s, intent).retries
                       \/ RequiresSafeMode(s)
<1>1. IntentOf(r) = IntentOf(s) /\ (RequiresSafeMode(r) <=> RequiresSafeMode(s))
  BY WorkflowsAreJudgedAlike
<1>2. r.limit = s.limit /\ r.size = s.size
  BY DEF SameWorkflow
<1>3. ForHighLoad(r) = ForHighLoad(s)
  BY <1>2 DEF ForHighLoad
<1>4. /\ ForDataPipeline(r).concurrency = ForDataPipeline(s).concurrency
      /\ ForDataPipeline(r).retries \in {5, 7} /\ ForDataPipeline(s).retries \in {5, 7}
      /\ ForDataPipeline(r).retries >= ForDataPipeline(s).retries
  <2>1. s.rate \in 1 .. 79 => r.rate \in 1 .. 79
    BY DEF Measured
  <2> QED
    BY <1>2, <2>1 DEF ForDataPipeline, Strategy
<1>5. ASSUME r.rate < 50
      PROVE  /\ ForUnreliable(r).concurrency \in 1 .. 2 /\ ForUnreliable(r).retries \in 4 .. 5
             /\ s.rate < 50 => /\ ForUnreliable(s).retries \in 4 .. 5
                               /\ ForUnreliable(r).retries >= ForUnreliable(s).retries
  BY <1>5 DEF ForUnreliable, Strategy, Measured
<1>6. (r.rate \in 1 .. 49 <=> r.rate < 50) /\ (s.rate \in 1 .. 49 <=> s.rate < 50)
  BY DEF Measured
<1>7. ASSUME NEW intent
      PROVE  \/ Resolve(r, intent).concurrency = Resolve(s, intent).concurrency
             \/ Resolve(r, intent).concurrency \in 1 .. 2
  <2>1. CASE s.cpu > 80
    BY <1>3, <2>1 DEF Resolve
  <2>2. CASE ~(s.cpu > 80) /\ intent = "data-pipeline"
    BY <1>4, <2>2 DEF Resolve
  <2>3. CASE ~(s.cpu > 80) /\ intent # "data-pipeline" /\ r.rate < 50
    BY <1>5, <1>6, <2>3 DEF Resolve
  <2>4. CASE ~(s.cpu > 80) /\ intent # "data-pipeline" /\ ~(r.rate < 50)
    <3>1. ~(s.rate < 50)
      BY <2>4 DEF Measured
    <3> QED BY <1>1, <1>2, <1>6, <2>4, <3>1, Zenon DEF Resolve
  <2> QED BY <2>1, <2>2, <2>3, <2>4
<1>8. ASSUME NEW intent, ~RequiresSafeMode(s)
      PROVE  Resolve(r, intent).retries >= Resolve(s, intent).retries
  <2>1. CASE s.cpu > 80
    <3>1. Resolve(r, intent) = ForHighLoad(s) /\ Resolve(s, intent) = ForHighLoad(s)
      BY <1>3, <2>1 DEF Resolve
    <3>2. ForHighLoad(s).retries = 2
      BY DEF ForHighLoad, Strategy
    <3> QED BY <3>1, <3>2
  <2>2. CASE ~(s.cpu > 80) /\ intent = "data-pipeline"
    BY <1>4, <2>2 DEF Resolve
  <2>3. CASE ~(s.cpu > 80) /\ intent # "data-pipeline" /\ r.rate < 50
    <3>1. Resolve(r, intent).retries = ForUnreliable(r).retries
      BY <1>6, <2>3 DEF Resolve
    <3>2. CASE s.rate < 50
      BY <1>5, <1>6, <2>3, <3>1, <3>2 DEF Resolve
    <3>3. CASE ~(s.rate < 50)
      <4>1. Resolve(s, intent).retries = Unknown
        BY <1>6, <1>8, <2>3, <3>3 DEF Resolve, Strategy
      <4> QED BY <1>5, <2>3, <3>1, <4>1 DEF Unknown
    <3> QED BY <3>2, <3>3
  <2>4. CASE ~(s.cpu > 80) /\ intent # "data-pipeline" /\ ~(r.rate < 50)
    <3>1. ~(s.rate < 50)
      BY <2>4 DEF Measured
    <3>2. Resolve(r, intent).retries = Unknown /\ Resolve(s, intent).retries = Unknown
      BY <1>1, <1>2, <1>6, <1>8, <2>4, <3>1 DEF Resolve, Strategy
    <3> QED BY <3>2 DEF Unknown
  <2> QED BY <2>1, <2>2, <2>3, <2>4
<1>9. Concurrent(r) = Concurrent(s) \/ Concurrent(r) \in 1 .. 2
  <2>1. \/ Resolve(r, IntentOf(s).intent).concurrency = Resolve(s, IntentOf(s).intent).concurrency
        \/ Resolve(r, IntentOf(s).intent).concurrency \in 1 .. 2
    BY <1>7
  <2> QED
    BY <1>1, <1>2, <2>1 DEF Concurrent, Unknown
<1> QED
  BY <1>8, <1>9

-----------------------------------------------------------------------------
\* A situation has the fields of a plain one, each with a value of its own.
LimitsInv ==
  /\ scene = [f \in DOMAIN Plain |-> scene[f]]
  /\ LimitsTypeOK

LEMMA LimitsInitOK == LimitsInit => LimitsInv
<1> SUFFICES ASSUME LimitsInit PROVE LimitsInv
  OBVIOUS
<1>1. scene = Plain
  BY DEF LimitsInit
<1>2. Plain = [f \in DOMAIN Plain |-> Plain[f]]
  BY SMT DEF Plain
<1> QED
  BY <1>1, <1>2 DEF LimitsInv, LimitsTypeOK

LEMMA LimitsStep == LimitsInv /\ [LimitsNext]_scene => LimitsInv'
<1> SUFFICES ASSUME LimitsInv, [LimitsNext]_scene PROVE LimitsInv'
  OBVIOUS
<1>1. CASE UNCHANGED scene
  BY <1>1 DEF LimitsInv, LimitsTypeOK
<1>2. CASE LimitsNext
  <2> PICK f \in DOMAIN Plain : \E v \in SceneValues[f] : scene' = [scene EXCEPT ![f] = v]
    BY <1>2 DEF LimitsNext
  <2> PICK v \in SceneValues[f] : scene' = [scene EXCEPT ![f] = v]
    OBVIOUS
  <2> DEFINE D == DOMAIN Plain
  <2>1. scene = [g \in D |-> scene[g]]
    BY DEF LimitsInv
  <2>2. \A g \in D : scene[g] \in SceneValues[g] \cup {Plain[g]}
    BY DEF LimitsInv, LimitsTypeOK
  <2>3. f \in D
    OBVIOUS
  <2> HIDE DEF D
  <2>4. scene' = [g \in D |-> IF g = f THEN v ELSE scene[g]]
    BY <2>1, <2>3
  <2>5. scene' = [g \in D |-> scene'[g]] /\ \A g \in D : scene'[g] \in SceneValues[g] \cup {Plain[g]}
    BY <2>2, <2>4
  <2> QED
    BY <2>5 DEF LimitsInv, LimitsTypeOK, D
<1> QED
  BY <1>1, <1>2

\* What a situation is but for one field.
LEMMA ScenesAreMeasured ==
  ASSUME LimitsInv
  PROVE  /\ Measured(scene)
         /\ \A cpu \in SceneValues.cpu :
              /\ SameWorkflow(scene, [scene EXCEPT !.cpu = cpu]) /\ Measured([scene EXCEPT !.cpu = cpu])
              /\ [scene EXCEPT !.cpu = cpu].cpu = cpu /\ [scene EXCEPT !.cpu = cpu].rate = scene.rate
         /\ \A rate \in SceneValues.rate :
              /\ SameWorkflow(scene, [scene EXCEPT !.rate = rate]) /\ Measured([scene EXCEPT !.rate = rate])
              /\ [scene EXCEPT !.rate = rate].rate = rate /\ [scene EXCEPT !.rate = rate].cpu = scene.cpu
              /\ [scene EXCEPT !.rate = rate].memory = scene.memory
<1>1. DOMAIN Plain = {"tier", "cpu", "memory", "active", "rate", "limit", "size", "kind", "retry", "words", "note"}
  BY SMT DEF Plain
<1>2. DOMAIN scene = {"tier", "cpu", "memory", "active", "rate", "limit", "size", "kind", "retry", "words", "note"}
  BY <1>1 DEF LimitsInv
<1>3. \A f \in {"cpu", "memory", "active", "rate", "limit", "size"} : SceneValues[f] \cup {Plain[f]} \subseteq Int
  BY SMT DEF SceneValues, Plain, Unknown
<1>4. \A f \in {"cpu", "memory", "active", "rate", "limit", "size"} : scene[f] \in Int
  BY <1>1, <1>3 DEF LimitsInv, LimitsTypeOK
<1>5. Measured(scene)
  BY <1>4 DEF Measured
<1>6. ASSUME NEW cpu \in Int, NEW r, r = [scene EXCEPT !.cpu = cpu]
      PROVE  SameWorkflow(scene, r) /\ Measured(r) /\ r.cpu = cpu /\ r.rate = scene.rate
  BY <1>2, <1>5, <1>6 DEF SameWorkflow, Measured
<1>7. ASSUME NEW rate \in Int, NEW r, r = [scene EXCEPT !.rate = rate]
      PROVE  SameWorkflow(scene, r) /\ Measured(r) /\ r.rate = rate /\ r.cpu = scene.cpu /\ r.memory = scene.memory
  BY <1>2, <1>5, <1>7 DEF SameWorkflow, Measured
<1>8. SceneValues.cpu \subseteq Int /\ SceneValues.rate \subseteq Int
  BY <1>3
<1> QED
  BY <1>5, <1>6, <1>7, <1>8

LEMMA LimitsInvSound == LimitsInv => LimitsSound
<1> SUFFICES ASSUME LimitsInv PROVE LimitsSound
  OBVIOUS
<1>1. TiersClamp
  BY AllClampsHold DEF TiersClamp
<1>2. Measured(scene)
  BY ScenesAreMeasured
<1>3. NoneRushesIn
  <2> SUFFICES ASSUME SafeToExecute(scene), RecommendedDelay(scene) = 0, scene.cpu # Unknown
               PROVE  scene.cpu <= 80 /\ scene.memory <= 80 /\ scene.active <= 50
    BY DEF NoneRushesIn
  <2>1. scene.cpu <= 95 /\ scene.memory <= 95
    BY DEF SafeToExecute
  <2>2. scene.cpu \notin 81 .. 95 /\ scene.memory \notin 81 .. 95 /\ ~(scene.active > 50)
    BY DEF RecommendedDelay
  <2> QED
    BY <1>2, <2>1, <2>2 DEF Measured
<1>4. GuessesDoNotSteer
  <2> SUFFICES ASSUME IntentOf(scene).confidence = "low"
               PROVE  Resolve(scene, IntentOf(scene).intent) = Resolve(scene, "unknown")
    BY DEF GuessesDoNotSteer
  <2>1. IntentOf(scene).intent # "data-pipeline"
    BY GuessesAreModest
  <2> QED
    BY <2>1 DEF Resolve
<1>5. PressureIsHeeded
  <2>1. ASSUME NEW cpu \in SceneValues.cpu, cpu > scene.cpu
        PROVE  /\ Concurrent([scene EXCEPT !.cpu = cpu]) <= Max({3, Concurrent(scene)})
               /\ scene.cpu > 80 => Concurrent([scene EXCEPT !.cpu = cpu]) <= Concurrent(scene)
    <3> DEFINE r == [scene EXCEPT !.cpu = cpu]
    <3>1. SameWorkflow(scene, r) /\ Measured(r) /\ r.cpu = cpu /\ r.rate = scene.rate
      BY ScenesAreMeasured
    <3> HIDE DEF r
    <3>2. /\ r.cpu > 80 => Concurrent(r) \in 1 .. 3
          /\ r.cpu <= 80 => Concurrent(r) = Concurrent(scene)
          /\ scene.cpu > 80 => Concurrent(r) <= Concurrent(scene)
      BY <1>2, <2>1, <3>1, LoadIsHeeded
    <3>3. Concurrent(scene) \in Int
      BY <1>2, ConcurrencyIsInt
    <3>4. Max({3, Concurrent(scene)}) = IF 3 <= Concurrent(scene) THEN Concurrent(scene) ELSE 3
      BY <3>3, TheLarger
    <3>5. Concurrent(r) <= Max({3, Concurrent(scene)})
      BY <3>1, <3>2, <3>3, <3>4 DEF Measured
    <3> QED
      BY <3>2, <3>5 DEF r
  <2>2. scene.cpu > 90 => Resolve(scene, IntentOf(scene).intent).name = "sequential"
    BY <1>2 DEF Resolve, ForHighLoad, Strategy, Measured
  <2>3. ASSUME NEW rate \in SceneValues.rate \ {0}, rate < scene.rate
        PROVE  /\ Concurrent([scene EXCEPT !.rate = rate]) <= Max({2, Concurrent(scene)})
               /\ \/ Resolve([scene EXCEPT !.rate = rate], IntentOf(scene).intent).retries
                       >= Resolve(scene, IntentOf(scene).intent).retries
                  \/ RequiresSafeMode(scene)
    <3> DEFINE r == [scene EXCEPT !.rate = rate]
    <3>1. SameWorkflow(scene, r) /\ Measured(r) /\ r.rate = rate /\ r.cpu = scene.cpu /\ r.memory = scene.memory
      BY ScenesAreMeasured
    <3>2. 0 < rate
      BY SMT DEF SceneValues
    <3> HIDE DEF r
    <3>3. /\ Concurrent(r) = Concurrent(scene) \/ Concurrent(r) \in 1 .. 2
          /\ \A intent : \/ Resolve(r, intent).retries >= Resolve(scene, intent).retries
                        \/ RequiresSafeMode(scene)
      BY <1>2, <2>3, <3>1, <3>2, RecordIsHeeded
    <3>4. Concurrent(scene) \in Int
      BY <1>2, ConcurrencyIsInt
    <3>5. Max({2, Concurrent(scene)}) = IF 2 <= Concurrent(scene) THEN Concurrent(scene) ELSE 2
      BY <3>4, TheLarger
    <3>6. Concurrent(r) <= Max({2, Concurrent(scene)})
      BY <3>3, <3>4, <3>5
    <3> QED
      BY <3>3, <3>6 DEF r
  <2> QED
    BY <2>1, <2>2, <2>3 DEF PressureIsHeeded
<1> QED
  BY <1>1, <1>3, <1>4, <1>5 DEF LimitsSound

\* Whatever is asked for, measured and remembered: no tier gives more than it
\* says, a busier machine or a worse record makes no run more parallel, and a
\* guess does not steer (ExecutionLimits, IntentAnalyzer,
\* ExecutionStrategyResolver, ExecutionStrategyGuard).
THEOREM LimitsAreSound == LimitsSpec => []LimitsSound
<1>1. LimitsSpec => []LimitsInv
  BY LimitsInitOK, LimitsStep, PTL DEF LimitsSpec
<1> QED
  BY <1>1, LimitsInvSound, PTL

-----------------------------------------------------------------------------
(***************************************************************************)
(* What expressions become: of a chain the first term that does not give   *)
(* way, or the last.                                                       *)
(***************************************************************************)
LEMMA OneTermIsTaken ==
  ASSUME NEW v, NEW t
  PROVE  EvaluateExpression(v, <<t>>) = TermValue(v, t)
<1> DEFINE terms == <<t>>
           GivesWay(i) == i < Len(terms) /\ TermValue(v, terms[i]) \in Falsy \cup {ThrowsError}
           IsTaken(i) == ~GivesWay(i) /\ \A j \in 1 .. i - 1 : GivesWay(j)
           taken == CHOOSE i \in 1 .. Len(terms) : IsTaken(i)
<1>1. Len(terms) = 1 /\ terms[1] = t /\ 1 .. Len(terms) = {1}
  OBVIOUS
<1>2. IsTaken(1)
  BY <1>1
<1>3. taken = 1
  <2> HIDE DEF IsTaken, terms
  <2> QED BY <1>1, <1>2
<1>4. EvaluateExpression(v, <<t>>) = TermValue(v, terms[taken])
  BY DEF EvaluateExpression
<1> QED
  <2> HIDE DEF taken, terms
  <2> QED BY <1>1, <1>3, <1>4

LEMMA OneOfTwoTermsIsTaken ==
  ASSUME NEW v, NEW t, NEW d
  PROVE  EvaluateExpression(v, <<t, d>>) =
           TermValue(v, IF TermValue(v, t) \in Falsy \cup {ThrowsError} THEN d ELSE t)
<1> DEFINE terms == <<t, d>>
           GivesWay(i) == i < Len(terms) /\ TermValue(v, terms[i]) \in Falsy \cup {ThrowsError}
           IsTaken(i) == ~GivesWay(i) /\ \A j \in 1 .. i - 1 : GivesWay(j)
           taken == CHOOSE i \in 1 .. Len(terms) : IsTaken(i)
<1>1. Len(terms) = 2 /\ terms[1] = t /\ terms[2] = d /\ 1 .. Len(terms) = {1, 2}
  OBVIOUS
<1>2. GivesWay(1) <=> TermValue(v, t) \in Falsy \cup {ThrowsError}
  BY <1>1
<1>3. ~GivesWay(2)
  BY <1>1
<1>4. EvaluateExpression(v, <<t, d>>) = TermValue(v, terms[taken])
  BY DEF EvaluateExpression
<1>5. taken = IF TermValue(v, t) \in Falsy \cup {ThrowsError} THEN 2 ELSE 1
  <2>1. IsTaken(1) <=> ~GivesWay(1)
    OBVIOUS
  <2>2. IsTaken(2) <=> GivesWay(1)
    <3>1. 1 .. 2 - 1 = {1}
      OBVIOUS
    <3> HIDE DEF GivesWay
    <3> QED BY <3>1, <1>3
  <2> HIDE DEF IsTaken, GivesWay, terms
  <2> QED BY <1>1, <1>2, <2>1, <2>2
<1> QED
  <2> HIDE DEF taken, terms
  <2> QED BY <1>1, <1>4, <1>5

LEMMA LiteralsAreValues ==
  ASSUME NEW v, NEW t \in Literals
  PROVE  TermValue(v, t) # ThrowsError
BY DEF Literals, TermValue, ThrowsError

LEMMA StepsThatHaveOutput ==
  ASSUME NEW v, outputMaps[v.map] \in [StepId -> Outputs], NEW id
  PROVE  /\ StepOutput(v, id) \in Outputs
         /\ id \in {s \in StepId : StepOutput(v, s) # Undefined} <=> StepOutput(v, id) # Undefined
BY DEF StepOutput, Outputs, Falsy, Undefined

LEMMA AllExpressionsSafe ==
  ASSUME ContextTypeOK
  PROVE  ExpressionsSafe
<1> DEFINE done == {s \in StepId : StepOutput(view, s) # Undefined}
<1> SUFFICES ASSUME NEW terms \in Expressions
             PROVE  /\ (Len(terms) = 2 /\ terms[2].form = "literal") => EvaluateExpression(view, terms) # ThrowsError
                    /\ TermValue(view, terms[1]) \notin Falsy \cup {ThrowsError} =>
                         EvaluateExpression(view, terms) = TermValue(view, terms[1])
                    /\ EvaluateExpression(view, terms) \in Falsy =>
                         EvaluateExpression(view, terms) = TermValue(view, Last(terms))
                    /\ terms[1].source = "steps" /\ terms[1].key # "none" /\ Len(terms) = 1 =>
                         (ReferencesRefused(terms, done) <=> EvaluateExpression(view, terms) = ThrowsError)
                    /\ Resolved(view, terms, FALSE, MaxDepth) \in {"text", "empty", ThrowsError}
                    /\ Resolved(view, terms, TRUE, 0) = Resolved(view, terms, TRUE, MaxDepth)
  BY DEF ExpressionsSafe
<1>0. Resolved(view, terms, TRUE, 0) = Resolved(view, terms, TRUE, MaxDepth)
  BY DEF Resolved, MaxDepth
<1>1. Resolved(view, terms, FALSE, MaxDepth) \in {"text", "empty", ThrowsError}
  BY DEF Resolved, MaxDepth
<1>2. CASE \E t \in Terms : terms = <<t>>
  <2> PICK t \in Terms : terms = <<t>>
    BY <1>2
  <2>1. Len(terms) = 1 /\ terms[1] = t /\ Last(terms) = t
    BY DEF Last
  <2>2. EvaluateExpression(view, terms) = TermValue(view, t)
    BY OneTermIsTaken
  <2>3. ASSUME t.source = "steps", t.key # "none"
        PROVE  ReferencesRefused(terms, done) <=> TermValue(view, t) = ThrowsError
    <3>1. t \in References /\ t.form = "reference"
      BY <2>3 DEF Terms, References, Functions
    <3>2. TermValue(view, t) = Lookup(view, t)
      BY <3>1 DEF TermValue
    <3>3. outputMaps[view.map] \in [StepId -> Outputs]
      BY DEF ContextTypeOK, OwnMap
    <3>4. /\ StepOutput(view, t.key) \in Outputs
          /\ t.key \in done <=> StepOutput(view, t.key) # Undefined
      BY <3>3, StepsThatHaveOutput
    <3>5. Lookup(view, t) = ThrowsError <=> StepOutput(view, t.key) = Undefined
      BY <2>3, <3>4 DEF Lookup, Outputs, Falsy, Undefined, ThrowsError
    <3>6. ReferencesRefused(terms, done) <=> t.key \notin done
      BY <2>1, <2>3, <3>1 DEF ReferencesRefused
    <3> QED BY <3>2, <3>4, <3>5, <3>6
  <2>4. TermValue(view, t) \notin Falsy \cup {ThrowsError} => EvaluateExpression(view, terms) = TermValue(view, t)
    BY <2>2
  <2>5. EvaluateExpression(view, terms) \in Falsy => EvaluateExpression(view, terms) = TermValue(view, t)
    BY <2>2 DEF Falsy
  <2>6. Len(terms) # 2
    BY <2>1
  <2> HIDE DEF done
  <2> QED BY <1>0, <1>1, <2>1, <2>2, <2>3, <2>4, <2>5, <2>6, Zenon
<1>3. CASE \E t \in Terms : \E d \in Terms \cup Literals : terms = <<t, d>>
  <2> PICK t \in Terms, d \in Terms \cup Literals : terms = <<t, d>>
    BY <1>3
  <2>1. Len(terms) = 2 /\ terms[1] = t /\ terms[2] = d /\ Last(terms) = d
    BY DEF Last
  <2>2. EvaluateExpression(view, terms) =
          TermValue(view, IF TermValue(view, t) \in Falsy \cup {ThrowsError} THEN d ELSE t)
    BY OneOfTwoTermsIsTaken
  <2>3. ASSUME d.form = "literal" PROVE EvaluateExpression(view, terms) # ThrowsError
    <3>1. d \in Literals
      BY <2>3 DEF Terms, References, Functions
    <3>2. TermValue(view, d) # ThrowsError
      BY <3>1, LiteralsAreValues
    <3> QED BY <2>2, <3>2
  <2>4. TermValue(view, t) \notin Falsy \cup {ThrowsError} => EvaluateExpression(view, terms) = TermValue(view, t)
    BY <2>2
  <2>5. EvaluateExpression(view, terms) \in Falsy => EvaluateExpression(view, terms) = TermValue(view, d)
    BY <2>2 DEF Falsy
  <2>6. Len(terms) # 1
    BY <2>1
  <2> HIDE DEF done
  <2> QED BY <1>0, <1>1, <2>1, <2>2, <2>3, <2>4, <2>5, <2>6, Zenon
<1>4. (\E t \in Terms : terms = <<t>>) \/ (\E t \in Terms : \E d \in Terms \cup Literals : terms = <<t, d>>)
  <2>1. terms \in {<<t>> : t \in Terms} \/ terms \in {<<t, d>> : t \in Terms, d \in Terms \cup Literals}
    BY DEF Expressions
  <2>2. ASSUME terms \in {<<t>> : t \in Terms} PROVE \E t \in Terms : terms = <<t>>
    BY <2>2
  <2>3. ASSUME terms \in {<<t, d>> : t \in Terms, d \in Terms \cup Literals}
        PROVE  \E t \in Terms : \E d \in Terms \cup Literals : terms = <<t, d>>
    BY <2>3
  <2> QED BY <2>1, <2>2, <2>3
<1> QED
  <2> HIDE DEF done
  <2> QED BY <1>2, <1>3, <1>4, Zenon

-----------------------------------------------------------------------------
(***************************************************************************)
(* The store: as long as nothing was snapshot the first map is the store's *)
(* own and attempts only grow; a snapshot that was taken has an attempt,   *)
(* which the initial one has not.                                          *)
(***************************************************************************)
ContextInv ==
  /\ outputMaps \in Seq([StepId -> Outputs]) /\ OwnMap >= 1
  /\ storeOps \in Nat
  /\ attemptNo \in 1 .. storeOps + 1
  /\ view \in [map : 1 .. OwnMap, attempt : 1 .. storeOps + 1]
  /\ snapshot \in [outputs : [StepId -> Outputs], attempt : 0 .. storeOps + 1]
  /\ snapshot.attempt = 0 => snapshot = NoSnapshot
  /\ snapshot = NoSnapshot => view.map = OwnMap /\ view.attempt <= attemptNo
  /\ restored \in BOOLEAN
  /\ restored => snapshot = [outputs |-> outputMaps[OwnMap], attempt |-> attemptNo]
  /\ storeOps <= MaxStoreOps

LEMMA NothingIsOutput == NoOutputs \in [StepId -> Outputs] /\ NoSnapshot.attempt = 0 /\ NoSnapshot.outputs = NoOutputs
BY DEF NoOutputs, NoSnapshot, Outputs, Falsy

LEMMA ContextInitOK == ContextInit => ContextInv
<1> SUFFICES ASSUME ContextInit PROVE ContextInv
  OBVIOUS
<1>1. outputMaps \in Seq([StepId -> Outputs]) /\ OwnMap = 1
  BY NothingIsOutput DEF ContextInit, OwnMap
<1>2. snapshot \in [outputs : [StepId -> Outputs], attempt : 0 .. 1]
  BY NothingIsOutput DEF ContextInit, NoSnapshot
<1>3. view \in [map : 1 .. OwnMap, attempt : 1 .. 1] /\ view.map = 1 /\ view.attempt = 1
  BY <1>1 DEF ContextInit
<1> QED
  <2>1. storeOps + 1 = 1 /\ storeOps \in Nat /\ storeOps <= MaxStoreOps /\ attemptNo = 1 /\ restored = FALSE
    BY ContextAssumption DEF ContextInit
  <2>2. snapshot = NoSnapshot
    BY DEF ContextInit
  <2>3. OwnMap >= 1 /\ view.map = OwnMap /\ view.attempt <= attemptNo
    BY <1>1, <1>3, <2>1
  <2>4. snapshot.attempt = 0 => snapshot = NoSnapshot
    BY <2>2
  <2>5. attemptNo \in 1 .. storeOps + 1
    BY <2>1
  <2>6. /\ view \in [map : 1 .. OwnMap, attempt : 1 .. storeOps + 1]
        /\ snapshot \in [outputs : [StepId -> Outputs], attempt : 0 .. storeOps + 1]
    BY <1>2, <1>3, <2>1
  <2> QED
    BY <1>1, <2>1, <2>3, <2>4, <2>5, <2>6 DEF ContextInv

LEMMA OutputMapsGrow ==
  ASSUME NEW T, NEW s \in Seq(T), NEW m \in T, Len(s) >= 1
  PROVE  /\ [s EXCEPT ![Len(s)] = m] \in Seq(T) /\ Len([s EXCEPT ![Len(s)] = m]) = Len(s)
         /\ Append(s, m) \in Seq(T) /\ Len(Append(s, m)) = Len(s) + 1 /\ Append(s, m)[Len(s) + 1] = m
OBVIOUS

LEMMA ContextStep == ContextInv /\ [ContextNext]_contextVars => ContextInv'
<1> SUFFICES ASSUME ContextInv, [ContextNext]_contextVars PROVE ContextInv'
  OBVIOUS
<1> USE DEF OwnMap
<1>0. CASE UNCHANGED contextVars
  BY <1>0 DEF contextVars, ContextInv
<1>a. ASSUME CountsStoreOp
      PROVE  /\ storeOps' \in Nat /\ storeOps' = storeOps + 1 /\ storeOps' <= MaxStoreOps
             /\ 1 .. storeOps + 1 \subseteq 1 .. storeOps' + 1
             /\ 0 .. storeOps + 1 \subseteq 0 .. storeOps' + 1
  BY <1>a, ContextAssumption DEF CountsStoreOp, ContextInv
<1>b. ASSUME CountsStoreOp
      PROVE  /\ view \in [map : 1 .. OwnMap, attempt : 1 .. storeOps' + 1]
             /\ snapshot \in [outputs : [StepId -> Outputs], attempt : 0 .. storeOps' + 1]
             /\ attemptNo \in 1 .. storeOps' + 1
  BY <1>a, <1>b DEF ContextInv
<1>1. ASSUME CountsStoreOp, NEW s \in StepId, SetStepOutput(s) PROVE ContextInv'
  <2> PICK value \in Outputs : outputMaps' = [outputMaps EXCEPT ![OwnMap][s] = value]
    BY <1>1 DEF SetStepOutput
  <2> DEFINE m == [outputMaps[Len(outputMaps)] EXCEPT ![s] = value]
  <2>1. m \in [StepId -> Outputs]
    BY DEF ContextInv
  <2>2. outputMaps' = [outputMaps EXCEPT ![Len(outputMaps)] = m]
    OBVIOUS
  <2>3. outputMaps' \in Seq([StepId -> Outputs]) /\ Len(outputMaps') = Len(outputMaps)
    <3> HIDE DEF m
    <3> QED BY <2>1, <2>2, OutputMapsGrow DEF ContextInv
  <2> QED
    BY <1>1, <1>a, <1>b, <2>3 DEF ContextInv, SetStepOutput
<1>2. ASSUME CountsStoreOp, ClearStepOutputs PROVE ContextInv'
  <2>1. outputMaps' \in Seq([StepId -> Outputs]) /\ Len(outputMaps') = Len(outputMaps)
    BY <1>2, NothingIsOutput, OutputMapsGrow DEF ClearStepOutputs, ContextInv
  <2> QED
    BY <1>2, <1>a, <1>b, <2>1 DEF ContextInv, ClearStepOutputs
<1>3. ASSUME CountsStoreOp, IncrementAttempt PROVE ContextInv'
  <2>1. attemptNo' \in 1 .. storeOps' + 1 /\ attemptNo' = attemptNo + 1
    BY <1>3, <1>a DEF ContextInv, IncrementAttempt
  <2>2. snapshot = NoSnapshot => view.map = OwnMap /\ view.attempt <= attemptNo'
    BY <2>1 DEF ContextInv
  <2> QED
    BY <1>3, <1>a, <1>b, <2>1, <2>2 DEF ContextInv, IncrementAttempt
<1>4. ASSUME CountsStoreOp, GetResolutionContext PROVE ContextInv'
  <2>1. view' = [map |-> Len(outputMaps), attempt |-> attemptNo]
    BY <1>4 DEF GetResolutionContext
  <2>2. view' \in [map : 1 .. OwnMap, attempt : 1 .. storeOps' + 1]
    BY <1>4, <1>b, <2>1 DEF ContextInv
  <2>3. view'.map = Len(outputMaps) /\ view'.attempt = attemptNo
    BY <2>1
  <2> QED
    BY <1>4, <1>a, <1>b, <2>2, <2>3 DEF ContextInv, GetResolutionContext
<1>5. ASSUME CountsStoreOp, TakeSnapshot PROVE ContextInv'
  <2>1. snapshot' = [outputs |-> outputMaps[Len(outputMaps)], attempt |-> attemptNo]
    BY <1>5 DEF TakeSnapshot
  <2>2. outputMaps[Len(outputMaps)] \in [StepId -> Outputs]
    BY DEF ContextInv
  <2>3. snapshot' \in [outputs : [StepId -> Outputs], attempt : 0 .. storeOps' + 1]
    BY <1>5, <1>b, <2>1, <2>2 DEF ContextInv
  <2>4. snapshot'.attempt # 0 /\ snapshot' # NoSnapshot
    BY <2>1, NothingIsOutput DEF ContextInv
  <2> QED
    BY <1>5, <1>a, <1>b, <2>1, <2>3, <2>4 DEF ContextInv, TakeSnapshot
<1>6. ASSUME CountsStoreOp, Restore PROVE ContextInv'
  <2>1. snapshot.outputs \in [StepId -> Outputs] /\ snapshot.attempt \in 1 .. storeOps + 1 /\ snapshot # NoSnapshot
    BY <1>6 DEF ContextInv, Restore
  <2>2. /\ outputMaps' \in Seq([StepId -> Outputs]) /\ Len(outputMaps') = Len(outputMaps) + 1
        /\ outputMaps'[Len(outputMaps')] = snapshot.outputs
    <3>1. outputMaps' = Append(outputMaps, snapshot.outputs)
      BY <1>6 DEF Restore
    <3> QED BY <2>1, <3>1, OutputMapsGrow DEF ContextInv
  <2>3. view' \in [map : 1 .. OwnMap', attempt : 1 .. storeOps' + 1]
    <3>1. view' = view /\ 1 .. Len(outputMaps) \subseteq 1 .. Len(outputMaps')
      BY <1>6, <2>2 DEF Restore, ContextInv
    <3> QED BY <1>6, <1>b, <3>1
  <2>4. snapshot = [outputs |-> snapshot.outputs, attempt |-> snapshot.attempt]
    BY DEF ContextInv
  <2> QED
    BY <1>6, <1>a, <1>b, <2>1, <2>2, <2>3, <2>4 DEF ContextInv, Restore
<1> QED
  BY <1>0, <1>1, <1>2, <1>3, <1>4, <1>5, <1>6 DEF ContextNext

LEMMA ContextInvSound == ContextInv => ContextTypeOK /\ ExpressionsSafe /\ RestoreIsExact
<1> SUFFICES ASSUME ContextInv PROVE ContextTypeOK /\ ExpressionsSafe /\ RestoreIsExact
  OBVIOUS
<1>1. ContextTypeOK
  BY ContextAssumption DEF ContextInv, ContextTypeOK
<1>2. RestoreIsExact
  BY DEF ContextInv, RestoreIsExact
<1> QED
  BY <1>1, <1>2, AllExpressionsSafe

\* Whatever is set, cleared, snapshot and restored: an expression becomes the
\* value of its first term that does not give way, a reference that was
\* validated has a value, and a store that restored is its snapshot
\* (evaluateExpression, validateStepReferences, restore).
THEOREM ContextsAreSound == ContextSpec => [](ExpressionsSafe /\ RestoreIsExact)
<1>1. ContextSpec => []ContextInv
  BY ContextInitOK, ContextStep, PTL DEF ContextSpec
<1>2. ContextInv => ExpressionsSafe /\ RestoreIsExact
  BY ContextInvSound
<1> QED
  BY <1>1, <1>2, PTL
=============================================================================
