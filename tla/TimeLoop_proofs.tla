--------------------------- MODULE TimeLoop_proofs ---------------------------
(***************************************************************************)
(* Proofs about TimeLoop, for any number of ranks, any settings and any      *)
(* local time steps: the clocks stay within the run, the ranks always meet   *)
(* in the same operation, and the outputs are written when they are due.     *)
(***************************************************************************)
EXTENDS TimeLoop, CommonFacts

----------------------------------------------------------------------------
(* The clock stays within the run                                           *)

Stages == {"output", "saving", "checkpointing", "amr", "adapting",
           "balance", "balancing", "dt", "advance", "done"}

(* Before an iteration, while its outputs are asked for and written.        *)
AtOutputs == {"output", "saving", "checkpointing"}

(* The body of next_iteration: entered only by a run that is not finished.  *)
InIteration(r) == pc[r] \in {"amr", "adapting", "balance", "balancing", "dt", "advance"}

(* What bounds the clock and the counters of rank r.                        *)
Within(r) ==
    /\ InIteration(r) => ~ finished(r)
    /\ pc[r] = "advance" => t[r] + dt[r] <= config.tEnd
    /\ times_saved[r] <= iteration[r]
    /\ pc[r] \in AtOutputs /\ iteration[r] > 0 => times_saved[r] < iteration[r]
    /\ times_saved_restart[r] <= iteration[r] + 1
    /\ pc[r] \in AtOutputs => times_saved_restart[r] <= iteration[r]
    /\ pc[r] = "done" => finished(r)
    /\ iteration[r] <= t[r] - config.tBegin

ClockInv == TypeOK /\ \A r \in Ranks : Within(r)

----------------------------------------------------------------------------
(* The ranks follow one trajectory                                          *)

(* Where a rank is, and all its decisions depend on.                        *)
Clocks == [pc : Stages, t : Int, dt : Int, iteration : Int,
           times_saved : Int, times_saved_restart : Int]

Clock(r) == [pc |-> pc[r], t |-> t[r], dt |-> dt[r], iteration |-> iteration[r],
             times_saved |-> times_saved[r], times_saved_restart |-> times_saved_restart[r]]

(* The decisions of TimeLoop, of a clock c under the settings g.            *)
OverAt(g, c, n, N) == (c.t - g.tBegin) * N > n * (g.tEnd - g.tBegin)

FinishedAt(g, c) == c.t >= g.tEnd \/ c.iteration >= MaxIterations

SaveAt(g, c) ==
    \/ g.nOutput < 0
    \/ /\ g.nOutput > 0
       /\ \/ c.iteration = 0
          \/ g.output_policy = "EQUISPACED" /\ OverAt(g, c, c.times_saved + 1, g.nOutput)
          \/ /\ g.output_policy = "PREDEFINED"
             /\ c.times_saved < Len(g.output_times)
             /\ c.t - g.tBegin > g.output_times[c.times_saved + 1]
          \/ c.t = g.tEnd

CheckpointAt(g, c) ==
    IF g.all_outputs_are_checkpoint THEN SaveAt(g, c)
    ELSE /\ g.max_checkpoint_count > 0
         /\ \/ OverAt(g, c, c.times_saved_restart + 1, g.max_checkpoint_count)
            \/ c.t = g.tEnd

AmrAt(c) == CycleFrequency > 0 /\ c.iteration > 0 /\ c.iteration % CycleFrequency = 0

BalanceAt(c) == c.iteration # 0 /\ c.iteration % BalanceFrequency = 0

(* The stages a rank leaves without the others.                             *)
Alone(g, stage) ==
    \/ stage \in {"output", "amr", "balance", "advance"}
    \/ stage = "dt" /\ g.constant_dt > 0

(* The one clock a rank goes to from such a stage.                          *)
Onward(g, c) ==
    CASE c.pc = "output" ->
            [c EXCEPT !.pc = IF SaveAt(g, c) THEN "saving"
                             ELSE IF CheckpointAt(g, c) THEN "checkpointing"
                             ELSE IF FinishedAt(g, c) THEN "done" ELSE "amr"]
      [] c.pc = "amr" -> [c EXCEPT !.pc = IF AmrAt(c) THEN "adapting" ELSE "balance"]
      [] c.pc = "balance" -> [c EXCEPT !.pc = IF BalanceAt(c) THEN "balancing" ELSE "dt"]
      [] c.pc = "dt" ->
            [c EXCEPT !.dt = IF c.t + g.constant_dt > g.tEnd THEN g.tEnd - c.t ELSE g.constant_dt,
                      !.pc = "advance"]
      [] c.pc = "advance" ->
            [c EXCEPT !.iteration = c.iteration + 1, !.t = c.t + c.dt, !.pc = "output"]
      [] OTHER -> c

(* A rank at clock a that goes on alone comes to clock b: b is in every set *)
(* of clocks that holds a and is closed under the steps taken alone.        *)
Closed(g, C) == \A c \in C : Alone(g, c.pc) => Onward(g, c) \in C

Reaches(g, a, b) == \A C \in SUBSET Clocks : a \in C /\ Closed(g, C) => b \in C

(* Of two ranks, one is where the other comes to by itself.                 *)
InStep ==
    \A r, s \in Ranks :
        Reaches(config, Clock(r), Clock(s)) \/ Reaches(config, Clock(s), Clock(r))

----------------------------------------------------------------------------
(* Outputs                                                                  *)

(* Time b is past the k-th time due under the settings g.                   *)
Passed(g, b, k) ==
    IF g.output_policy = "PREDEFINED"
    THEN k <= Len(g.output_times) /\ b - g.tBegin > g.output_times[k]
    ELSE (b - g.tBegin) * g.nOutput > k * (g.tEnd - g.tBegin)

(* Predefined times are compared with the time since the beginning of the   *)
(* run, and are times of the run themselves: they agree if it begins at 0.  *)
FromZero(g) == g.output_policy = "PREDEFINED" => g.tBegin = 0

(* No checkpoint between two outputs: all of them go with an output, or the *)
(* only one is due at the end of the run.                                   *)
NoneBetween(g) == g.all_outputs_are_checkpoint \/ g.max_checkpoint_count <= 1

(* The times rank r asked at go up to its clock; a rank on its way to write *)
(* has a reason to; and the last step is written.                           *)
Outputs(r) ==
    /\ \A a \in asked[r] : a <= t[r] /\ (pc[r] = "output" => a < t[r])
    /\ pc[r] # "output" => t[r] \in asked[r]
    /\ pc[r] = "saving" /\ config.nOutput > 0 /\ iteration[r] > 0 =>
          t[r] = config.tEnd \/ Passed(config, t[r], times_saved[r] + 1)
    /\ pc[r] \notin {"output", "saving"} /\ t[r] = config.tEnd /\ config.nOutput # 0 =>
          t[r] \in outputs[r]

OutputInv ==
    /\ ClockInv
    /\ asked \in [Ranks -> SUBSET Int]
    /\ \A r \in Ranks : Outputs(r)

(* Of the times A, a is the first after a due one.                          *)
First(A, a) ==
    \E n \in 1 .. config.nOutput :
        Passed(config, a, n) /\ \A b \in A : Passed(config, b, n) => a <= b

(* What rank r should have written, but for what it is about to write.      *)
Skipped(r) ==
    {a \in asked[r] \ outputs[r] : (pc[r] = "saving" => a # t[r]) /\ First(asked[r], a)}

(* There is a pure checkpoint for each time that was skipped; and one for   *)
(* each due time that is counted but was not past when the rank last asked: *)
(* these are what will be skipped.                                          *)
Debts(r) ==
    /\ IsFiniteSet(asked[r]) /\ IsFiniteSet(checkpoints[r])
    /\ \A c \in checkpoints[r] : c <= t[r] /\ (pc[r] \in AtOutputs => c # t[r])
    /\ config.nOutput > 0 =>
          /\ NoneBetween(config) => checkpoints[r] = {} /\ pc[r] # "checkpointing"
          /\ Cardinality(Skipped(r)) <= Cardinality(checkpoints[r])
          /\ config.tEnd \notin asked[r] =>
                \A n \in 1 .. times_saved[r] : (\A b \in asked[r] : ~ Passed(config, b, n)) =>
                    Cardinality(Skipped(r)) + times_saved[r] + 1 <= Cardinality(checkpoints[r]) + n

DebtInv ==
    /\ OutputInv
    /\ checkpoints \in [Ranks -> SUBSET Int]
    /\ \A r \in Ranks : Debts(r)

(* The outputs of rank r that its beginning or its end do not explain.      *)
Between(r) == outputs[r] \ {config.tBegin, config.tEnd}

(* Each of them has been counted, and the due time of that rank was past.   *)
Counted(r) ==
    /\ IsFiniteSet(outputs[r])
    /\ iteration[r] = 0 => t[r] = config.tBegin
    /\ Cardinality(Between(r)) <= times_saved[r]
    /\ config.nOutput > 0 /\ Cardinality(Between(r)) > 0 =>
          Passed(config, t[r], Cardinality(Between(r)))
    /\ config.nOutput = 0 => outputs[r] = {} /\ pc[r] # "saving"

CountInv == OutputInv /\ \A r \in Ranks : Counted(r)

----------------------------------------------------------------------------
(* Proofs: the clock stays within the run                                   *)

(* What the settings in force are.                                          *)
LEMMA SettingFacts ==
  ASSUME config \in Settings
  PROVE  /\ config.tBegin \in Nat /\ config.tEnd \in Nat /\ config.tBegin < config.tEnd
         /\ config.constant_dt \in Nat /\ config.nOutput \in Int
BY TimeLoopAssumption DEF IsSetting

(* The reduction of the time step gives one of the steps found locally.     *)
LEMMA MinOfSteps ==
  ASSUME NEW d \in [Ranks -> LocalSteps]
  PROVE  Min({d[s] : s \in Ranks}) \in Nat \ {0}
<1> DEFINE S == {d[s] : s \in Ranks}
<1>1. S \subseteq LocalSteps /\ LocalSteps \subseteq Nat \ {0}
  BY TimeLoopAssumption
<1>2. S # {}
  <2>1. 0 \in Ranks
    BY TimeLoopAssumption DEF Ranks
  <2>2. QED
    BY <2>1
<1> HIDE DEF S
<1>3. \E x \in S : \A y \in S : x <= y
  BY <1>1, <1>2, LeastNat
<1>4. Min(S) \in S
  BY <1>3 DEF Min
<1>5. QED
  BY <1>1, <1>4 DEF S

(* A clipped step is a step, and does not reach beyond the end of the run.  *)
LEMMA ClippedFits ==
  ASSUME ClockInv, NEW r \in Ranks, ~ finished(r), NEW d \in Nat \ {0}
  PROVE  Clipped(r, d) \in 1 .. config.tEnd /\ t[r] + Clipped(r, d) <= config.tEnd
<1>1. config \in Settings /\ t[r] \in config.tBegin .. config.tEnd /\ ~ (t[r] >= config.tEnd)
  BY DEF ClockInv, TypeOK, finished
<1>2. config.tBegin \in Nat /\ config.tEnd \in Nat
  BY <1>1, SettingFacts
<1>3. QED
  BY <1>1, <1>2 DEF Clipped

(* Initially the clock stands at the beginning.                             *)
LEMMA ClockInit == Init => ClockInv
<1> SUFFICES ASSUME Init PROVE ClockInv
  OBVIOUS
<1>1. config.tBegin \in Nat /\ config.tEnd \in Nat /\ config.tBegin < config.tEnd
  BY SettingFacts DEF Init
<1>2. MaxIterations \in Nat
  BY TimeLoopAssumption
<1>3. TypeOK
  BY <1>1, <1>2 DEF Init, TypeOK
<1>4. ASSUME NEW r \in Ranks PROVE Within(r)
  BY <1>1 DEF Init, Within, InIteration, AtOutputs
<1>5. QED
  BY <1>3, <1>4 DEF ClockInv

(* A decision moves only the rank, and enters an iteration only if the run  *)
(* is not finished.                                                         *)
LEMMA ClockDecide ==
  ASSUME ClockInv, NEW r \in Ranks,
         DecideOutput(r) \/ DecideAmrCycle(r) \/ DecideLoadBalancing(r)
  PROVE  ClockInv'
<1>1. /\ UNCHANGED <<config, t, dt, iteration, times_saved, times_saved_restart>>
      /\ \E stage \in Stages :
            /\ pc' = [pc EXCEPT ![r] = stage]
            /\ \/ pc[r] = "output" /\ stage \in {"saving", "checkpointing"}
               \/ pc[r] = "output" /\ stage = "done" /\ finished(r)
               \/ pc[r] = "output" /\ stage = "amr" /\ ~ finished(r)
               \/ pc[r] = "amr" /\ stage \in {"adapting", "balance"}
               \/ pc[r] = "balance" /\ stage \in {"balancing", "dt"}
  <2>1. CASE DecideOutput(r)
    BY <2>1 DEF DecideOutput, AfterOutputs, clock, saves, Stages
  <2>2. CASE DecideAmrCycle(r)
    BY <2>2 DEF DecideAmrCycle, Decide, clock, saves, Stages
  <2>3. CASE DecideLoadBalancing(r)
    BY <2>3 DEF DecideLoadBalancing, Decide, clock, saves, Stages
  <2>4. QED
    BY <2>1, <2>2, <2>3
<1>2. TypeOK'
  BY <1>1 DEF ClockInv, TypeOK, Stages
<1>3. ASSUME NEW s \in Ranks PROVE Within(s)'
  <2>1. iteration[s] \in Nat /\ times_saved[s] \in Nat /\ times_saved_restart[s] \in Nat
        /\ pc \in [Ranks -> Stages]
    BY TimeLoopAssumption DEF ClockInv, TypeOK, Stages
  <2>2. Within(s) /\ (finished(s)' <=> finished(s))
    BY <1>1 DEF ClockInv, finished
  <2>3. CASE s = r
    BY <1>1, <2>1, <2>2, <2>3 DEF Within, InIteration, AtOutputs
  <2>4. CASE s # r
    BY <1>1, <2>1, <2>2, <2>4 DEF Within, InIteration, AtOutputs
  <2>5. QED
    BY <2>3, <2>4
<1>4. QED
  BY <1>2, <1>3 DEF ClockInv

(* The collective operations: a counter moves by one at most, in an         *)
(* iteration that has not moved it yet.                                     *)
LEMMA ClockCollective ==
  ASSUME ClockInv,
         save_solution(FALSE) \/ save_solution(TRUE) \/ do_amr_cycle \/ do_load_balancing
  PROVE  ClockInv'
<1> USE TimeLoopAssumption
<1>1. /\ pc \in [Ranks -> Stages] /\ config \in Settings
      /\ iteration \in [Ranks -> 0 .. MaxIterations]
      /\ times_saved \in [Ranks -> 0 .. MaxIterations]
      /\ times_saved_restart \in [Ranks -> 0 .. MaxIterations + 1]
      /\ \A r \in Ranks : Within(r)
  BY DEF ClockInv, TypeOK, Stages
<1>2. UNCHANGED <<config, t, dt, iteration>> /\ \A r \in Ranks : finished(r)' <=> finished(r)
  BY DEF save_solution, do_amr_cycle, do_load_balancing, clock, finished
<1>3. ASSUME NEW pure \in BOOLEAN, save_solution(pure)
      PROVE  ClockInv'
  <2>1. /\ \A r \in Ranks : pc[r] \in {"saving", "checkpointing"}
        /\ pc' = [r \in Ranks |-> IF finished(r) THEN "done" ELSE "amr"]
        /\ times_saved' = [r \in Ranks |-> times_saved[r] + IF iteration[r] > 0 THEN 1 ELSE 0]
        /\ times_saved_restart' = [r \in Ranks |->
               times_saved_restart[r] + IF should_do_checkpoint(r) THEN 1 ELSE 0]
    BY <1>3 DEF save_solution, save_solution_impl, Writing, AfterOutputs
  <2>2. times_saved' \in [Ranks -> 0 .. MaxIterations]
    BY <1>1, <2>1 DEF Within, AtOutputs
  <2>3. times_saved_restart' \in [Ranks -> 0 .. MaxIterations + 1]
    BY <1>1, <2>1 DEF Within, AtOutputs
  <2>4. TypeOK'
    BY <1>2, <2>1, <2>2, <2>3 DEF ClockInv, TypeOK
  <2>5. ASSUME NEW s \in Ranks PROVE Within(s)'
    <3>1. /\ times_saved'[s] \in {times_saved[s], times_saved[s] + 1}
          /\ times_saved'[s] = times_saved[s] + 1 => iteration[s] > 0
          /\ times_saved_restart'[s] \in {times_saved_restart[s], times_saved_restart[s] + 1}
          /\ pc[s] \in {"saving", "checkpointing"}
          /\ pc'[s] = IF finished(s) THEN "done" ELSE "amr"
      BY <1>1, <2>1
    <3>2. QED
      BY <1>1, <1>2, <3>1 DEF Within, InIteration, AtOutputs
  <2>6. QED
    BY <2>4, <2>5 DEF ClockInv
<1>4. CASE do_amr_cycle \/ do_load_balancing
  <2>1. /\ UNCHANGED <<times_saved, times_saved_restart>>
        /\ \/ (\A r \in Ranks : pc[r] = "adapting") /\ pc' = [r \in Ranks |-> "balance"]
           \/ (\A r \in Ranks : pc[r] = "balancing") /\ pc' = [r \in Ranks |-> "dt"]
    BY <1>4 DEF do_amr_cycle, do_load_balancing, Collective, saves
  <2>2. TypeOK'
    BY <1>2, <2>1 DEF ClockInv, TypeOK
  <2>3. ASSUME NEW s \in Ranks PROVE Within(s)'
    BY <1>1, <1>2, <2>1 DEF Within, InIteration, AtOutputs
  <2>4. QED
    BY <2>2, <2>3 DEF ClockInv
<1>5. QED
  BY <1>3, <1>4

(* The time step, reduced or constant, is positive and fits in the run.     *)
LEMMA ClockStep ==
  ASSUME ClockInv, reduce_dt \/ \E r \in Ranks : constant_dt(r)
  PROVE  ClockInv'
<1>1. /\ pc \in [Ranks -> Stages] /\ config \in Settings
      /\ dt \in [Ranks -> 1 .. config.tEnd]
      /\ \A r \in Ranks : Within(r)
  BY DEF ClockInv, TypeOK, Stages
<1>2. /\ UNCHANGED <<config, t, iteration, times_saved, times_saved_restart>>
      /\ \A r \in Ranks : finished(r)' <=> finished(r)
  BY DEF reduce_dt, constant_dt, saves, finished
<1>3. /\ dt' \in [Ranks -> 1 .. config.tEnd] /\ pc' \in [Ranks -> Stages]
      /\ \A s \in Ranks :
            \/ pc'[s] = pc[s] /\ dt'[s] = dt[s]
            \/ pc[s] = "dt" /\ pc'[s] = "advance" /\ t[s] + dt'[s] <= config.tEnd
  <2>1. CASE reduce_dt
    <3>1. PICK d \in [Ranks -> LocalSteps] :
              dt' = [r \in Ranks |-> Clipped(r, Min({d[s] : s \in Ranks}))]
      BY <2>1 DEF reduce_dt
    <3>2. (\A r \in Ranks : pc[r] = "dt") /\ pc' = [r \in Ranks |-> "advance"]
      BY <2>1 DEF reduce_dt, Collective
    <3>3. ASSUME NEW s \in Ranks
          PROVE  dt'[s] \in 1 .. config.tEnd /\ t[s] + dt'[s] <= config.tEnd
      <4>1. ~ finished(s)
        BY <1>1, <3>2 DEF Within, InIteration, AtOutputs
      <4>2. dt'[s] = Clipped(s, Min({d[q] : q \in Ranks}))
        BY <3>1
      <4>3. QED
        BY <4>1, <4>2, MinOfSteps, ClippedFits
    <3>4. QED
      BY <3>1, <3>2, <3>3 DEF Stages
  <2>2. ASSUME NEW r \in Ranks, constant_dt(r)
        PROVE  <1>3
    <3>1. /\ config.constant_dt > 0 /\ pc[r] = "dt"
          /\ dt' = [dt EXCEPT ![r] = Clipped(r, config.constant_dt)]
          /\ pc' = [pc EXCEPT ![r] = "advance"]
      BY <2>2 DEF constant_dt
    <3>2. config.constant_dt \in Nat \ {0}
      BY <1>1, <3>1, SettingFacts
    <3>3. ~ finished(r)
      BY <1>1, <3>1 DEF Within, InIteration, AtOutputs
    <3>4. Clipped(r, config.constant_dt) \in 1 .. config.tEnd
          /\ t[r] + Clipped(r, config.constant_dt) <= config.tEnd
      BY <3>2, <3>3, ClippedFits
    <3>5. QED
      BY <1>1, <3>1, <3>4 DEF Stages
  <2>3. QED
    BY <2>1, <2>2
<1>4. TypeOK'
  BY <1>2, <1>3 DEF ClockInv, TypeOK, Stages
<1>5. ASSUME NEW s \in Ranks PROVE Within(s)'
  <2>1. /\ Within(s) /\ iteration'[s] = iteration[s] /\ t'[s] = t[s]
        /\ times_saved'[s] = times_saved[s] /\ times_saved_restart'[s] = times_saved_restart[s]
        /\ config' = config /\ (finished(s)' <=> finished(s))
    BY <1>1, <1>2
  <2>2. CASE pc'[s] = pc[s] /\ dt'[s] = dt[s]
    BY <2>1, <2>2 DEF Within, InIteration, AtOutputs
  <2>3. CASE pc[s] = "dt" /\ pc'[s] = "advance" /\ t[s] + dt'[s] <= config.tEnd
    BY <2>1, <2>3 DEF Within, InIteration, AtOutputs
  <2>4. QED
    BY <1>3, <2>2, <2>3
<1>6. QED
  BY <1>4, <1>5 DEF ClockInv

(* The end of an iteration: the clock moves, by a step that fits.           *)
LEMMA ClockAdvance ==
  ASSUME ClockInv, NEW r \in Ranks, advance(r)
  PROVE  ClockInv'
<1>1. /\ pc \in [Ranks -> Stages] /\ config \in Settings
      /\ t \in [Ranks -> config.tBegin .. config.tEnd]
      /\ dt \in [Ranks -> 1 .. config.tEnd]
      /\ iteration \in [Ranks -> 0 .. MaxIterations]
      /\ times_saved \in [Ranks -> 0 .. MaxIterations]
      /\ times_saved_restart \in [Ranks -> 0 .. MaxIterations + 1]
      /\ \A s \in Ranks : Within(s)
      /\ MaxIterations \in Nat
  BY TimeLoopAssumption DEF ClockInv, TypeOK, Stages
<1>2. /\ pc[r] = "advance" /\ pc' = [pc EXCEPT ![r] = "output"]
      /\ iteration' = [iteration EXCEPT ![r] = iteration[r] + 1]
      /\ t' = [t EXCEPT ![r] = t[r] + dt[r]]
      /\ UNCHANGED <<config, dt, times_saved, times_saved_restart>>
  BY DEF advance, saves
<1>3. config.tBegin \in Nat /\ config.tEnd \in Nat
  BY <1>1, SettingFacts
<1>4. t[r] + dt[r] <= config.tEnd /\ iteration[r] < MaxIterations
  BY <1>1, <1>2 DEF Within, InIteration, AtOutputs, finished
<1>5. /\ t' \in [Ranks -> config.tBegin .. config.tEnd]
      /\ iteration' \in [Ranks -> 0 .. MaxIterations]
      /\ pc' \in [Ranks -> Stages]
  BY <1>1, <1>2, <1>3, <1>4 DEF Stages
<1>6. TypeOK'
  BY <1>1, <1>2, <1>5 DEF TypeOK, Stages
<1>7. ASSUME NEW s \in Ranks PROVE Within(s)'
  <2>1. Within(s)
    BY <1>1
  <2>2. CASE s = r
    BY <1>1, <1>2, <1>3, <2>1, <2>2 DEF Within, InIteration, AtOutputs
  <2>3. CASE s # r
    BY <1>1, <1>2, <2>1, <2>3 DEF Within, InIteration, AtOutputs, finished
  <2>4. QED
    BY <2>2, <2>3
<1>8. QED
  BY <1>6, <1>7 DEF ClockInv

(* ClockInv says nothing of what a stuttering step could change. *)
LEMMA ClockStutter == ClockInv /\ UNCHANGED vars => ClockInv'
BY DEF ClockInv, TypeOK, Within, InIteration, AtOutputs, finished, vars

(* Every step keeps ClockInv. *)
LEMMA ClockNext == ClockInv /\ [Next]_vars => ClockInv'
<1> SUFFICES ASSUME ClockInv, [Next]_vars PROVE ClockInv'
  OBVIOUS
<1>1. CASE save_solution(FALSE) \/ save_solution(TRUE) \/ do_amr_cycle \/ do_load_balancing
  BY <1>1, ClockCollective
<1>2. CASE reduce_dt \/ \E r \in Ranks : constant_dt(r)
  BY <1>2, ClockStep
<1>3. ASSUME NEW r \in Ranks,
             DecideOutput(r) \/ DecideAmrCycle(r) \/ DecideLoadBalancing(r)
      PROVE  ClockInv'
  BY <1>3, ClockDecide
<1>4. ASSUME NEW r \in Ranks, advance(r) PROVE ClockInv'
  BY <1>4, ClockAdvance
<1>5. CASE UNCHANGED vars
  BY <1>5, ClockStutter
<1>6. QED
  BY <1>1, <1>2, <1>3, <1>4, <1>5 DEF Next

(* ClockInv is an invariant. *)
LEMMA ClockAlways == Spec => []ClockInv
<1>1. QED
  BY ClockInit, ClockNext, PTL DEF Spec

(* The clock of a rank never leaves the run, its step is positive, and its  *)
(* counters never run ahead of its iterations (SolverBase::compute_dt).     *)
THEOREM TypeCorrect == Spec => []TypeOK
<1>1. ClockInv => TypeOK
  BY DEF ClockInv
<1>2. QED
  BY <1>1, ClockAlways, PTL

----------------------------------------------------------------------------
(* Proofs: the ranks follow one trajectory                                  *)

(* A clock reaches itself.                                                  *)
LEMMA ReachesItself == \A g, a : Reaches(g, a, a)
BY DEF Reaches

(* A clock that waits reaches no other.                                     *)
LEMMA WaitingReachesItself ==
  ASSUME NEW g, NEW a \in Clocks, NEW b, Reaches(g, a, b), ~ Alone(g, a.pc)
  PROVE  a = b
<1>1. {a} \in SUBSET Clocks /\ a \in {a} /\ Closed(g, {a})
  BY DEF Closed
<1>2. b \in {a}
  BY <1>1 DEF Reaches
<1>3. QED
  BY <1>2

(* The first step of a rank behind, taken alone, leaves it behind: the rank *)
(* ahead has taken the same one.                                            *)
LEMMA FirstStep ==
  ASSUME NEW g, NEW a \in Clocks, NEW b, Reaches(g, a, b), a # b
  PROVE  Reaches(g, Onward(g, a), b)
<1> SUFFICES ASSUME NEW C \in SUBSET Clocks, Onward(g, a) \in C, Closed(g, C)
             PROVE  b \in C
  BY DEF Reaches
<1>1. C \cup {a} \in SUBSET Clocks /\ a \in C \cup {a}
  OBVIOUS
<1>2. Closed(g, C \cup {a})
  BY DEF Closed
<1>3. b \in C \cup {a}
  BY <1>1, <1>2 DEF Reaches
<1>4. QED
  BY <1>3

(* A step of the rank ahead leaves it ahead.                                *)
LEMMA LastStep ==
  ASSUME NEW g, NEW a, NEW b, Reaches(g, a, b), Alone(g, b.pc)
  PROVE  Reaches(g, a, Onward(g, b))
<1> SUFFICES ASSUME NEW C \in SUBSET Clocks, a \in C, Closed(g, C)
             PROVE  Onward(g, b) \in C
  BY DEF Reaches
<1>1. b \in C
  BY DEF Reaches
<1>2. QED
  BY <1>1 DEF Closed

(* The clock of a rank is one of Clocks. *)
LEMMA ClockType == ClockInv => \A r \in Ranks : Clock(r) \in Clocks
<1> SUFFICES ASSUME ClockInv, NEW r \in Ranks PROVE Clock(r) \in Clocks
  OBVIOUS
<1>1. /\ pc[r] \in Stages /\ t[r] \in config.tBegin .. config.tEnd
      /\ dt[r] \in 1 .. config.tEnd /\ iteration[r] \in 0 .. MaxIterations
      /\ times_saved[r] \in 0 .. MaxIterations
      /\ times_saved_restart[r] \in 0 .. MaxIterations + 1
  BY DEF ClockInv, TypeOK, Stages
<1>2. QED
  BY <1>1 DEF Clocks, Clock

(* The decisions of a rank are those of its clock.                          *)
LEMMA DecisionsOfClock ==
  ASSUME NEW r \in Ranks
  PROVE  /\ should_save_solution(r) <=> SaveAt(config, Clock(r))
         /\ should_do_checkpoint(r) <=> CheckpointAt(config, Clock(r))
         /\ should_do_amr_cycle(r) <=> AmrAt(Clock(r))
         /\ should_do_load_balancing(r) <=> BalanceAt(Clock(r))
         /\ finished(r) <=> FinishedAt(config, Clock(r))
<1> USE DEF Clock
<1>1. should_save_solution(r) <=> SaveAt(config, Clock(r))
  BY DEF should_save_solution, SaveAt, EquispacedDue, PredefinedDue, IntervalOver, OverAt
<1>2. should_do_checkpoint(r) <=> CheckpointAt(config, Clock(r))
  BY <1>1 DEF should_do_checkpoint, CheckpointAt, IntervalOver, OverAt
<1>3. /\ should_do_amr_cycle(r) <=> AmrAt(Clock(r))
      /\ should_do_load_balancing(r) <=> BalanceAt(Clock(r))
      /\ finished(r) <=> FinishedAt(config, Clock(r))
  BY DEF should_do_amr_cycle, AmrAt, should_do_load_balancing, BalanceAt, finished, FinishedAt
<1>4. QED
  BY <1>1, <1>2, <1>3

(* What a rank does alone is a function of its clock.                       *)
LEMMA AloneGoesOnward ==
  ASSUME ClockInv, NEW r \in Ranks,
         \/ DecideOutput(r) \/ DecideAmrCycle(r) \/ DecideLoadBalancing(r)
         \/ constant_dt(r) \/ advance(r)
  PROVE  /\ Alone(config, Clock(r).pc)
         /\ Clock(r)' = Onward(config, Clock(r))
         /\ \A s \in Ranks \ {r} : Clock(s)' = Clock(s)
         /\ config' = config
<1>1. /\ pc \in [Ranks -> Stages] /\ DOMAIN t = Ranks /\ DOMAIN dt = Ranks
      /\ DOMAIN iteration = Ranks
  BY DEF ClockInv, TypeOK, Stages
<1>2. CASE DecideOutput(r) \/ DecideAmrCycle(r) \/ DecideLoadBalancing(r)
  <2>1. UNCHANGED <<config, t, dt, iteration, times_saved, times_saved_restart>>
    BY <1>2 DEF DecideOutput, DecideAmrCycle, DecideLoadBalancing, clock, saves
  <2>2. \/ pc[r] = "output" /\ pc' = [pc EXCEPT ![r] =
              IF SaveAt(config, Clock(r)) THEN "saving"
              ELSE IF CheckpointAt(config, Clock(r)) THEN "checkpointing"
              ELSE IF FinishedAt(config, Clock(r)) THEN "done" ELSE "amr"]
        \/ pc[r] = "amr" /\ pc' = [pc EXCEPT ![r] =
              IF AmrAt(Clock(r)) THEN "adapting" ELSE "balance"]
        \/ pc[r] = "balance" /\ pc' = [pc EXCEPT ![r] =
              IF BalanceAt(Clock(r)) THEN "balancing" ELSE "dt"]
    BY <1>2, DecisionsOfClock
       DEF DecideOutput, DecideAmrCycle, DecideLoadBalancing, Decide, AfterOutputs
  <2>3. \A s \in Ranks \ {r} : pc'[s] = pc[s]
    BY <1>1, <2>2
  <2>4. Clock(r)' = [Clock(r) EXCEPT !.pc = pc'[r]]
    BY <2>1 DEF Clock
  <2>5. Alone(config, Clock(r).pc) /\ Clock(r)' = Onward(config, Clock(r))
    <3>1. Clock(r).pc = pc[r]
      BY DEF Clock
    <3>2. QED
      BY <1>1, <2>2, <2>4, <3>1 DEF Alone, Onward
  <2>6. QED
    BY <2>1, <2>3, <2>5 DEF Clock
<1>3. CASE constant_dt(r)
  BY <1>1, <1>3 DEF constant_dt, saves, Clock, Alone, Onward, Clipped
<1>4. CASE advance(r)
  BY <1>1, <1>4 DEF advance, saves, Clock, Alone, Onward
<1>5. QED
  BY <1>2, <1>3, <1>4

(* InStep holds initially. *)
LEMMA InStepInit == Init => InStep
<1> SUFFICES ASSUME Init, NEW r \in Ranks, NEW s \in Ranks PROVE Clock(r) = Clock(s)
  BY ReachesItself DEF InStep
<1>1. QED
  BY DEF Init, Clock

(* A rank that goes on alone stays on the way of all others.                *)
LEMMA InStepAlone ==
  ASSUME ClockInv, InStep, NEW r \in Ranks,
         \/ DecideOutput(r) \/ DecideAmrCycle(r) \/ DecideLoadBalancing(r)
         \/ constant_dt(r) \/ advance(r)
  PROVE  InStep'
<1>1. /\ Alone(config, Clock(r).pc) /\ Clock(r)' = Onward(config, Clock(r))
      /\ \A s \in Ranks \ {r} : Clock(s)' = Clock(s)
      /\ config' = config
  BY AloneGoesOnward
<1>2. ASSUME NEW s \in Ranks \ {r}
      PROVE  \/ Reaches(config, Clock(r)', Clock(s)')
             \/ Reaches(config, Clock(s)', Clock(r)')
  <2>1. Clock(r) \in Clocks
    BY ClockType
  <2>2. CASE Reaches(config, Clock(s), Clock(r))
    BY <1>1, <2>2, LastStep
  <2>3. CASE Reaches(config, Clock(r), Clock(s)) /\ Clock(r) # Clock(s)
    BY <1>1, <2>1, <2>3, FirstStep
  <2>4. CASE Clock(r) = Clock(s)
    <3>1. Reaches(config, Clock(s), Clock(r))
      BY <2>4, ReachesItself
    <3>2. QED
      BY <2>2, <3>1
  <2>5. QED
    BY <2>2, <2>3, <2>4 DEF InStep
<1>3. ASSUME NEW p \in Ranks, NEW s \in Ranks
      PROVE  \/ Reaches(config, Clock(p)', Clock(s)')
             \/ Reaches(config, Clock(s)', Clock(p)')
  <2>1. CASE p = s
    BY <2>1, ReachesItself
  <2>2. CASE p # s /\ (p = r \/ s = r)
    BY <1>2, <2>2
  <2>3. CASE p # r /\ s # r
    BY <1>1, <2>3 DEF InStep
  <2>4. QED
    BY <2>1, <2>2, <2>3
<1>4. \A p, s \in Ranks : \/ Reaches(config', Clock(p)', Clock(s)')
                          \/ Reaches(config', Clock(s)', Clock(p)')
  BY <1>1, <1>3
<1>5. QED
  BY <1>4 DEF InStep, Reaches, Closed, Alone, Onward

(* Ranks that wait for the others are at the same clock.                    *)
LEMMA WaitingTogether ==
  ASSUME ClockInv, InStep, NEW r \in Ranks, NEW s \in Ranks,
         ~ Alone(config, pc[r]), ~ Alone(config, pc[s])
  PROVE  Clock(r) = Clock(s)
<1>1. Clock(r).pc = pc[r] /\ Clock(s).pc = pc[s]
  BY DEF Clock
<1>2. Clock(r) \in Clocks /\ Clock(s) \in Clocks
  BY ClockType
<1>3. Reaches(config, Clock(r), Clock(s)) \/ Reaches(config, Clock(s), Clock(r))
  BY DEF InStep
<1>4. QED
  BY <1>1, <1>2, <1>3, WaitingReachesItself

(* All ranks enter a collective at the same clock, and leave it so.         *)
LEMMA InStepCollective ==
  ASSUME ClockInv, InStep,
         \/ save_solution(FALSE) \/ save_solution(TRUE)
         \/ do_amr_cycle \/ do_load_balancing \/ reduce_dt
  PROVE  InStep'
<1>1. ASSUME NEW r \in Ranks PROVE ~ Alone(config, pc[r])
  <2>1. \/ pc[r] \in {"saving", "checkpointing", "adapting", "balancing"}
        \/ pc[r] = "dt" /\ config.constant_dt = 0
    BY DEF save_solution, Writing, do_amr_cycle, do_load_balancing, reduce_dt, Collective
  <2>2. QED
    BY <2>1 DEF Alone
<1>2. \A r, s \in Ranks : Clock(r) = Clock(s)
  BY <1>1, WaitingTogether
<1>3. \A r, s \in Ranks :
         /\ pc[r] = pc[s] /\ t[r] = t[s] /\ dt[r] = dt[s] /\ iteration[r] = iteration[s]
         /\ times_saved[r] = times_saved[s]
         /\ times_saved_restart[r] = times_saved_restart[s]
  BY <1>2 DEF Clock
<1>4. \A r, s \in Ranks :
         (finished(r) <=> finished(s)) /\ (should_do_checkpoint(r) <=> should_do_checkpoint(s))
  BY <1>2, DecisionsOfClock
<1>5. ASSUME NEW r \in Ranks, NEW s \in Ranks PROVE Clock(r)' = Clock(s)'
  <2>1. ASSUME NEW pure \in BOOLEAN, save_solution(pure) PROVE Clock(r)' = Clock(s)'
    BY <1>3, <1>4, <2>1 DEF save_solution, save_solution_impl, AfterOutputs, clock, Clock
  <2>2. CASE do_amr_cycle \/ do_load_balancing
    BY <1>3, <2>2 DEF do_amr_cycle, do_load_balancing, Collective, clock, saves, Clock
  <2>3. CASE reduce_dt
    <3>1. PICK d \in [Ranks -> LocalSteps] :
              dt' = [q \in Ranks |-> Clipped(q, Min({d[p] : p \in Ranks}))]
      BY <2>3 DEF reduce_dt
    <3>2. dt'[r] = dt'[s]
      BY <1>3, <3>1 DEF Clipped
    <3>3. pc'[r] = pc'[s] /\ UNCHANGED <<t, iteration, times_saved, times_saved_restart>>
      BY <2>3 DEF reduce_dt, Collective, saves
    <3>4. QED
      BY <1>3, <3>2, <3>3 DEF Clock
  <2>4. QED
    BY <2>1, <2>2, <2>3
<1>6. \A r, s \in Ranks : Reaches(config', Clock(r)', Clock(s)')
  BY <1>5, ReachesItself
<1>7. QED
  BY <1>6 DEF InStep, Reaches, Closed, Alone, Onward

(* Every step keeps InStep. *)
LEMMA InStepNext == ClockInv /\ InStep /\ [Next]_vars => InStep'
<1> SUFFICES ASSUME ClockInv, InStep, [Next]_vars PROVE InStep'
  OBVIOUS
<1>1. CASE \/ save_solution(FALSE) \/ save_solution(TRUE)
           \/ do_amr_cycle \/ do_load_balancing \/ reduce_dt
  BY <1>1, InStepCollective
<1>2. ASSUME NEW r \in Ranks,
             \/ DecideOutput(r) \/ DecideAmrCycle(r) \/ DecideLoadBalancing(r)
             \/ constant_dt(r) \/ advance(r)
      PROVE  InStep'
  BY <1>2, InStepAlone
<1>3. CASE UNCHANGED vars
  <2>1. config' = config /\ \A r \in Ranks : Clock(r)' = Clock(r)
    BY <1>3 DEF vars, Clock
  <2>2. \A r, s \in Ranks : \/ Reaches(config', Clock(r)', Clock(s)')
                            \/ Reaches(config', Clock(s)', Clock(r)')
    BY <2>1 DEF InStep
  <2>3. QED
    BY <2>2 DEF InStep, Reaches, Closed, Alone, Onward
<1>4. QED
  BY <1>1, <1>2, <1>3 DEF Next

(* No rank ever waits for the others in one operation while another waits   *)
(* in a different one, at another time, or has ended its run: the decisions *)
(* taken alone agree (SolverBase::should_..., compute_dt).                  *)
THEOREM RanksWaitTogether == Spec => []SameOperation
<1>1. ClockInv /\ InStep => SameOperation
  <2> SUFFICES ASSUME ClockInv, InStep, NEW r \in Ranks, NEW s \in Ranks,
                      Waiting(r), Waiting(s)
               PROVE  pc[r] = pc[s] /\ t[r] = t[s] /\ iteration[r] = iteration[s]
    BY DEF SameOperation
  <2>1. config.constant_dt \in Nat
    BY SettingFacts DEF ClockInv, TypeOK
  <2>2. ~ Alone(config, pc[r]) /\ ~ Alone(config, pc[s])
    BY <2>1 DEF Waiting, Alone
  <2>3. Clock(r) = Clock(s)
    BY <2>2, WaitingTogether
  <2>4. QED
    BY <2>3 DEF Clock
<1>2. Spec => []InStep
  BY ClockAlways, InStepInit, InStepNext, PTL DEF Spec
<1>3. QED
  BY <1>1, <1>2, ClockAlways, PTL

----------------------------------------------------------------------------
(* Proofs: what is asked for and written                                    *)

(* Multiplication by a natural number keeps the order.                      *)
LEMMA TimesMonotone ==
  ASSUME NEW x \in Int, NEW y \in Int, NEW c \in Nat, x <= y
  PROVE  x * c <= y * c
<1>1. (y - x) * c >= 0
  OBVIOUS
<1>2. (y - x) * c = y * c - x * c
  OBVIOUS
<1>3. x * c \in Int /\ y * c \in Int
  OBVIOUS
<1>4. QED
  BY <1>1, <1>2, <1>3

(* When the k-th due time is past, so are the ones before it, and they stay *)
(* past.                                                                    *)
LEMMA PassedBefore ==
  ASSUME NEW g, IsSetting(g), g.nOutput > 0,
         NEW b \in Int, NEW c \in Int, b <= c,
         NEW k \in Nat, NEW j \in 1 .. k, Passed(g, b, k)
  PROVE  Passed(g, c, j)
<1>1. /\ g.tBegin \in Nat /\ g.tEnd \in Nat /\ g.tBegin < g.tEnd /\ g.nOutput \in Nat
      /\ b - g.tBegin \in Int /\ c - g.tBegin \in Int /\ b - g.tBegin <= c - g.tBegin
      /\ j \in Nat /\ j >= 1 /\ j <= k
  BY DEF IsSetting
<1>2. CASE g.output_policy = "PREDEFINED"
  <2> DEFINE o == g.output_times
  <2>1. /\ o \in Seq(Nat) /\ k <= Len(o) /\ b - g.tBegin > o[k]
        /\ \A m, n \in DOMAIN o : m < n => o[m] < o[n]
    BY <1>2 DEF Passed, IsSetting
  <2>2. DOMAIN o = 1 .. Len(o) /\ Len(o) \in Nat
    BY <2>1
  <2>3. j \in DOMAIN o /\ k \in DOMAIN o /\ o[j] \in Nat /\ o[k] \in Nat
    <3>1. k \in Nat /\ k <= Len(o) /\ o \in Seq(Nat)
      BY <2>1
    <3> HIDE DEF o
    <3>2. j \in 1 .. Len(o) /\ k \in 1 .. Len(o)
      BY <1>1, <2>2, <3>1
    <3>3. QED
      BY <2>2, <3>1, <3>2
  <2>4. o[j] <= o[k]
    <3>1. j < k => o[j] < o[k]
      BY <2>1, <2>3
    <3> HIDE DEF o
    <3>2. CASE j < k
      BY <2>3, <3>1, <3>2
    <3>3. CASE j = k
      BY <2>3, <3>3
    <3>4. QED
      BY <1>1, <3>2, <3>3
  <2>5. c - g.tBegin > o[j] /\ j <= Len(o)
    <3>1. b - g.tBegin > o[k]
      BY <2>1
    <3> HIDE DEF o
    <3>2. QED
      BY <1>1, <2>1, <2>2, <2>3, <2>4, <3>1
  <2>6. QED
    BY <1>2, <2>5 DEF Passed
<1>3. CASE g.output_policy # "PREDEFINED"
  <2> DEFINE D == g.tEnd - g.tBegin
  <2>1. D \in Nat
    BY <1>1
  <2>2. (b - g.tBegin) * g.nOutput > k * D
    BY <1>3 DEF Passed
  <2>3. (b - g.tBegin) * g.nOutput <= (c - g.tBegin) * g.nOutput
    BY <1>1, TimesMonotone
  <2>4. j * D <= k * D
    <3> HIDE DEF D
    <3>1. QED
      BY <1>1, <2>1, TimesMonotone
  <2>5. (c - g.tBegin) * g.nOutput > j * D
    <3> DEFINE x == (b - g.tBegin) * g.nOutput
               y == (c - g.tBegin) * g.nOutput
               m == j * D
               n == k * D
    <3>1. x \in Int /\ y \in Int /\ m \in Int /\ n \in Int
      BY <1>1, <2>1
    <3>2. x > n /\ x <= y /\ m <= n
      BY <2>2, <2>3, <2>4
    <3> HIDE DEF x, y, m, n
    <3>3. y > m
      BY <3>1, <3>2
    <3>4. QED
      BY <3>3 DEF y, m
  <2>6. QED
    BY <1>3, <2>5 DEF Passed
<1>4. QED
  BY <1>2, <1>3

(* OutputInv holds initially. *)
LEMMA OutputsInit == Init => OutputInv
<1> SUFFICES ASSUME Init PROVE OutputInv
  OBVIOUS
<1>1. asked \in [Ranks -> SUBSET Int]
  BY DEF Init
<1>2. ASSUME NEW r \in Ranks PROVE Outputs(r)
  <2>1. pc[r] = "output" /\ asked[r] = {}
    BY DEF Init
  <2>2. QED
    BY <2>1 DEF Outputs
<1>3. QED
  BY <1>1, <1>2, ClockInit DEF OutputInv

(* A rank that neither asks about outputs nor writes, nor starts or ends an *)
(* iteration, owes what it owed.                                            *)
LEMMA OutputsKept ==
  ASSUME NEW s \in Ranks, Outputs(s), config' = config,
         t'[s] = t[s], iteration'[s] = iteration[s], times_saved'[s] = times_saved[s],
         outputs'[s] = outputs[s], asked'[s] = asked[s],
         \/ pc'[s] = pc[s]
         \/ pc[s] \notin AtOutputs /\ pc'[s] \notin AtOutputs
  PROVE  Outputs(s)'
<1>1. QED
  BY DEF Outputs, AtOutputs

(* A rank that asks is told to write when an output is due, or at the end.  *)
LEMMA OutputsAsked ==
  ASSUME OutputInv, NEW r \in Ranks, DecideOutput(r)
  PROVE  Outputs(r)'
<1>1. /\ pc[r] = "output"
      /\ pc'[r] = IF should_save_solution(r) THEN "saving"
                  ELSE IF should_do_checkpoint(r) THEN "checkpointing" ELSE AfterOutputs(r)
      /\ asked'[r] = asked[r] \cup {t[r]}
      /\ UNCHANGED <<config, t, iteration, times_saved, outputs>>
  BY DEF OutputInv, ClockInv, TypeOK, DecideOutput, clock, saves
<1>2. /\ Outputs(r) /\ asked[r] \in SUBSET Int
      /\ config \in Settings /\ IsSetting(config) /\ t[r] \in Int /\ iteration[r] \in Nat
      /\ config.tBegin \in Nat /\ config.tEnd \in Nat /\ config.nOutput \in Int
  BY TimeLoopAssumption, SettingFacts DEF OutputInv, ClockInv, TypeOK
<1>3. /\ \A a \in asked[r] : a < t[r]
      /\ \A a \in asked'[r] : a <= t'[r] /\ a \in Int
      /\ t'[r] \in asked'[r] /\ pc'[r] # "output"
  BY <1>1, <1>2 DEF Outputs, AfterOutputs
<1>4. pc'[r] = "saving" /\ config'.nOutput > 0 /\ iteration'[r] > 0 =>
          t'[r] = config'.tEnd \/ Passed(config', t'[r], times_saved'[r] + 1)
  <2>0. AfterOutputs(r) # "saving"
    BY DEF AfterOutputs
  <2>1. SUFFICES ASSUME should_save_solution(r), config.nOutput > 0, iteration[r] > 0,
                        t[r] # config.tEnd
                 PROVE  Passed(config, t[r], times_saved[r] + 1)
    BY <1>1, <2>0
  <2>2. \/ config.output_policy = "EQUISPACED" /\ EquispacedDue(r)
        \/ config.output_policy = "PREDEFINED" /\ PredefinedDue(r)
    BY <1>2, <2>1 DEF should_save_solution
  <2>3. times_saved[r] \in Nat
    BY TimeLoopAssumption DEF OutputInv, ClockInv, TypeOK
  <2>4. CASE config.output_policy = "EQUISPACED" /\ EquispacedDue(r)
    BY <2>4 DEF EquispacedDue, IntervalOver, Passed
  <2>5. CASE config.output_policy = "PREDEFINED" /\ PredefinedDue(r)
    <3>1. Len(config.output_times) \in Nat
      BY <1>2 DEF IsSetting
    <3>2. QED
      BY <2>3, <2>5, <3>1 DEF PredefinedDue, Passed
  <2>6. QED
    BY <2>2, <2>4, <2>5
<1>5. pc'[r] \notin {"output", "saving"} /\ t'[r] = config'.tEnd /\ config'.nOutput # 0 =>
          t'[r] \in outputs'[r]
  BY <1>1, <1>2 DEF should_save_solution
<1>6. QED
  BY <1>3, <1>4, <1>5 DEF Outputs

(* All ranks write what they were on their way to write.                    *)
LEMMA OutputsSaved ==
  ASSUME OutputInv, NEW pure \in BOOLEAN, save_solution(pure), NEW r \in Ranks
  PROVE  Outputs(r)'
<1>1. /\ pc[r] = IF pure THEN "checkpointing" ELSE "saving"
      /\ pc'[r] \in {"done", "amr"}
      /\ times_saved'[r] = times_saved[r] + IF iteration[r] > 0 THEN 1 ELSE 0
      /\ outputs'[r] = outputs[r] \cup IF pure THEN {} ELSE {t[r]}
      /\ UNCHANGED <<config, t, iteration, asked>>
  BY DEF save_solution, save_solution_impl, Writing, AfterOutputs, clock
<1>2. /\ Outputs(r) /\ t[r] \in asked[r] /\ times_saved[r] \in Nat /\ config.nOutput \in Int
      /\ iteration[r] \in Nat
  <2>1. Outputs(r) /\ t[r] \in asked[r]
    BY <1>1 DEF OutputInv, Outputs
  <2>2. QED
    BY <2>1, TimeLoopAssumption, SettingFacts DEF OutputInv, ClockInv, TypeOK
<1>3. t[r] = config.tEnd /\ config.nOutput # 0 => t[r] \in outputs'[r]
  BY <1>1, <1>2 DEF Outputs
<1>4. QED
  BY <1>1, <1>2, <1>3 DEF Outputs

(* The clock moves on, past all the times the rank has asked at.            *)
LEMMA OutputsAdvance ==
  ASSUME OutputInv, NEW r \in Ranks, advance(r)
  PROVE  Outputs(r)'
<1>1. /\ pc[r] = "advance" /\ pc'[r] = "output" /\ t'[r] = t[r] + dt[r]
      /\ t[r] \in Int /\ dt[r] \in Int /\ dt[r] > 0
      /\ UNCHANGED <<config, times_saved, outputs, asked>>
  <2>1. config.tEnd \in Nat /\ config.tBegin \in Nat
    BY SettingFacts DEF OutputInv, ClockInv, TypeOK
  <2>2. QED
    BY <2>1 DEF OutputInv, ClockInv, TypeOK, advance, saves
<1>2. Outputs(r) /\ asked[r] \in SUBSET Int
  BY DEF OutputInv
<1>3. \A a \in asked[r] : a < t'[r]
  BY <1>1, <1>2 DEF Outputs
<1>4. QED
  BY <1>1, <1>2, <1>3 DEF Outputs

(* Every step keeps OutputInv. *)
LEMMA OutputsNext == OutputInv /\ [Next]_vars => OutputInv'
<1> SUFFICES ASSUME OutputInv, [Next]_vars PROVE OutputInv'
  OBVIOUS
<1>1. ClockInv'
  BY ClockNext DEF OutputInv
<1>2. /\ asked \in [Ranks -> SUBSET Int] /\ pc \in [Ranks -> Stages]
      /\ \A r \in Ranks : Outputs(r)
      /\ t \in [Ranks -> config.tBegin .. config.tEnd] /\ DOMAIN iteration = Ranks
  BY DEF OutputInv, ClockInv, TypeOK, Stages
<1>3. asked' \in [Ranks -> SUBSET Int]
  <2>1. ASSUME NEW r \in Ranks, DecideOutput(r) PROVE <1>3
    <3>1. asked' = [asked EXCEPT ![r] = asked[r] \cup {t[r]}] /\ t[r] \in Int
      BY <1>2, <2>1 DEF DecideOutput
    <3>2. QED
      BY <1>2, <3>1
  <2>2. CASE asked' = asked
    BY <1>2, <2>2
  <2>3. QED
    BY <2>1, <2>2 DEF Next, vars, save_solution, do_amr_cycle, do_load_balancing,
       reduce_dt, DecideAmrCycle, DecideLoadBalancing, constant_dt, advance
<1>4. ASSUME NEW s \in Ranks PROVE Outputs(s)'
  <2>1. ASSUME NEW r \in Ranks, DecideOutput(r) PROVE Outputs(s)'
    <3>1. CASE s = r
      BY <2>1, <3>1, OutputsAsked
    <3>2. CASE s # r
      <4>1. /\ UNCHANGED <<config, t, iteration, times_saved, outputs>>
            /\ pc'[s] = pc[s] /\ asked'[s] = asked[s]
        BY <1>2, <2>1, <3>2 DEF DecideOutput, clock, saves
      <4>2. QED
        BY <1>2, <4>1, OutputsKept
    <3>3. QED
      BY <3>1, <3>2
  <2>2. ASSUME NEW r \in Ranks,
               DecideAmrCycle(r) \/ DecideLoadBalancing(r) \/ constant_dt(r)
        PROVE  Outputs(s)'
    <3>1. /\ UNCHANGED <<config, t, iteration, times_saved, outputs, asked>>
          /\ \/ pc'[s] = pc[s]
             \/ pc[s] \notin AtOutputs /\ pc'[s] \notin AtOutputs
      BY <1>2, <2>2 DEF DecideAmrCycle, DecideLoadBalancing, constant_dt, Decide, AtOutputs,
                        clock, saves
    <3>2. QED
      BY <1>2, <3>1, OutputsKept
  <2>3. ASSUME NEW r \in Ranks, advance(r) PROVE Outputs(s)'
    <3>1. CASE s = r
      BY <2>3, <3>1, OutputsAdvance
    <3>2. CASE s # r
      <4>1. /\ UNCHANGED <<config, times_saved, outputs, asked>> /\ t'[s] = t[s]
            /\ iteration'[s] = iteration[s] /\ pc'[s] = pc[s]
        BY <1>2, <2>3, <3>2 DEF advance, saves
      <4>2. QED
        BY <1>2, <4>1, OutputsKept
    <3>3. QED
      BY <3>1, <3>2
  <2>4. CASE save_solution(FALSE) \/ save_solution(TRUE)
    BY <2>4, OutputsSaved
  <2>5. CASE do_amr_cycle \/ do_load_balancing \/ reduce_dt
    <3>1. /\ UNCHANGED <<config, t, iteration, times_saved, outputs, asked>>
          /\ pc[s] \notin AtOutputs /\ pc'[s] \notin AtOutputs
      BY <2>5 DEF do_amr_cycle, do_load_balancing, reduce_dt, Collective, AtOutputs,
                  clock, saves
    <3>2. QED
      BY <1>2, <3>1, OutputsKept
  <2>6. CASE UNCHANGED vars
    BY <1>2, <2>6, OutputsKept DEF vars
  <2>7. QED
    BY <2>1, <2>2, <2>3, <2>4, <2>5, <2>6 DEF Next
<1>5. QED
  BY <1>1, <1>3, <1>4 DEF OutputInv

(* OutputInv is an invariant. *)
LEMMA OutputsAlways == Spec => []OutputInv
<1>1. QED
  BY OutputsInit, OutputsNext, PTL DEF Spec

----------------------------------------------------------------------------
(* Proofs: only a pure checkpoint takes the place of an output               *)

(* What holds of the settings and of rank r, for the steps below.           *)
LEMMA DebtTypes ==
  ASSUME DebtInv, NEW r \in Ranks
  PROVE  /\ config \in Settings /\ IsSetting(config) /\ config.nOutput \in Int
         /\ config.tBegin \in Nat /\ config.tEnd \in Nat
         /\ t[r] \in Int /\ t[r] <= config.tEnd
         /\ times_saved[r] \in Nat /\ iteration[r] \in Nat
         /\ iteration[r] = 0 => times_saved[r] = 0
         /\ asked[r] \in SUBSET Int /\ checkpoints[r] \in SUBSET Int
         /\ Outputs(r) /\ Debts(r)
         /\ IsFiniteSet(Skipped(r)) /\ Cardinality(Skipped(r)) \in Nat
         /\ Cardinality(checkpoints[r]) \in Nat
<1>1. /\ config \in Settings /\ IsSetting(config) /\ config.nOutput \in Int
      /\ config.tBegin \in Nat /\ config.tEnd \in Nat
      /\ t[r] \in Int /\ t[r] <= config.tEnd
      /\ times_saved[r] \in Nat /\ iteration[r] \in Nat /\ times_saved[r] <= iteration[r]
  BY TimeLoopAssumption, SettingFacts DEF DebtInv, OutputInv, ClockInv, TypeOK, Within
<1>2. asked[r] \in SUBSET Int /\ checkpoints[r] \in SUBSET Int /\ Outputs(r) /\ Debts(r)
  BY DEF DebtInv, OutputInv
<1>3. IsFiniteSet(Skipped(r)) /\ IsFiniteSet(checkpoints[r])
  BY <1>2, FS_Subset DEF Debts, Skipped
<1>4. QED
  BY <1>1, <1>2, <1>3, FS_CardinalityType

(* DebtInv holds initially. *)
LEMMA DebtsInit == Init => DebtInv
<1> SUFFICES ASSUME Init PROVE DebtInv
  OBVIOUS
<1>1. checkpoints \in [Ranks -> SUBSET Int]
  BY DEF Init
<1>2. ASSUME NEW r \in Ranks PROVE Debts(r)
  <2>1. /\ pc[r] = "output" /\ asked[r] = {} /\ checkpoints[r] = {} /\ times_saved[r] = 0
        /\ Skipped(r) = {}
    BY DEF Init, Skipped
  <2>2. IsFiniteSet({}) /\ Cardinality({}) = 0
    BY FS_EmptySet
  <2>3. QED
    BY <2>1, <2>2 DEF Debts
<1>3. QED
  BY <1>1, <1>2, OutputsInit DEF DebtInv

(* A rank that neither asks about outputs nor writes has skipped what it    *)
(* had, also when its clock moves on.                                       *)
LEMMA DebtsKept ==
  ASSUME NEW s \in Ranks, Debts(s), config' = config,
         t[s] \in Int, t'[s] \in Int, t'[s] >= t[s], checkpoints[s] \in SUBSET Int,
         times_saved'[s] = times_saved[s], outputs'[s] = outputs[s],
         checkpoints'[s] = checkpoints[s], asked'[s] = asked[s],
         \/ pc'[s] = pc[s] /\ t'[s] = t[s]
         \/ pc[s] \notin AtOutputs /\ (pc'[s] \in AtOutputs => pc'[s] = "output" /\ t'[s] > t[s])
  PROVE  Debts(s)'
<1>1. Skipped(s)' = Skipped(s)
  BY DEF Skipped, First, AtOutputs
<1>2. \A c \in checkpoints'[s] : c <= t'[s] /\ (pc'[s] \in AtOutputs => c # t'[s])
  <2>1. \A c \in checkpoints[s] : c \in Int /\ c <= t[s] /\ (pc[s] \in AtOutputs => c # t[s])
    BY DEF Debts
  <2>2. QED
    BY <2>1
<1>3. pc'[s] = "checkpointing" => pc[s] = "checkpointing"
  BY DEF AtOutputs
<1>4. QED
  BY <1>1, <1>2, <1>3 DEF Debts

(* If all checkpoints go with outputs, a rank that is not to write an       *)
(* output is not to write at all.                                           *)
LEMMA NoPureCheckpoint ==
  ASSUME DebtInv, NEW r \in Ranks, NoneBetween(config), config.nOutput > 0,
         ~ should_save_solution(r)
  PROVE  ~ should_do_checkpoint(r)
<1>1. SUFFICES ASSUME should_do_checkpoint(r) PROVE FALSE
  OBVIOUS
<1>2. /\ t[r] \in Int /\ t[r] <= config.tEnd /\ config.nOutput \in Int
      /\ IsSetting(config)
  BY DebtTypes
<1>3. /\ config.max_checkpoint_count = 1
      /\ IntervalOver(r, times_saved_restart[r] + 1, 1) \/ t[r] = config.tEnd
  BY <1>1, <1>2 DEF should_do_checkpoint, NoneBetween, IsSetting
<1>4. ~ IntervalOver(r, times_saved_restart[r] + 1, 1)
  <2>1. times_saved_restart[r] \in Nat
    BY TimeLoopAssumption DEF DebtInv, OutputInv, ClockInv, TypeOK
  <2> DEFINE D == config.tEnd - config.tBegin
             n == times_saved_restart[r]
  <2>2. D \in Nat /\ t[r] - config.tBegin \in Int /\ t[r] - config.tBegin <= D
    BY <1>2 DEF IsSetting
  <2>3. 1 * D <= (n + 1) * D
    BY <2>1, <2>2, TimesMonotone
  <2>4. QED
    BY <2>1, <2>2, <2>3 DEF IntervalOver
<1>5. QED
  BY <1>2, <1>3, <1>4 DEF should_save_solution

(* When a rank is told not to write, the next output counted is not due.    *)
LEMMA NextNotPassed ==
  ASSUME DebtInv, NEW r \in Ranks, config.nOutput > 0, ~ should_save_solution(r)
  PROVE  ~ Passed(config, t[r], times_saved[r] + 1) /\ t[r] # config.tEnd
<1>1. IsSetting(config) /\ times_saved[r] \in Nat /\ config.nOutput \in Int
  BY DebtTypes
<1>2. t[r] # config.tEnd
  BY DEF should_save_solution
<1>3. CASE config.output_policy = "PREDEFINED"
  <2>1. ~ PredefinedDue(r) /\ Len(config.output_times) \in Nat
    BY <1>1, <1>3 DEF should_save_solution, IsSetting
  <2>2. QED
    BY <1>1, <1>2, <1>3, <2>1 DEF PredefinedDue, Passed
<1>4. CASE config.output_policy = "EQUISPACED"
  <2>1. ~ EquispacedDue(r)
    BY <1>1, <1>4 DEF should_save_solution
  <2>2. QED
    BY <1>2, <1>4, <2>1 DEF EquispacedDue, IntervalOver, Passed
<1>5. QED
  BY <1>1, <1>3, <1>4 DEF IsSetting

(* A rank that asks, and is told not to write at the first time after a due *)
(* one, has counted that one already: a checkpoint took its place.          *)
LEMMA DebtsAsked ==
  ASSUME DebtInv, NEW r \in Ranks, DecideOutput(r), Outputs(r)'
  PROVE  Debts(r)'
<1> DEFINE A == asked[r]
           x == t[r]
           k == times_saved[r]
           S == Skipped(r)
           P == Cardinality(checkpoints[r])
<1>1. /\ pc[r] = "output"
      /\ pc'[r] = IF should_save_solution(r) THEN "saving"
                  ELSE IF should_do_checkpoint(r) THEN "checkpointing" ELSE AfterOutputs(r)
      /\ asked'[r] = A \cup {x}
      /\ UNCHANGED <<config, t, iteration, times_saved, outputs, checkpoints>>
  BY DEF DebtInv, OutputInv, ClockInv, TypeOK, DecideOutput, clock, saves
<1>2. /\ IsSetting(config) /\ config.nOutput \in Int
      /\ x \in Int /\ k \in Nat /\ iteration[r] \in Nat /\ x <= config.tEnd
      /\ config.tEnd \in Nat
      /\ iteration[r] = 0 => k = 0
      /\ A \in SUBSET Int /\ Outputs(r) /\ Debts(r)
      /\ IsFiniteSet(S) /\ Cardinality(S) \in Nat /\ P \in Nat
  BY DebtTypes
<1>3. \A a \in A : a \in Int /\ a < x
  BY <1>1, <1>2 DEF Outputs
<1>4. IsFiniteSet(asked'[r]) /\ IsFiniteSet(checkpoints'[r])
  <2>1. IsFiniteSet(A) /\ IsFiniteSet(checkpoints[r])
    BY <1>2 DEF Debts
  <2>2. IsFiniteSet(A \cup {x})
    BY <2>1, FS_AddElement
  <2>3. QED
    BY <1>1, <2>1, <2>2
<1>5. \A c \in checkpoints'[r] : c <= t'[r] /\ (pc'[r] \in AtOutputs => c # t'[r])
  BY <1>1, <1>2 DEF Debts, AtOutputs
<1>6. AfterOutputs(r) \notin {"saving", "checkpointing"}
  BY DEF AfterOutputs
<1>7. ASSUME NEW a \in A PROVE First(A \cup {x}, a) <=> First(A, a)
  <2>1. a \in Int /\ a <= x
    BY <1>2, <1>3
  <2>2. ASSUME NEW n
        PROVE  (\A b \in A \cup {x} : Passed(config, b, n) => a <= b)
               <=> (\A b \in A : Passed(config, b, n) => a <= b)
    <3> HIDE DEF A, x
    <3>1. QED
      BY <2>1
  <2> HIDE DEF A, x
  <2>3. QED
    BY <2>2 DEF First
<1>8. SUFFICES ASSUME config.nOutput > 0
               PROVE  /\ NoneBetween(config) =>
                            checkpoints'[r] = {} /\ pc'[r] # "checkpointing"
                      /\ Cardinality(Skipped(r)') <= P
                      /\ config.tEnd \notin A \cup {x} =>
                            \A n \in 1 .. k : (\A b \in A \cup {x} : ~ Passed(config, b, n)) =>
                                Cardinality(Skipped(r)') + k + 1 <= P + n
  BY <1>1, <1>4, <1>5 DEF Debts
<1>9. NoneBetween(config) => checkpoints'[r] = {} /\ pc'[r] # "checkpointing"
  BY <1>1, <1>2, <1>6, <1>8, NoPureCheckpoint DEF Debts
<1>10. /\ Cardinality(S) <= P
       /\ config.tEnd \notin A =>
             \A n \in 1 .. k : (\A b \in A : ~ Passed(config, b, n)) =>
                 Cardinality(S) + k + 1 <= P + n
  BY <1>2, <1>8 DEF Debts
<1>11. CASE should_save_solution(r)
  <2>1. pc'[r] = "saving"
    BY <1>1, <1>11
  <2>2. Skipped(r)' = S
    <3>1. Skipped(r)' = {a \in (A \cup {x}) \ outputs[r] : a # x /\ First(A \cup {x}, a)}
      BY <1>1, <2>1 DEF Skipped, First
    <3>2. S = {a \in A \ outputs[r] : First(A, a)}
      BY <1>1 DEF Skipped
    <3>3. QED
      BY <1>3, <1>7, <3>1, <3>2
  <2>3. ASSUME config.tEnd \notin A \cup {x}, NEW n \in 1 .. k,
               \A b \in A \cup {x} : ~ Passed(config, b, n)
        PROVE  FALSE
    <3>1. iteration[r] > 0
      BY <1>2, <2>3
    <3>2. Passed(config, x, k + 1)
      BY <1>1, <1>8, <2>1, <2>3, <3>1 DEF Outputs
    <3>3. k + 1 \in Nat /\ n \in 1 .. k + 1 /\ x <= x
      BY <1>2, <2>3
    <3>4. Passed(config, x, n)
      BY <1>2, <1>8, <3>2, <3>3, PassedBefore
    <3>5. QED
      BY <2>3, <3>4
  <2>4. QED
    BY <1>9, <1>10, <2>2, <2>3
<1>12. CASE ~ should_save_solution(r)
  <2>1. ~ Passed(config, x, k + 1) /\ x # config.tEnd
    BY <1>8, <1>12, NextNotPassed
  <2>2. config.tEnd \notin A
    BY <1>2, <1>3
  <2>3. pc'[r] # "saving"
    BY <1>1, <1>6, <1>12
  <2>4. Skipped(r)' = {a \in (A \cup {x}) \ outputs[r] : First(A \cup {x}, a)}
    BY <1>1, <2>3 DEF Skipped, First
  <2>5. S = {a \in A \ outputs[r] : First(A, a)}
    BY <1>1 DEF Skipped
  <2>6. CASE x \notin Skipped(r)'
    <3>1. Skipped(r)' = S
      BY <1>3, <1>7, <2>4, <2>5, <2>6
    <3>2. QED
      BY <1>9, <1>10, <2>2, <3>1
  <2>7. CASE x \in Skipped(r)'
    <3>1. Skipped(r)' = S \cup {x} /\ x \notin S
      BY <1>3, <1>7, <2>4, <2>5, <2>7
    <3>2. Cardinality(Skipped(r)') = Cardinality(S) + 1
      BY <1>2, <3>1, FS_AddElement
    <3>3. PICK n \in 1 .. config.nOutput :
             Passed(config, x, n) /\ \A b \in A : Passed(config, b, n) => x <= b
      BY <2>4, <2>7 DEF First
    <3>4. \A b \in A : ~ Passed(config, b, n)
      BY <1>2, <1>3, <3>3
    <3>5. n \in 1 .. k
      <4>1. n \in Nat /\ n >= 1
        BY <1>2, <3>3
      <4>2. SUFFICES ASSUME k + 1 <= n PROVE FALSE
        BY <1>2, <4>1
      <4>3. k + 1 \in 1 .. n /\ x <= x
        BY <1>2, <4>1, <4>2
      <4>4. Passed(config, x, k + 1)
        BY <1>2, <1>8, <3>3, <4>1, <4>3, PassedBefore
      <4>5. QED
        BY <2>1, <4>4
    <3>6. Cardinality(S) + k + 1 <= P + n
      BY <1>10, <2>2, <3>4, <3>5
    <3>7. ASSUME NEW m \in 1 .. k, ~ Passed(config, x, m)
          PROVE  n < m
      <4>1. SUFFICES ASSUME m <= n PROVE FALSE
        BY <3>5
      <4>2. m \in 1 .. n /\ n \in Nat /\ x <= x
        BY <1>2, <3>5, <4>1
      <4>3. QED
        BY <1>2, <1>8, <3>3, <3>7, <4>2, PassedBefore
    <3> HIDE DEF S, P, k
    <3>8. Cardinality(S) + 1 <= P
      BY <1>2, <3>5, <3>6
    <3>9. ASSUME NEW m \in 1 .. k, ~ Passed(config, x, m)
          PROVE  Cardinality(S) + 1 + k + 1 <= P + m
      <4>1. n < m
        BY <3>7, <3>9
      <4>2. QED
        BY <1>2, <3>5, <3>6, <4>1
    <3>10. QED
      BY <1>9, <3>2, <3>8, <3>9
  <2>8. QED
    BY <2>6, <2>7
<1>13. QED
  BY <1>11, <1>12

(* All ranks write: an output counts for itself, a pure checkpoint for an   *)
(* output that will be skipped.                                             *)
LEMMA DebtsSaved ==
  ASSUME DebtInv, NEW pure \in BOOLEAN, save_solution(pure), NEW r \in Ranks
  PROVE  Debts(r)'
<1> DEFINE A == asked[r]
           x == t[r]
           k == times_saved[r]
           S == Skipped(r)
           P == Cardinality(checkpoints[r])
<1>1. /\ pc[r] = IF pure THEN "checkpointing" ELSE "saving"
      /\ pc'[r] \in {"done", "amr"}
      /\ times_saved'[r] = k + IF iteration[r] > 0 THEN 1 ELSE 0
      /\ outputs'[r] = outputs[r] \cup IF pure THEN {} ELSE {x}
      /\ checkpoints'[r] = checkpoints[r] \cup IF pure THEN {x} ELSE {}
      /\ UNCHANGED <<config, t, iteration, asked>>
  BY DEF save_solution, save_solution_impl, Writing, AfterOutputs, clock
<1>2. /\ IsSetting(config) /\ config.nOutput \in Int
      /\ x \in Int /\ k \in Nat /\ iteration[r] \in Nat
      /\ iteration[r] = 0 => k = 0
      /\ Outputs(r) /\ Debts(r)
      /\ Cardinality(S) \in Nat /\ P \in Nat
  BY DebtTypes
<1>3. x \in A
  BY <1>1, <1>2 DEF Outputs
<1>4. /\ IsFiniteSet(A) /\ IsFiniteSet(checkpoints[r]) /\ x \notin checkpoints[r]
      /\ \A c \in checkpoints[r] : c <= x
  BY <1>1, <1>2 DEF Debts, AtOutputs
<1>5. IsFiniteSet(asked'[r]) /\ IsFiniteSet(checkpoints'[r])
  <2>1. IsFiniteSet(checkpoints[r] \cup {x})
    BY <1>4, FS_AddElement
  <2>2. checkpoints'[r] \in {checkpoints[r], checkpoints[r] \cup {x}}
    BY <1>1
  <2>3. QED
    BY <1>1, <1>4, <2>1, <2>2
<1>6. \A c \in checkpoints'[r] : c <= t'[r] /\ (pc'[r] \in AtOutputs => c # t'[r])
  BY <1>1, <1>2, <1>4 DEF AtOutputs
<1>7. Skipped(r)' = S
  BY <1>1 DEF Skipped, First
<1>8. SUFFICES ASSUME config.nOutput > 0
               PROVE  /\ NoneBetween(config) => checkpoints'[r] = {}
                      /\ Cardinality(S) <= Cardinality(checkpoints'[r])
                      /\ config.tEnd \notin A =>
                            \A n \in 1 .. times_saved'[r] :
                                (\A b \in A : ~ Passed(config, b, n)) =>
                                Cardinality(S) + times_saved'[r] + 1
                                    <= Cardinality(checkpoints'[r]) + n
  BY <1>1, <1>5, <1>6, <1>7 DEF Debts
<1>9. /\ NoneBetween(config) => checkpoints[r] = {} /\ pc[r] # "checkpointing"
      /\ Cardinality(S) <= P
      /\ config.tEnd \notin A =>
            \A n \in 1 .. k : (\A b \in A : ~ Passed(config, b, n)) =>
                Cardinality(S) + k + 1 <= P + n
  BY <1>2, <1>8 DEF Debts
<1>10. CASE ~ pure
  <2>1. checkpoints'[r] = checkpoints[r]
    BY <1>1, <1>10
  <2>2. ASSUME config.tEnd \notin A, NEW n \in 1 .. times_saved'[r],
               \A b \in A : ~ Passed(config, b, n)
        PROVE  FALSE
    <3>1. iteration[r] > 0 /\ times_saved'[r] = k + 1
      BY <1>1, <1>2, <2>2
    <3>2. x # config.tEnd
      BY <1>3, <2>2
    <3>3. Passed(config, x, k + 1)
      BY <1>1, <1>2, <1>8, <1>10, <3>1, <3>2 DEF Outputs
    <3>4. k + 1 \in Nat /\ n \in 1 .. k + 1 /\ x <= x
      BY <1>2, <2>2, <3>1
    <3>5. Passed(config, x, n)
      BY <1>2, <1>8, <3>3, <3>4, PassedBefore
    <3>6. QED
      BY <1>3, <2>2, <3>5
  <2>3. QED
    BY <1>9, <2>1, <2>2
<1>11. CASE pure
  <2>1. Cardinality(checkpoints'[r]) = P + 1
    BY <1>1, <1>4, <1>11, FS_AddElement
  <2>2. ~ NoneBetween(config)
    BY <1>1, <1>9, <1>11
  <2>3. times_saved'[r] \in {k, k + 1}
    BY <1>1, <1>2
  <2> HIDE DEF k, S, P, A
  <2>4. ASSUME config.tEnd \notin A, NEW n \in 1 .. times_saved'[r],
               \A b \in A : ~ Passed(config, b, n)
        PROVE  Cardinality(S) + times_saved'[r] + 1 <= P + 1 + n
    <3>1. CASE n \in 1 .. k
      <4>1. Cardinality(S) + k + 1 <= P + n
        BY <1>9, <2>4, <3>1
      <4>2. QED
        BY <1>2, <2>3, <3>1, <4>1
    <3>2. CASE n = k + 1 /\ times_saved'[r] = k + 1
      BY <1>2, <1>9, <3>2
    <3>3. QED
      BY <1>2, <2>3, <2>4, <3>1, <3>2
  <2>5. QED
    BY <1>2, <1>9, <2>1, <2>2, <2>4
<1>12. QED
  BY <1>10, <1>11

(* Every step keeps DebtInv. *)
LEMMA DebtsNext == DebtInv /\ [Next]_vars => DebtInv'
<1> SUFFICES ASSUME DebtInv, [Next]_vars PROVE DebtInv'
  OBVIOUS
<1>1. OutputInv'
  BY OutputsNext DEF DebtInv
<1>2. /\ checkpoints \in [Ranks -> SUBSET Int] /\ pc \in [Ranks -> Stages]
      /\ t \in [Ranks -> config.tBegin .. config.tEnd]
      /\ dt \in [Ranks -> 1 .. config.tEnd]
      /\ config.tBegin \in Nat /\ config.tEnd \in Nat
      /\ DOMAIN asked = Ranks
  BY SettingFacts DEF DebtInv, OutputInv, ClockInv, TypeOK, Stages
<1>3. \A s \in Ranks : t[s] \in Int /\ checkpoints[s] \in SUBSET Int /\ Debts(s)
  BY <1>2 DEF DebtInv
<1>4. checkpoints' \in [Ranks -> SUBSET Int]
  <2>1. ASSUME NEW pure \in BOOLEAN, save_solution(pure) PROVE <1>4
    BY <1>2, <1>3, <2>1 DEF save_solution, save_solution_impl
  <2>2. CASE checkpoints' = checkpoints
    BY <1>2, <2>2
  <2>3. QED
    BY <2>1, <2>2 DEF Next, vars, DecideOutput, do_amr_cycle, do_load_balancing,
       reduce_dt, DecideAmrCycle, DecideLoadBalancing, constant_dt, advance, saves
<1>5. ASSUME NEW s \in Ranks PROVE Debts(s)'
  <2>1. CASE save_solution(FALSE) \/ save_solution(TRUE)
    BY <2>1, DebtsSaved
  <2>2. ASSUME NEW r \in Ranks, DecideOutput(r) PROVE Debts(s)'
    <3>1. CASE s = r
      BY <1>1, <2>2, <3>1, DebtsAsked DEF OutputInv
    <3>2. CASE s # r
      <4>1. /\ UNCHANGED <<config, t, iteration, times_saved, outputs, checkpoints>>
            /\ pc'[s] = pc[s] /\ asked'[s] = asked[s]
        BY <1>2, <2>2, <3>2 DEF DecideOutput, clock, saves
      <4>2. QED
        BY <1>3, <4>1, DebtsKept
    <3>3. QED
      BY <3>1, <3>2
  <2>3. ASSUME NEW r \in Ranks, advance(r) PROVE Debts(s)'
    <3>1. UNCHANGED <<config, times_saved, outputs, checkpoints, asked>>
      BY <2>3 DEF advance, saves
    <3>2. CASE s = r
      <4>1. /\ pc[s] = "advance" /\ pc'[s] = "output" /\ t'[s] = t[s] + dt[s]
            /\ dt[s] \in Int /\ dt[s] > 0
        BY <1>2, <2>3, <3>2 DEF advance
      <4>2. QED
        BY <1>3, <3>1, <4>1, DebtsKept DEF AtOutputs
    <3>3. CASE s # r
      <4>1. pc'[s] = pc[s] /\ t'[s] = t[s]
        BY <1>2, <2>3, <3>3 DEF advance
      <4>2. QED
        BY <1>3, <3>1, <4>1, DebtsKept
    <3>4. QED
      BY <3>2, <3>3
  <2>4. ASSUME \/ do_amr_cycle \/ do_load_balancing \/ reduce_dt
               \/ \E r \in Ranks : DecideAmrCycle(r) \/ DecideLoadBalancing(r) \/ constant_dt(r)
        PROVE  Debts(s)'
    <3>1. UNCHANGED <<config, t, times_saved, outputs, checkpoints, asked>>
      BY <2>4 DEF do_amr_cycle, do_load_balancing, reduce_dt, DecideAmrCycle,
                  DecideLoadBalancing, constant_dt, clock, saves
    <3>2. \/ pc'[s] = pc[s]
          \/ pc[s] \notin AtOutputs /\ pc'[s] \notin AtOutputs
      BY <1>2, <2>4 DEF do_amr_cycle, do_load_balancing, reduce_dt, DecideAmrCycle,
                  DecideLoadBalancing, constant_dt, Collective, Decide, AtOutputs
    <3>3. QED
      BY <1>3, <3>1, <3>2, DebtsKept
  <2>5. CASE UNCHANGED vars
    BY <1>3, <2>5, DebtsKept DEF vars
  <2>6. QED
    BY <2>1, <2>2, <2>3, <2>4, <2>5 DEF Next
<1>6. QED
  BY <1>1, <1>4, <1>5 DEF DebtInv

(* DebtInv is an invariant. *)
LEMMA DebtsAlways == Spec => []DebtInv
<1>1. QED
  BY DebtsInit, DebtsNext, PTL DEF Spec

(* What is missed is what was skipped, if the listed times are times of the *)
(* run.                                                                     *)
LEMMA MissedSkipped ==
  ASSUME DebtInv, FromZero(config), NEW r \in Ranks, pc[r] # "saving"
  PROVE  Missed(r) = Skipped(r)
<1>1. IsSetting(config) /\ config.nOutput \in Int /\ asked[r] \in SUBSET Int
  BY DebtTypes
<1>2. ASSUME NEW b \in asked[r], NEW n \in 1 .. config.nOutput
      PROVE  PastDue(b, n) <=> Passed(config, b, n)
  <2>1. CASE config.output_policy = "PREDEFINED"
    <3> DEFINE o == config.output_times
    <3>1. /\ config.tBegin = 0 /\ o \in Seq(Nat) /\ config.nOutput = Len(o)
          /\ b \in Int /\ n \in DOMAIN o /\ n <= Len(o)
      BY <1>1, <2>1 DEF IsSetting, FromZero
    <3>2. b - config.tBegin = b
      <4> HIDE DEF o
      <4>1. QED
        BY <3>1
    <3>3. QED
      BY <2>1, <3>1, <3>2 DEF PastDue, Passed
  <2>2. CASE config.output_policy # "PREDEFINED"
    BY <2>2 DEF PastDue, Passed
  <2>3. QED
    BY <2>1, <2>2
<1>3. ASSUME NEW a \in asked[r]
      PROVE  First(asked[r], a) <=>
               \E n \in 1 .. config.nOutput :
                   PastDue(a, n) /\ \A b \in asked[r] : PastDue(b, n) => a <= b
  BY <1>2 DEF First
<1>4. QED
  BY <1>3 DEF Missed, Skipped

(* Without outputs at regular or listed times none is missed.               *)
LEMMA NothingDue ==
  ASSUME DebtInv, NEW r \in Ranks, ~ (config.nOutput > 0)
  PROVE  Missed(r) = {}
<1>1. config.nOutput \in Int
  BY DebtTypes
<1>2. 1 .. config.nOutput = {}
  BY <1>1
<1>3. QED
  BY <1>2 DEF Missed

(* Only pure checkpoints take the place of outputs, each of one at most.    *)
LEMMA OnlyCheckpointsDelay ==
  ASSUME \A s \in Settings : s.output_policy = "PREDEFINED" => s.tBegin = 0
  PROVE  DebtInv => MissedByCheckpoints
<1> SUFFICES ASSUME DebtInv, NEW r \in Ranks, pc[r] # "saving"
             PROVE  Cardinality(Missed(r)) <= Cardinality(checkpoints[r])
  BY DEF MissedByCheckpoints
<1>1. FromZero(config) /\ Debts(r) /\ Cardinality(checkpoints[r]) \in Nat
  BY DebtTypes DEF FromZero
<1>2. CASE config.nOutput > 0
  BY <1>1, <1>2, MissedSkipped DEF Debts
<1>3. CASE ~ (config.nOutput > 0)
  BY <1>1, <1>3, NothingDue, FS_EmptySet
<1>4. QED
  BY <1>2, <1>3

(* No output is missed.                                                     *)
NoneMissed == \A r \in Ranks : pc[r] # "saving" => Missed(r) = {}

(* A run without checkpoints of its own, be it that all outputs are         *)
(* checkpoints, or that at most one is asked for, as by default, misses no  *)
(* output at all (SolverBase::should_do_checkpoint).                        *)
THEOREM NoOutputMissed ==
  ASSUME \A s \in Settings :
            /\ s.output_policy = "PREDEFINED" => s.tBegin = 0
            /\ s.all_outputs_are_checkpoint \/ s.max_checkpoint_count <= 1
  PROVE  Spec => []NoneMissed
<1>1. DebtInv => NoneMissed
  <2> SUFFICES ASSUME DebtInv, NEW r \in Ranks, pc[r] # "saving"
               PROVE  Missed(r) = {}
    BY DEF NoneMissed
  <2>1. /\ FromZero(config) /\ NoneBetween(config) /\ Debts(r)
        /\ IsFiniteSet(Skipped(r)) /\ Cardinality(Skipped(r)) \in Nat
    BY DebtTypes DEF FromZero, NoneBetween
  <2>2. CASE config.nOutput > 0
    <3>1. Cardinality(Skipped(r)) = 0
      <4>1. Cardinality(Skipped(r)) <= Cardinality({})
        BY <2>1, <2>2 DEF Debts
      <4>2. QED
        BY <2>1, <4>1, FS_EmptySet
    <3>2. QED
      BY <2>1, <3>1, MissedSkipped, FS_EmptySet
  <2>3. QED
    BY <2>2, NothingDue
<1>2. QED
  BY <1>1, DebtsAlways, PTL

----------------------------------------------------------------------------
(* Proofs: no more outputs than are due                                     *)

(* CountInv holds initially. *)
LEMMA CountInit == Init => CountInv
<1> SUFFICES ASSUME Init, NEW r \in Ranks PROVE Counted(r)
  BY OutputsInit DEF CountInv
<1>1. outputs[r] = {} /\ t[r] = config.tBegin /\ times_saved[r] = 0 /\ pc[r] = "output"
  BY DEF Init
<1>2. Between(r) = {} /\ Cardinality(Between(r)) = 0 /\ IsFiniteSet(outputs[r])
  BY <1>1, FS_EmptySet DEF Between
<1>3. QED
  BY <1>1, <1>2 DEF Counted

(* A rank that writes nothing, and whose clock does not go back, has no     *)
(* more outputs than before.                                                *)
LEMMA CountKept ==
  ASSUME CountInv, NEW s \in Ranks, config' = config, outputs'[s] = outputs[s],
         t'[s] \in Int, t'[s] >= t[s], times_saved'[s] \in Int, times_saved'[s] >= times_saved[s],
         iteration'[s] = 0 => iteration[s] = 0 /\ t'[s] = t[s],
         pc'[s] = "saving" => pc[s] = "saving" \/ config.nOutput # 0
  PROVE  Counted(s)'
<1> DEFINE n == Cardinality(Between(s))
<1>1. Counted(s) /\ Between(s)' = Between(s)
  BY DEF CountInv, Between
<1>2. /\ config \in Settings /\ t[s] \in Int /\ times_saved[s] \in Nat
  BY TimeLoopAssumption, SettingFacts DEF CountInv, OutputInv, ClockInv, TypeOK
<1>3. IsSetting(config)
  BY <1>2, TimeLoopAssumption
<1>4. n \in Nat
  <2>1. IsFiniteSet(Between(s))
    BY <1>1, FS_Subset DEF Counted, Between
  <2>2. QED
    BY <2>1, FS_CardinalityType
<1>5. n <= times_saved'[s]
  BY <1>1, <1>2, <1>4 DEF Counted
<1>6. config.nOutput > 0 /\ n > 0 => Passed(config, t'[s], n)
  <2>1. SUFFICES ASSUME config.nOutput > 0, n > 0 PROVE Passed(config, t'[s], n)
    OBVIOUS
  <2>2. Passed(config, t[s], n)
    BY <1>1, <2>1 DEF Counted
  <2>3. n \in 1 .. n
    BY <1>4, <2>1
  <2> HIDE DEF n
  <2>4. QED
    BY <1>2, <1>3, <1>4, <2>1, <2>2, <2>3, PassedBefore
<1>7. QED
  BY <1>1, <1>5, <1>6 DEF Counted

(* What all ranks write is the first state, the last one, or an output more *)
(* when one more due time is past; a pure checkpoint only makes fewer of    *)
(* them possible.                                                           *)
LEMMA CountSaved ==
  ASSUME CountInv, NEW pure \in BOOLEAN, save_solution(pure), NEW r \in Ranks
  PROVE  Counted(r)'
<1>1. /\ pc[r] = IF pure THEN "checkpointing" ELSE "saving"
      /\ pc'[r] \in {"done", "amr"}
      /\ times_saved'[r] = times_saved[r] + IF iteration[r] > 0 THEN 1 ELSE 0
      /\ outputs'[r] = outputs[r] \cup IF pure THEN {} ELSE {t[r]}
      /\ UNCHANGED <<config, t, iteration, asked>>
  BY DEF save_solution, save_solution_impl, Writing, AfterOutputs, clock
<1>2. /\ Counted(r) /\ Outputs(r) /\ config \in Settings /\ t[r] \in Int
      /\ times_saved[r] \in Nat /\ iteration[r] \in Nat
  BY TimeLoopAssumption, SettingFacts DEF CountInv, OutputInv, ClockInv, TypeOK
<1>3. times_saved'[r] \in Int /\ times_saved'[r] >= times_saved[r]
  BY <1>1, <1>2
<1>4. CASE pure
  <2>1. outputs'[r] = outputs[r] /\ t'[r] >= t[r] /\ iteration'[r] = iteration[r]
    BY <1>1, <1>2, <1>4
  <2>2. QED
    BY <1>1, <1>2, <1>3, <2>1, CountKept
<1>5. CASE ~ pure
  <2> DEFINE B == Between(r)
             n == Cardinality(B)
  <2>1. pc[r] = "saving" /\ outputs'[r] = outputs[r] \cup {t[r]} /\ config.nOutput # 0
    BY <1>1, <1>2, <1>5 DEF Counted
  <2>2. IsFiniteSet(outputs[r]) /\ IsFiniteSet(outputs'[r])
    BY <1>2, <2>1, FS_AddElement DEF Counted
  <2>3. IsFiniteSet(B) /\ n \in Nat
    BY <2>2, FS_Subset, FS_CardinalityType DEF Between
  <2>4. CASE t[r] \in {config.tBegin, config.tEnd} \/ t[r] \in outputs[r]
    <3>1. Between(r)' = B
      BY <1>1, <2>1, <2>4 DEF Between
    <3>2. n <= times_saved'[r]
      BY <1>2, <1>3, <2>3 DEF Counted
    <3>3. config.nOutput > 0 /\ n > 0 => Passed(config, t[r], n)
      BY <1>2 DEF Counted
    <3>4. QED
      BY <1>1, <1>2, <2>1, <2>2, <3>1, <3>2, <3>3 DEF Counted
  <2>5. CASE t[r] \notin {config.tBegin, config.tEnd} /\ t[r] \notin outputs[r]
    <3>1. Between(r)' = B \cup {t[r]} /\ t[r] \notin B
      BY <1>1, <2>1, <2>5 DEF Between
    <3>2. Cardinality(Between(r)') = n + 1
      BY <2>3, <3>1, FS_AddElement
    <3>3. iteration[r] > 0 /\ times_saved'[r] = times_saved[r] + 1
      BY <1>1, <1>2, <2>5 DEF Counted
    <3>4. n + 1 <= times_saved'[r]
      BY <1>2, <2>3, <3>3 DEF Counted
    <3>5. ASSUME config.nOutput > 0
          PROVE  Passed(config, t[r], n + 1)
      <4>1. Passed(config, t[r], times_saved[r] + 1)
        BY <1>2, <2>1, <2>5, <3>3, <3>5 DEF Outputs
      <4>2. n + 1 \in 1 .. times_saved[r] + 1 /\ times_saved[r] + 1 \in Nat /\ t[r] <= t[r]
        BY <1>2, <2>3, <3>3, <3>4
      <4>3. IsSetting(config)
        BY <1>2, TimeLoopAssumption
      <4> DEFINE k == times_saved[r] + 1
                 j == n + 1
      <4>4. k \in Nat /\ j \in 1 .. k /\ Passed(config, t[r], k)
        BY <4>1, <4>2
      <4> HIDE DEF k, j
      <4>5. Passed(config, t[r], j)
        BY <1>2, <3>5, <4>2, <4>3, <4>4, PassedBefore
      <4>6. QED
        BY <4>5 DEF j
    <3>6. QED
      BY <1>1, <1>2, <2>1, <2>2, <3>2, <3>3, <3>4, <3>5 DEF Counted
  <2>6. QED
    BY <2>4, <2>5
<1>6. QED
  BY <1>4, <1>5

(* Every step keeps CountInv. *)
LEMMA CountNext == CountInv /\ [Next]_vars => CountInv'
<1> SUFFICES ASSUME CountInv, [Next]_vars PROVE CountInv'
  OBVIOUS
<1>1. OutputInv'
  BY OutputsNext DEF CountInv
<1>2. /\ t \in [Ranks -> config.tBegin .. config.tEnd]
      /\ dt \in [Ranks -> 1 .. config.tEnd]
      /\ iteration \in [Ranks -> 0 .. MaxIterations]
      /\ times_saved \in [Ranks -> 0 .. MaxIterations]
      /\ pc \in [Ranks -> Stages]
      /\ config.tBegin \in Nat /\ config.tEnd \in Nat /\ config.nOutput \in Int
      /\ MaxIterations \in Nat
  BY TimeLoopAssumption, SettingFacts DEF CountInv, OutputInv, ClockInv, TypeOK, Stages
<1>3. \A s \in Ranks : t[s] \in Int /\ times_saved[s] \in Int /\ iteration[s] \in Nat
  BY <1>2
<1>4. ASSUME NEW s \in Ranks PROVE Counted(s)'
  <2>1. CASE save_solution(FALSE) \/ save_solution(TRUE)
    BY <2>1, CountSaved
  <2>2. ASSUME NEW r \in Ranks, DecideOutput(r) PROVE Counted(s)'
    <3>1. UNCHANGED <<config, t, iteration, times_saved, outputs>>
      BY <2>2 DEF DecideOutput, clock, saves
    <3>2. pc'[s] = "saving" => pc[s] = "saving" \/ config.nOutput # 0
      BY <1>2, <2>2 DEF DecideOutput, should_save_solution, AfterOutputs
    <3>3. QED
      BY <1>3, <3>1, <3>2, CountKept
  <2>3. ASSUME NEW r \in Ranks, advance(r) PROVE Counted(s)'
    <3>1. UNCHANGED <<config, times_saved, outputs>>
      BY <2>3 DEF advance, saves
    <3>2. /\ t'[s] \in Int /\ t'[s] >= t[s]
          /\ iteration'[s] = 0 => iteration[s] = 0 /\ t'[s] = t[s]
          /\ pc'[s] = "saving" => pc[s] = "saving"
      <4>1. CASE s = r
        <5>1. /\ t'[s] = t[s] + dt[s] /\ iteration'[s] = iteration[s] + 1 /\ pc'[s] = "output"
              /\ dt[s] \in Nat
          BY <1>2, <2>3, <4>1 DEF advance
        <5>2. QED
          BY <1>3, <5>1
      <4>2. CASE s # r
        BY <1>2, <1>3, <2>3, <4>2 DEF advance
      <4>3. QED
        BY <4>1, <4>2
    <3>3. QED
      BY <1>3, <3>1, <3>2, CountKept
  <2>4. ASSUME \/ do_amr_cycle \/ do_load_balancing \/ reduce_dt
               \/ \E r \in Ranks : DecideAmrCycle(r) \/ DecideLoadBalancing(r) \/ constant_dt(r)
        PROVE  Counted(s)'
    <3>1. UNCHANGED <<config, t, iteration, times_saved, outputs>>
      BY <2>4 DEF do_amr_cycle, do_load_balancing, reduce_dt, DecideAmrCycle,
                  DecideLoadBalancing, constant_dt, clock, saves
    <3>2. pc'[s] = "saving" => pc[s] = "saving"
      BY <1>2, <2>4 DEF do_amr_cycle, do_load_balancing, reduce_dt, DecideAmrCycle,
                  DecideLoadBalancing, constant_dt, Collective, Decide
    <3>3. QED
      BY <1>3, <3>1, <3>2, CountKept
  <2>5. CASE UNCHANGED vars
    BY <1>3, <2>5, CountKept DEF vars
  <2>6. QED
    BY <2>1, <2>2, <2>3, <2>4, <2>5 DEF Next
<1>5. QED
  BY <1>1, <1>4 DEF CountInv

(* Between its beginning and its end, a run never writes more outputs than  *)
(* due times are past, and none if there is to be no output, whatever its   *)
(* checkpoints: no output is made twice for one due time                    *)
(* (SolverBase::should_save_solution, save_solution).                       *)
THEOREM NeverMoreThanDue == Spec => []NoMoreThanDue
<1>1. CountInv => NoMoreThanDue
  <2> SUFFICES ASSUME CountInv, NEW r \in Ranks
               PROVE  /\ config.nOutput = 0 => outputs[r] = {}
                      /\ config.nOutput > 0 /\ Cardinality(Between(r)) > 0 =>
                            PastDue(t[r], Cardinality(Between(r)))
    BY DEF NoMoreThanDue, Between
  <2> DEFINE n == Cardinality(Between(r))
  <2>1. Counted(r) /\ config \in Settings /\ t[r] \in Int
    BY SettingFacts DEF CountInv, OutputInv, ClockInv, TypeOK
  <2>2. IsSetting(config)
    BY <2>1, TimeLoopAssumption
  <2>3. n \in Nat
    <3>1. IsFiniteSet(Between(r))
      BY <2>1, FS_Subset DEF Counted, Between
    <3>2. QED
      BY <3>1, FS_CardinalityType
  <2>4. ASSUME config.nOutput > 0, n > 0
        PROVE  PastDue(t[r], n)
    <3>1. Passed(config, t[r], n)
      BY <2>1, <2>4 DEF Counted
    <3> HIDE DEF n
    <3>2. CASE config.output_policy = "PREDEFINED"
      <4> DEFINE o == config.output_times
      <4>1. o \in Seq(Nat) /\ n <= Len(o) /\ t[r] - config.tBegin > o[n] /\ config.tBegin \in Nat
        BY <2>2, <3>1, <3>2 DEF Passed, IsSetting
      <4>2. n \in DOMAIN o /\ o[n] \in Nat
        BY <2>3, <2>4, <4>1
      <4>3. t[r] > o[n]
        <5>1. t[r] - config.tBegin > o[n]
          BY <4>1
        <5> HIDE DEF o
        <5>2. QED
          BY <2>1, <4>1, <4>2, <5>1
      <4>4. QED
        BY <3>2, <4>2, <4>3 DEF PastDue
    <3>3. CASE config.output_policy # "PREDEFINED"
      BY <3>1, <3>3 DEF Passed, PastDue
    <3>4. QED
      BY <3>2, <3>3
  <2>5. QED
    BY <2>1, <2>4 DEF Counted
<1>2. Spec => []CountInv
  BY CountInit, CountNext, PTL DEF Spec
<1>3. QED
  BY <1>1, <1>2, PTL

(* Every rank writes at the first time it can after each time that is due,  *)
(* though it may step over several of them at once; only pure checkpoints   *)
(* take the place of outputs, each of one at most; and there are no more    *)
(* outputs than due times (SolverBase::should_save_solution,                *)
(* save_solution).  Predefined times are compared with the time since the   *)
(* beginning, hence the hypothesis.                                         *)
THEOREM EveryOutputOnTime ==
  ASSUME \A s \in Settings : s.output_policy = "PREDEFINED" => s.tBegin = 0
  PROVE  Spec => []OutputsOnTime
<1>1. DebtInv /\ NoMoreThanDue => OutputsOnTime
  BY OnlyCheckpointsDelay DEF OutputsOnTime
<1>2. QED
  BY <1>1, DebtsAlways, NeverMoreThanDue, PTL

(* A run whose iterations suffice to come to its end writes its last step   *)
(* ("always write the last time step"); the program, in a run that has      *)
(* used up its iterations writes only if an output is due.                  *)
THEOREM LastStepIsWritten ==
  ASSUME \A s \in Settings : s.tEnd - s.tBegin <= MaxIterations
  PROVE  Spec => []LastStepWritten
<1>1. OutputInv => LastStepWritten
  <2> SUFFICES ASSUME OutputInv, NEW r \in Ranks, pc[r] = "done", config.nOutput # 0
               PROVE  t[r] \in outputs[r]
    BY DEF LastStepWritten
  <2>1. /\ Within(r) /\ Outputs(r) /\ config \in Settings
        /\ t[r] \in config.tBegin .. config.tEnd /\ iteration[r] \in 0 .. MaxIterations
    BY DEF OutputInv, ClockInv, TypeOK
  <2>2. t[r] = config.tEnd
    BY <2>1, SettingFacts, TimeLoopAssumption DEF Within, finished
  <2>3. QED
    BY <2>1, <2>2 DEF Outputs
<1>2. QED
  BY <1>1, OutputsAlways, PTL
=============================================================================
