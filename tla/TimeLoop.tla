------------------------------ MODULE TimeLoop ------------------------------
(***************************************************************************)
(* SolverBase: the time loop every rank runs, and the decisions it takes    *)
(* alone, from its own clock, about operations all ranks must take part in  *)
(* (output, checkpoint, AMR cycle, load balancing, reduction of the time    *)
(* step).                                                                   *)
(*                                                                         *)
(* next_iteration_impl is left to the application: here it asks should_...  *)
(* about outputs first, then adapts, balances and steps, and asks about     *)
(* outputs once more after the loop.  It writes as SolverBase.h says of     *)
(* should_do_checkpoint and save_solution: a checkpoint goes with the output *)
(* if one is requested, and is a pure one otherwise.  The initial condition *)
(* is saved, AMR cycles are enabled, the first one disabled, as by default. *)
(* Time is an integer, so that "equal up to 1e-14" is equality.             *)
(***************************************************************************)
EXTENDS Integers, Sequences, FiniteSets, FiniteSetsExt

CONSTANTS NumRanks,              \* ranks of the communicator
          Settings,              \* configurations the ranks may be given
          MaxIterations,         \* m_max_iterations, nStepmax
          LocalSteps,            \* time steps compute_dt_local may return
          CycleFrequency, BalanceFrequency       \* [amr]

(* constant_dt is 0 unless use_constant_dt; the constructor of OutputParams *)
(* refuses a list that is not increasing or has the initial time.           *)
IsSetting(s) ==
    /\ s.tBegin \in Nat /\ s.tEnd \in Nat /\ s.tBegin < s.tEnd
    /\ s.constant_dt \in Nat
    /\ s.max_checkpoint_count \in Int
    /\ s.all_outputs_are_checkpoint \in BOOLEAN
    /\ s.output_policy \in {"EQUISPACED", "PREDEFINED"}
    /\ s.nOutput \in Int
    /\ s.output_times \in Seq(Nat)
    /\ s.output_policy = "PREDEFINED" =>
          s.nOutput = Len(s.output_times) /\ s.nOutput > 0 /\ s.output_times[1] # s.tBegin
    /\ \A i, j \in DOMAIN s.output_times : i < j => s.output_times[i] < s.output_times[j]

ASSUME TimeLoopAssumption ==
    /\ NumRanks \in Nat \ {0}
    /\ \A s \in Settings : IsSetting(s)
    /\ MaxIterations \in Nat
    /\ LocalSteps \subseteq Nat \ {0} /\ LocalSteps # {}
    /\ CycleFrequency \in Nat
    /\ BalanceFrequency \in Nat \ {0}

Ranks == 0 .. NumRanks - 1

VARIABLES config,                      \* [run], [checkpoint], [hydro], OutputParams
          pc,
          t, dt, iteration,              \* m_t, m_dt, m_iteration
          times_saved,                   \* m_times_saved
          times_saved_restart,           \* m_times_saved_restart
          outputs,                       \* history: times of the outputs
          checkpoints,                   \* history: times of the pure checkpoints
          asked                          \* history: times the rank asked for one

vars == <<config, pc, t, dt, iteration, times_saved, times_saved_restart, outputs, checkpoints,
          asked>>

----------------------------------------------------------------------------
(* The decisions                                                            *)

finished(r) == t[r] >= config.tEnd \/ iteration[r] >= MaxIterations

(* The n-th of N equal intervals of the run is over.                        *)
IntervalOver(r, n, N) == (t[r] - config.tBegin) * N > n * (config.tEnd - config.tBegin)

EquispacedDue(r) == IntervalOver(r, times_saved[r] + 1, config.nOutput)

PredefinedDue(r) ==
    /\ times_saved[r] < Len(config.output_times)
    /\ t[r] - config.tBegin > config.output_times[times_saved[r] + 1]

(* Bug: the last step is written only if it is due.                         *)
should_save_solution_NoLast(r) ==
    \/ config.nOutput < 0
    \/ /\ config.nOutput > 0
       /\ \/ iteration[r] = 0
          \/ config.output_policy = "EQUISPACED" /\ EquispacedDue(r)
          \/ config.output_policy = "PREDEFINED" /\ PredefinedDue(r)

should_save_solution(r) ==
    \/ config.nOutput < 0
    \/ /\ config.nOutput > 0
       /\ \/ iteration[r] = 0                   \* save_initial_condition
          \/ config.output_policy = "EQUISPACED" /\ EquispacedDue(r)
          \/ config.output_policy = "PREDEFINED" /\ PredefinedDue(r)
          \/ t[r] = config.tEnd                 \* "always write the last time step"

(* "all outputs are turned into a checkpoint file", or m_max_checkpoint_count *)
(* of them at regular intervals and "always" one at the last time step.      *)
should_do_checkpoint(r) ==
    IF config.all_outputs_are_checkpoint THEN should_save_solution(r)
    ELSE /\ config.max_checkpoint_count > 0
         /\ \/ IntervalOver(r, times_saved_restart[r] + 1, config.max_checkpoint_count)
            \/ t[r] = config.tEnd

should_do_amr_cycle(r) ==
    CycleFrequency > 0 /\ iteration[r] > 0 /\ iteration[r] % CycleFrequency = 0

should_do_load_balancing(r) ==
    iteration[r] # 0 /\ iteration[r] % BalanceFrequency = 0

----------------------------------------------------------------------------
Init ==
    /\ config \in Settings
    /\ pc = [r \in Ranks |-> "output"]
    /\ t = [r \in Ranks |-> config.tBegin]
    /\ dt = [r \in Ranks |-> config.tEnd]
    /\ iteration = [r \in Ranks |-> 0]
    /\ times_saved = [r \in Ranks |-> 0]
    /\ times_saved_restart = [r \in Ranks |-> 0]
    /\ outputs = [r \in Ranks |-> {}]
    /\ checkpoints = [r \in Ranks |-> {}]
    /\ asked = [r \in Ranks |-> {}]

clock == <<config, t, dt, iteration>>
saves == <<times_saved, times_saved_restart, outputs, checkpoints>>

(* The rank leaves the loop after the outputs of the last state.            *)
AfterOutputs(r) == IF finished(r) THEN "done" ELSE "amr"

(* "If a regular output is not requested, we are doing a pure checkpoint".  *)
DecideOutput(r) ==
    /\ pc[r] = "output"
    /\ pc' = [pc EXCEPT ![r] = IF should_save_solution(r) THEN "saving"
                              ELSE IF should_do_checkpoint(r) THEN "checkpointing"
                              ELSE AfterOutputs(r)]
    /\ asked' = [asked EXCEPT ![r] = @ \cup {t[r]}]
    /\ UNCHANGED <<clock, saves>>

(* A decision of rank r: take part in the operation or go on.               *)
Decide(r, at, decision, operation, after) ==
    /\ pc[r] = at
    /\ pc' = [pc EXCEPT ![r] = IF decision THEN operation ELSE after]

DecideAmrCycle(r) ==
    /\ Decide(r, "amr", should_do_amr_cycle(r), "adapting", "balance")
    /\ UNCHANGED <<clock, saves, asked>>

DecideLoadBalancing(r) ==
    /\ Decide(r, "balance", should_do_load_balancing(r), "balancing", "dt")
    /\ UNCHANGED <<clock, saves, asked>>

Writing(pure_checkpoint) == IF pure_checkpoint THEN "checkpointing" ELSE "saving"

(* save_solution_impl, by the application: "counter incremented each time a *)
(* restart file is written".                                                *)
save_solution_impl(pure_checkpoint) ==
    /\ times_saved_restart' = [r \in Ranks |->
           times_saved_restart[r] + IF should_do_checkpoint(r) THEN 1 ELSE 0]
    /\ outputs' = [r \in Ranks |-> outputs[r] \cup IF pure_checkpoint THEN {} ELSE {t[r]}]
    /\ checkpoints' = [r \in Ranks |-> checkpoints[r] \cup IF pure_checkpoint THEN {t[r]} ELSE {}]

(* Bug: the initial condition counts as one of the outputs.                 *)
save_solution_Initial(pure_checkpoint) ==
    /\ \A r \in Ranks : pc[r] = Writing(pure_checkpoint)
    /\ save_solution_impl(pure_checkpoint)
    /\ times_saved' = [r \in Ranks |-> times_saved[r] + 1]
    /\ pc' = [r \in Ranks |-> AfterOutputs(r)]
    /\ UNCHANGED <<clock, asked>>

(* "do not increment when dumping initial condition": a pure checkpoint     *)
(* counts as well.                                                          *)
save_solution(pure_checkpoint) ==
    /\ \A r \in Ranks : pc[r] = Writing(pure_checkpoint)
    /\ save_solution_impl(pure_checkpoint)
    /\ times_saved' = [r \in Ranks |-> times_saved[r] + IF iteration[r] > 0 THEN 1 ELSE 0]
    /\ pc' = [r \in Ranks |-> AfterOutputs(r)]
    /\ UNCHANGED <<clock, asked>>

(* An operation all ranks take part in.                                     *)
Collective(operation, after) ==
    /\ \A r \in Ranks : pc[r] = operation
    /\ pc' = [r \in Ranks |-> after]

do_amr_cycle ==
    /\ Collective("adapting", "balance")
    /\ UNCHANGED <<clock, saves, asked>>

do_load_balancing ==
    /\ Collective("balancing", "dt")
    /\ UNCHANGED <<clock, saves, asked>>

(* Bug: the step reaches beyond the end of the run.                         *)
Clipped_Not(r, d) == d

Clipped(r, d) == IF t[r] + d > config.tEnd THEN config.tEnd - t[r] ELSE d

(* Bug: each rank keeps its own time step.                                  *)
reduce_dt_Local ==
    /\ Collective("dt", "advance")
    /\ \E d \in [Ranks -> LocalSteps] :
          dt' = [r \in Ranks |-> Clipped(r, d[r])]
    /\ UNCHANGED <<config, t, iteration, saves, asked>>

(* compute_dt with MPI_Allreduce of what the ranks found locally.           *)
reduce_dt ==
    /\ config.constant_dt = 0
    /\ Collective("dt", "advance")
    /\ \E d \in [Ranks -> LocalSteps] :
          dt' = [r \in Ranks |-> Clipped(r, Min({d[s] : s \in Ranks}))]
    /\ UNCHANGED <<config, t, iteration, saves, asked>>

(* compute_dt with a constant time step: nothing is communicated.           *)
constant_dt(r) ==
    /\ config.constant_dt > 0
    /\ pc[r] = "dt"
    /\ dt' = [dt EXCEPT ![r] = Clipped(r, config.constant_dt)]
    /\ pc' = [pc EXCEPT ![r] = "advance"]
    /\ UNCHANGED <<config, t, iteration, saves, asked>>

(* The end of next_iteration.                                               *)
advance(r) ==
    /\ pc[r] = "advance"
    /\ iteration' = [iteration EXCEPT ![r] = @ + 1]
    /\ t' = [t EXCEPT ![r] = @ + dt[r]]
    /\ pc' = [pc EXCEPT ![r] = "output"]
    /\ UNCHANGED <<config, dt, saves, asked>>

Stopped == \A r \in Ranks : pc[r] = "done"

Next ==
    \/ save_solution(FALSE) \/ save_solution(TRUE)
    \/ do_amr_cycle \/ do_load_balancing \/ reduce_dt
    \/ \E r \in Ranks :
          \/ DecideOutput(r) \/ DecideAmrCycle(r) \/ DecideLoadBalancing(r)
          \/ constant_dt(r) \/ advance(r)
    \/ Stopped /\ UNCHANGED vars

Spec == Init /\ [][Next]_vars

----------------------------------------------------------------------------
(* Properties                                                               *)

(* The clock of a rank stays within the run, and so do its counters.        *)
TypeOK ==
    /\ config \in Settings
    /\ pc \in [Ranks -> {"output", "saving", "checkpointing", "amr", "adapting",
                         "balance", "balancing", "dt", "advance", "done"}]
    /\ t \in [Ranks -> config.tBegin .. config.tEnd]
    /\ dt \in [Ranks -> 1 .. config.tEnd]
    /\ iteration \in [Ranks -> 0 .. MaxIterations]
    /\ times_saved \in [Ranks -> 0 .. MaxIterations]
    /\ times_saved_restart \in [Ranks -> 0 .. MaxIterations + 1]

Waiting(r) == pc[r] \in {"saving", "checkpointing", "adapting", "balancing", "done"}
                        \cup (IF config.constant_dt = 0 THEN {"dt"} ELSE {})

(* Two ranks that wait for the others wait for the same operation, at the   *)
(* same time of the run, and none ends while another waits: each decides    *)
(* alone, from a clock advanced by the reduced time step                    *)
(* (SolverBase::compute_dt, should_...).                                    *)
SameOperation ==
    \A r, s \in Ranks : Waiting(r) /\ Waiting(s)
        => pc[r] = pc[s] /\ t[r] = t[s] /\ iteration[r] = iteration[s]

(* The n-th due time is before b.                                           *)
PastDue(b, n) ==
    IF config.output_policy = "PREDEFINED"
    THEN n \in DOMAIN config.output_times /\ b > config.output_times[n]
    ELSE (b - config.tBegin) * config.nOutput > n * (config.tEnd - config.tBegin)

(* Times that were the first occasion after a due one and have no output.   *)
Missed(r) ==
    {a \in asked[r] \ outputs[r] : \E n \in 1 .. config.nOutput :
        PastDue(a, n) /\ \A b \in asked[r] : PastDue(b, n) => a <= b}

(* However long the steps, an output is made at the first time after the    *)
(* due one at which a rank could write, but for one that each pure           *)
(* checkpoint takes the place of, since it is counted as one.               *)
MissedByCheckpoints ==
    \A r \in Ranks : pc[r] # "saving" => Cardinality(Missed(r)) <= Cardinality(checkpoints[r])

(* Between its beginning and its end, a run never has more outputs than due *)
(* times are past, and none if there is to be "no output at all": neither a *)
(* long step, nor a checkpoint, nor an output that was late brings one too  *)
(* many (SolverBase::should_save_solution, save_solution).                  *)
NoMoreThanDue ==
    \A r \in Ranks :
        LET n == Cardinality(outputs[r] \ {config.tBegin, config.tEnd})
        IN  /\ config.nOutput = 0 => outputs[r] = {}
            /\ config.nOutput > 0 /\ n > 0 => PastDue(t[r], n)

(* "one output every Delta_t", "times at which an output is requested":     *)
(* each at the first occasion, unless there are checkpoints between them,   *)
(* and no more of them (SolverBase::should_save_solution, save_solution).   *)
OutputsOnTime == MissedByCheckpoints /\ NoMoreThanDue

(* "always write the last time step", unless there is to be "no output at   *)
(* all" (SolverBase::should_save_solution).                                 *)
LastStepWritten ==
    \A r \in Ranks : pc[r] = "done" /\ config.nOutput # 0 => t[r] \in outputs[r]
=============================================================================
