------------------------- MODULE ContinuousTraining -------------------------
(***************************************************************************)
(* Feedback collection and retraining (src/continuous_learning): API       *)
(* processes record feedback in SQLite while trainer processes count,      *)
(* export, train on and mark the untrained records.  Every access opens a  *)
(* connection of its own, so each step of run_continuous_training is a     *)
(* transaction of its own, with the training run (minutes to hours) in the *)
(* middle.                                                                 *)
(*                                                                         *)
(* The training process is src.training.trainer with a command line that   *)
(* train.py builds.  TrainerOptions says which options its parser takes.   *)
(* As it stands it takes --config and --from-scratch only, so it exits     *)
(* with an error before it trains; the runs that are about marking give it *)
(* the options it is called with.                                          *)
(***************************************************************************)
EXTENDS Naturals, Sequences, FiniteSets

CONSTANTS
  Trainers,     \* trainer processes
  Domains,      \* domains of feedback
  All,          \* no --domain: every record
  DomainOf,     \* the --domain of each trainer
  MinSamples,   \* --min-samples
  MaxSamples,   \* --max-samples
  ExportLimit,  \* the limit of 100000 in export_training_data
  TrainerOptions,   \* options the training process accepts
  MaxRecords    \* bound: records

ASSUME TrainingAssumption ==
  /\ All \notin Domains
  /\ DomainOf \in [Trainers -> Domains \cup {All}]
  /\ MinSamples \in Nat /\ MaxSamples \in Nat /\ ExportLimit \in Nat
  /\ MaxRecords \in Nat

VARIABLES
  domain,       \* the feedback table: the domain of record i; ids ascend
  trained,      \* ids whose trained column is 1
  trainer,      \* per trainer, where it is in run_continuous_training
  learned,      \* history: ids a successful training run was given
  overtaken     \* history: per trainer, how many records it could have learned
                \* from others have marked since it counted

trainingVars == <<domain, trained, trainer, learned, overtaken>>

Ids == DOMAIN domain

\* WHERE trained = 0 [AND domain = d]
Untrained(d) == {i \in Ids \ trained : d = All \/ domain[i] = d}

\* ORDER BY id LIMIT k
FirstOf(k, S) == {i \in S : Cardinality({j \in S : j <= i}) <= k}

\* The command line of the training process.
Passed == {"--config", "--resume", "--output", "--num-train-epochs", "--learning-rate"}

Lesser(a, b) == IF a < b THEN a ELSE b

\* The step a trainer is at and the values it carries.
Frame == [step : {"idle", "export", "train", "fetch", "mark"},
          count : Nat, exported : SUBSET (1..MaxRecords), ids : SUBSET (1..MaxRecords)]
Idle == [step |-> "idle", count |-> 0, exported |-> {}, ids |-> {}]

TrainingInit ==
  /\ domain = <<>>
  /\ trained = {}
  /\ trainer = [t \in Trainers |-> Idle]
  /\ learned = {}
  /\ overtaken = [t \in Trainers |-> 0]

-----------------------------------------------------------------------------
\* record
Record(d) ==
  /\ Len(domain) < MaxRecords
  /\ domain' = Append(domain, d)
  /\ UNCHANGED <<trained, trainer, learned, overtaken>>

\* record_batch: all rows in one transaction.
RecordBatch(d) ==
  /\ Len(domain) + 2 <= MaxRecords
  /\ domain' = domain \o <<d, d>>
  /\ UNCHANGED <<trained, trainer, learned, overtaken>>

\* untrained_count; below min_samples the run returns 0.
CountUntrained(t) ==
  LET n == Cardinality(Untrained(DomainOf[t])) IN
  /\ trainer[t].step = "idle"
  /\ n >= MinSamples
  /\ trainer' = [trainer EXCEPT ![t] =
       [Idle EXCEPT !.step = "export", !.count = Lesser(n, MaxSamples)]]
  /\ UNCHANGED <<domain, trained, learned, overtaken>>

\* export_training_data: all untrained records, not the first `count`.
Export(t) ==
  /\ trainer[t].step = "export"
  /\ trainer' = [trainer EXCEPT ![t] =
       [@ EXCEPT !.step = "train",
                 !.exported = FirstOf(ExportLimit, Untrained(DomainOf[t]))]]
  /\ UNCHANGED <<domain, trained, learned, overtaken>>

\* The training process took its command line and ended with exit code 0.
Train(t) ==
  /\ trainer[t].step = "train"
  /\ Passed \subseteq TrainerOptions
  /\ learned' = learned \cup trainer[t].exported
  /\ trainer' = [trainer EXCEPT ![t].step = "fetch"]
  /\ UNCHANGED <<domain, trained, overtaken>>

\* It failed: the run returns 0 and marks nothing.
TrainFails(t) ==
  /\ trainer[t].step = "train"
  /\ trainer' = [trainer EXCEPT ![t] = Idle]
  /\ overtaken' = [overtaken EXCEPT ![t] = 0]
  /\ UNCHANGED <<domain, trained, learned>>

\* Mutant of FetchIds: no limit, whatever is untrained by now.
FetchAllIds(t) ==
  /\ trainer[t].step = "fetch"
  /\ trainer' = [trainer EXCEPT ![t] =
       [@ EXCEPT !.step = "mark", !.ids = Untrained(DomainOf[t])]]
  /\ UNCHANGED <<domain, trained, learned, overtaken>>

\* fetch_untrained(limit=count): the ids are fetched again after training.
FetchIds(t) ==
  /\ trainer[t].step = "fetch"
  /\ trainer' = [trainer EXCEPT ![t] =
       [@ EXCEPT !.step = "mark",
                 !.ids = FirstOf(trainer[t].count, Untrained(DomainOf[t]))]]
  /\ UNCHANGED <<domain, trained, learned, overtaken>>

\* Mutant of Mark: the UPDATE is never committed.
MarkNothing(t) ==
  /\ trainer[t].step = "mark"
  /\ trainer' = [trainer EXCEPT ![t] = Idle]
  /\ overtaken' = [overtaken EXCEPT ![t] = 0]
  /\ UNCHANGED <<domain, trained, learned>>

\* mark_trained: nothing keeps a run off the records another one is at.
Mark(t) ==
  /\ trainer[t].step = "mark"
  /\ trained' = trained \cup trainer[t].ids
  /\ trainer' = [trainer EXCEPT ![t] = Idle]
  /\ overtaken' = [u \in Trainers |->
       IF u = t THEN 0
       ELSE IF trainer[u].step \in {"export", "train", "fetch"}
       THEN overtaken[u] + Cardinality(Untrained(DomainOf[u]) \cap trainer[t].ids)
       ELSE overtaken[u]]
  /\ UNCHANGED <<domain, learned>>

\* The trainer process is killed.
Kill(t) ==
  /\ trainer[t].step # "idle"
  /\ trainer' = [trainer EXCEPT ![t] = Idle]
  /\ overtaken' = [overtaken EXCEPT ![t] = 0]
  /\ UNCHANGED <<domain, trained, learned>>

TrainingNext ==
  \/ \E d \in Domains : Record(d) \/ RecordBatch(d)
  \/ \E t \in Trainers :
       \/ CountUntrained(t) \/ Export(t) \/ Train(t) \/ TrainFails(t)
       \/ FetchIds(t) \/ Mark(t) \/ Kill(t)

TrainingSpec == TrainingInit /\ [][TrainingNext]_trainingVars

\* Retraining is run periodically, and the training process ends; no step is cut
\* off every time, and training fails only finitely often in a row where it can
\* succeed.
TrainingFairness ==
  \A t \in Trainers :
    /\ WF_trainingVars(CountUntrained(t)) /\ WF_trainingVars(Train(t) \/ TrainFails(t))
    /\ SF_trainingVars(Export(t)) /\ SF_trainingVars(Train(t))
    /\ SF_trainingVars(FetchIds(t)) /\ SF_trainingVars(Mark(t))

FairTrainingSpec == TrainingSpec /\ TrainingFairness

-----------------------------------------------------------------------------
TrainingTypeOK ==
  /\ domain \in Seq(Domains) /\ Len(domain) <= MaxRecords
  /\ trained \subseteq Ids
  /\ trainer \in [Trainers -> Frame]
  /\ learned \subseteq Ids
  /\ overtaken \in [Trainers -> Nat]

\* What a run may mark without having trained on it: as many records as other
\* runs marked of those it counted (a run takes no lock, and --domain defaults
\* to every record), and what it counted beyond the limit of an export.
Unexported(t) ==
  overtaken[t] + IF trainer[t].count > ExportLimit THEN trainer[t].count - ExportLimit ELSE 0

\* A run marks what its model was trained on, although the ids are fetched again
\* after training, when new records have come in (fetch_untrained(limit=count)).
\* Only a run that was overtaken marks others, no more than it was overtaken by.
MarkedWereLearned ==
  \A t \in Trainers : trainer[t].step = "mark" =>
    /\ trainer[t].exported \subseteq learned
    /\ Cardinality(trainer[t].ids \ trainer[t].exported) <= Unexported(t)

\* Of what it exported, a run marks the oldest records: what it leaves unmarked
\* is newer than everything it marks.
MarksOldestFirst ==
  \A t \in Trainers : trainer[t].step = "mark" =>
    \A i \in trainer[t].ids \cap trainer[t].exported,
       j \in trainer[t].exported \ (trained \cup trainer[t].ids) : i < j

\* What is marked was learned from, and earlier records before later ones.
MarksAreEarned == MarkedWereLearned /\ MarksOldestFirst

\* Retraining keeps up with the feedback: again and again there are fewer
\* than min_samples records it could still learn from (README.md, section
\* Continuous learning).
BacklogShrinks ==
  \A t \in Trainers : []<>(Cardinality(Untrained(DomainOf[t])) < MinSamples)
=============================================================================
