------------------------------ MODULE Training ------------------------------
(* A training process and the run directory it leaves behind: checkpoints  *)
(* during the fit, then the artifacts, one file after the other.  The      *)
(* process may die anywhere, and another training may follow into the same *)
(* directory.  Losses are abstracted to whether an epoch is the best yet.  *)
EXTENDS Networks, TrainingData

CONSTANTS
    Config,         \* the trainings that may be asked for: name -> TrainConfig or its kin
    SnapshotGap,    \* 10 in the code
    MaxTrainings,   \* bound: trainings into the directory
    None

VARIABLES
    dir,            \* the run directory: file name -> [n: the training that wrote it, v: content]
    job,            \* the training process, or NoJob
    trainings       \* how many have begun

trainingVars == <<dir, job, trainings>>

(* A configuration is [p, backend, data, drop_constant_kpis, use_calendar,  *)
(* calendar_country, use_cell_embedding, held (a percentage), use_ema,      *)
(* epochs, patience, kl: [cyclical, delay, cycle, ratio, cycles, anneal]].  *)
(* What a family has no use for is off.                                     *)

Configs == DOMAIN Config

Version(c) == Config[c].p.arch_version

\* What a GAN's weights after n epochs are saved under, beside those saved as the best.
Snapshot(n) == "e" \o ToString(n)

\* The files that later steps read.
Files == {"X_scaled", "y", "window_anchors", "cell_ids", "kpi_columns", "config_encoder",
          "cell_config_map", "heldout_cells", "arch_params", "training_history",
          "weights", "last"}

\* A ramp or a cycle of no epochs would be divided by.
KlSchedules ==
    [cyclical : BOOLEAN, delay : Nat, cycle : Nat \ {0}, ratio : Nat, cycles : Nat,
     anneal : Nat \ {0}]

ASSUME TrainingAssumption ==
    \A c \in Configs :
       /\ Config[c].epochs \in Nat \ {0} /\ Config[c].use_ema \in BOOLEAN
       /\ Version(c) \in {"v6", "v7", "gan", "diffusion"}
       /\ Config[c].held \in Nat /\ (Version(c) \in {"v6", "v7"} => Config[c].held = 0)
       /\ Config[c].kl \in KlSchedules
       /\ IsFiniteSet(Config[c].data.groups)
       /\ \A g \in Config[c].data.groups : g.anchor \in Int
       /\ \A n \in 1..Config[c].epochs : Snapshot(n) \notin Files

\* What each training loads.
Loaded ==
    [c \in Configs |-> LoadTrainingWindows(Config[c].data, Config[c].drop_constant_kpis,
                                           Config[c].use_calendar)]

Dims(data) ==
    [seq_len |-> SeqLen, feat_dim |-> Len(data.kpis), y_dim |-> YDim(data.cats)]

\* The denoiser is told how wide the calendar is and how many cells there are.
Hyper(c) ==
    IF Version(c) # "diffusion" THEN Config[c].p
    ELSE [Config[c].p EXCEPT !.cond_dim = Loaded[c].cond_dim,
                             !.cell_vocab_size = IF Config[c].use_cell_embedding
                                                 THEN Loaded[c].n_cells ELSE 0]

Build(p, d, tile) ==
    CASE p.arch_version = "v7"        -> BuildV7(p, d, tile)
      [] p.arch_version = "gan"       -> BuildGAN(p, d)
      [] p.arch_version = "diffusion" -> BuildDiffusion(p, d)
      [] OTHER                        -> BuildV6(p, d, tile)

\* The network each training builds.
Trained == [c \in Configs |-> Build(Hyper(c), Dims(Loaded[c]), TRUE)]

TrainCells(j) == CellsOf(Loaded[j.cfg]) \ j.held

\* Files with one more, or another content of it.
With(files, name, content) ==
    [f \in DOMAIN files \cup {name} |-> IF f = name THEN content ELSE files[f]]

Put(file, value, files) == With(files, file, [n |-> job.n, v |-> value])

\* Whether an epoch changes the weights.
Learns(c) ==
    LET backend == Config[c].backend
    IN  CASE Version(c) = "v7"        -> StepV7(backend)
          [] Version(c) = "gan"       -> StepGAN(backend)
          [] Version(c) = "diffusion" -> StepDiffusion(backend)
          [] OTHER                    -> StepV6(backend)

\* The weights as they are after an epoch, or averaged over the steps so far, and
\* the cells they have learned from.
Weights(epoch, averaged) ==
    [cfg |-> job.cfg, epoch |-> epoch, averaged |-> averaged,
     cells |-> IF Learns(job.cfg) THEN TrainCells(job) ELSE {}]

-----------------------------------------------------------------------------
(* The weight of the KL term, epoch by epoch; a ratio is in percent.       *)

\* CyclicalKLAnnealer and _LinearKLAnnealer: is beta at its target?
AtTarget(kl, epoch) ==
    LET e == epoch - kl.delay
    IN  /\ e >= 0
        /\ IF kl.cyclical
           THEN e >= kl.cycle * kl.cycles \/ (e % kl.cycle) * 100 >= kl.ratio * kl.cycle
           ELSE e + 1 >= kl.anneal

RampLen(kl) == IF kl.cyclical THEN (kl.cycle * kl.ratio + 99) \div 100 ELSE kl.anneal

\* Mutant: the best weights are kept as soon as the ramp begins.
MonitorRamp(kl) == kl.delay

\* monitor_start_epoch: from when the best weights are kept.
MonitorStart(kl) == IF kl.delay > 0 THEN kl.delay + RampLen(kl) ELSE 0

-----------------------------------------------------------------------------
(* The fit.                                                                *)

\* model.fit takes the windows, then what there is of calendar and cell index.
FitInputs(c) ==
    <<"x">> \o (IF Config[c].use_calendar THEN <<"c">> ELSE <<>>)
            \o (IF Config[c].use_cell_embedding THEN <<"cell_idx">> ELSE <<>>)

\* _split_inputs and the denoiser take them, by position, for what they are.
FitsDenoiser(c) ==
    LET given == FitInputs(c)
    IN  /\ SplitInputs(Hyper(c)) = given
        /\ DenoiserInputs(Hyper(c)) = <<Head(given), "t", "y">> \o Tail(given)

\* DiffusionEvalCallback and GANDiversityMonitor sample during the fit.
Probed(c) ==
    CASE Version(c) = "gan"       -> GeneratesGAN(FALSE, FALSE)
      [] Version(c) = "diffusion" ->
             GeneratesDiffusion(Hyper(c), Config[c].use_calendar, Config[c].use_cell_embedding)
      [] OTHER                    -> TRUE

\* What does not stop the fit with an exception.  A VAE that does not learn is fitted
\* and saved all the same.
Trainable(c) ==
    /\ Version(c) \in {"gan", "diffusion"} => Learns(c)
    /\ Version(c) = "diffusion" => FitsDenoiser(c)
    /\ Config[c].use_ema => Averages(Config[c].backend)
    /\ Probed(c)

NoJob == [n |-> 0, cfg |-> None, held |-> {}, phase |-> "none", epoch |-> 0, best |-> None,
          wait |-> 0, saved |-> 0]

\* A training that cannot load its data or build its network leaves nothing.
Start(c) ==
    /\ job = NoJob /\ trainings < MaxTrainings
    /\ ~LoadFails(Config[c].data) /\ Loaded[c].kpis # <<>>
    /\ Trainable(c)
    /\ \E H \in HeldOutChoices(Loaded[c], Config[c].held) :
           job' = [n |-> trainings + 1, cfg |-> c, held |-> H, phase |-> "fit",
                   epoch |-> 0, best |-> None, wait |-> 0, saved |-> 0]
    /\ trainings' = trainings + 1
    /\ UNCHANGED dir

Fitting(versions) == job.phase = "fit" /\ Version(job.cfg) \in versions

LastEpoch == job.epoch + 1 = Config[job.cfg].epochs

\* train_cvae: from MonitorStart on, the best weights are kept and patience is
\* counted; the weights of the last epoch are kept in any case.  The first loss that is
\* compared is the best yet.
TrainVAE ==
    /\ Fitting({"v6", "v7"})
    /\ \E lower \in BOOLEAN :
        LET monitored == job.epoch >= MonitorStart(Config[job.cfg].kl)
            improved  == monitored /\ (lower \/ job.best = None)
            wait      == IF ~monitored THEN job.wait ELSE IF improved THEN 0 ELSE job.wait + 1
            stops     == monitored /\ ~improved /\ wait >= Config[job.cfg].patience /\ job.epoch > 0
            best      == IF improved THEN job.epoch ELSE job.best
            w         == Weights(job.epoch, FALSE)
        IN  /\ dir' = Put("last", w, IF improved THEN Put("weights", w, dir) ELSE dir)
            /\ job' = [job EXCEPT !.epoch = @ + 1, !.best = best, !.wait = wait,
                                  !.phase = IF stops \/ LastEpoch THEN "save" ELSE @]
    /\ UNCHANGED trainings

SnapshotEvery(c) == AtLeast(SnapshotGap, Config[c].epochs \div 12)

\* run_gan_training: every epoch's weights, and some under their own name.
TrainGAN ==
    /\ Fitting({"gan"})
    /\ LET w == Weights(job.epoch, FALSE)
       IN  dir' = Put("weights", w, IF (job.epoch + 1) % SnapshotEvery(job.cfg) = 0
                                    THEN Put(Snapshot(job.epoch + 1), w, dir) ELSE dir)
    /\ job' = [job EXCEPT !.epoch = @ + 1, !.best = job.epoch,
                          !.phase = IF LastEpoch THEN "save" ELSE @]
    /\ UNCHANGED trainings

\* run_diffusion_training: the weights of the lowest loss, and the last ones.
TrainDiffusion ==
    /\ Fitting({"diffusion"})
    /\ \E lower \in BOOLEAN :
        LET w        == Weights(job.epoch, FALSE)
            improved == lower \/ job.best = None
        IN  /\ dir' = Put("last", w, IF improved THEN Put("weights", w, dir) ELSE dir)
            /\ job' = [job EXCEPT !.epoch = @ + 1, !.best = IF improved THEN job.epoch ELSE @,
                                  !.phase = CASE ~LastEpoch              -> "fit"
                                              [] Config[job.cfg].use_ema -> "finalize"
                                              [] OTHER                   -> "save"]
    /\ UNCHANGED trainings

\* EMACallback.finalize and the weights saved again over the best ones.
Finalize ==
    /\ job.phase = "finalize"
    /\ dir' = Put("weights", Weights(job.epoch - 1, TRUE), dir)
    /\ job' = [job EXCEPT !.phase = "save"]
    /\ UNCHANGED trainings

-----------------------------------------------------------------------------
(* save_training_artifacts.                                                *)

\* Mutant: diffusion forgets one that no weight's shape depends on.
SavedParamsButClip(version) ==
    IF version # "diffusion" THEN DOMAIN Config[CHOOSE c \in Configs : Version(c) = version].p
    ELSE {"arch_version", "num_timesteps", "beta_schedule", "beta_start", "beta_end", "width",
          "n_blocks", "dilation_cycle", "time_embed_dim", "cond_embed_dim", "cond_dim",
          "cell_vocab_size", "cell_embed_dim"}

\* The hyper-parameters each family's trainer writes down.
SavedParams(version) ==
    CASE version \in {"v6", "v7"} ->
           {"arch_version", "global_latent_dim", "local_latent_dim", "hidden_dim", "n_layers",
            "use_attention", "n_heads", "output_activation"}
      [] version = "gan" ->
           {"arch_version", "latent_dim", "hidden_dim", "n_layers", "use_attention", "n_heads",
            "gen_use_pe", "critic_use_pe", "kpi_proj_activation", "per_step_noise_dim",
            "use_minibatch_stddev", "use_first_diff", "output_activation"}
      [] version = "diffusion" ->
           {"arch_version", "num_timesteps", "beta_schedule", "beta_start", "beta_end",
            "output_clip", "width", "n_blocks", "dilation_cycle", "time_embed_dim",
            "cond_embed_dim", "cond_dim", "cell_vocab_size", "cell_embed_dim"}

\* A training has the hyper-parameters of its family.
ASSUME ParamsAssumption == \A c \in Configs : SavedParams(Version(c)) \subseteq DOMAIN Config[c].p

ArchParams(j) ==
    [p |-> Restrict(Hyper(j.cfg), SavedParams(Version(j.cfg))), tile_z |-> TRUE,
     seq_len |-> SeqLen, feat_dim |-> Len(Loaded[j.cfg].kpis)]

\* Mutant: the parameters are written before the rest.
ParamsFirst(j) ==
    <<"arch_params", "X_scaled", "y", "window_anchors", "cell_ids", "kpi_columns",
      "config_encoder", "cell_config_map", "training_history">>

\* The file for the held-out cells is there for a training that holds some out.
SaveOrder(j) ==
    <<"X_scaled", "y", "window_anchors", "cell_ids", "kpi_columns", "config_encoder",
      "cell_config_map">>
    \o (IF j.held # {} THEN <<"heldout_cells">> ELSE <<>>)
    \o <<"arch_params", "training_history">>

\* Windows and their labels are those trained on; encoders and map know every cell.
Artifact(file, j) ==
    LET all   == Loaded[j.cfg]
        train == KeepCells(all, TrainCells(j))
    IN  CASE file = "X_scaled"         -> train.windows
          [] file = "y"                -> {train.config[w.cell] : w \in train.windows}
          [] file = "window_anchors"   -> {w.anchor : w \in train.windows}
          [] file = "cell_ids"         -> CellsOf(train)
          [] file = "kpi_columns"      -> train.kpis
          [] file = "config_encoder"   -> train.cats
          [] file = "cell_config_map"  -> [map |-> all.config, cell_encoder |-> all.encoder]
          [] file = "heldout_cells"    -> j.held
          [] file = "arch_params"      -> ArchParams(j)
          [] file = "training_history" -> j.epoch

SaveNext ==
    /\ job.phase = "save"
    /\ LET order == SaveOrder(job)
           file  == order[job.saved + 1]
       IN  /\ dir' = Put(file, Artifact(file, job), dir)
           /\ job' = IF job.saved + 1 = Len(order) THEN NoJob ELSE [job EXCEPT !.saved = @ + 1]
    /\ UNCHANGED trainings

\* The process dies: what is on disk stays.
Die == job # NoJob /\ job' = NoJob /\ UNCHANGED <<dir, trainings>>

-----------------------------------------------------------------------------
TrainingInit == dir = <<>> /\ job = NoJob /\ trainings = 0

TrainingNext ==
    \/ \E c \in Configs : Start(c)
    \/ TrainVAE \/ TrainGAN \/ TrainDiffusion
    \/ Finalize
    \/ SaveNext
    \/ Die

-----------------------------------------------------------------------------
WrittenBy(file, n) == file \in DOMAIN dir /\ dir[file].n = n

\* The weights a training of the family ends with, given its last epoch.
Final(w) ==
    CASE Version(w.cfg) = "gan"             -> w.epoch = Config[w.cfg].epochs - 1
      [] Version(w.cfg) = "diffusion"       -> w.averaged = Config[w.cfg].use_ema
      [] Version(w.cfg) \in {"v6", "v7"}    -> TRUE

\* The cells that the map knows and the saved windows are not of.
LeftOut == DOMAIN dir["cell_config_map"].v.map \ dir["cell_ids"].v

\* A VAE's last weights, of a training over before an epoch was monitored.
Unmonitored(last) ==
    Version(last.cfg) \in {"v6", "v7"} /\ last.epoch < MonitorStart(Config[last.cfg].kl)

\* When arch_params.json or training_history of a training is there, and no later one has
\* begun to write, the directory is no mix of two trainings: every artifact a generation
\* reads is of that training, the held-out cells on file are those it left out, and its
\* weights are its final ones, not those an epoch left.  Only a VAE that was over before
\* an epoch was monitored has no weights of its own but the last ones.
FinishedIsWhole ==
    \A n \in 1..trainings :
        /\ WrittenBy("arch_params", n) \/ WrittenBy("training_history", n)
        /\ \A f \in DOMAIN dir : dir[f].n <= n
        =>  /\ \A f \in {"X_scaled", "y", "window_anchors", "cell_ids", "kpi_columns",
                          "config_encoder", "cell_config_map", "arch_params"} : WrittenBy(f, n)
            /\ LeftOut # {} =>
                  WrittenBy("heldout_cells", n) /\ dir["heldout_cells"].v = LeftOut
            /\ \/ WrittenBy("weights", n) /\ Final(dir["weights"].v)
               \/ WrittenBy("last", n) /\ Unmonitored(dir["last"].v)

\* Beta is at its target in an epoch, or ramps up again after a first cycle that was.
Annealed(kl, epoch) ==
    \/ AtTarget(kl, epoch)
    \/ /\ kl.cyclical /\ epoch - kl.delay >= kl.cycle
       /\ \E e \in kl.delay..(kl.delay + kl.cycle - 1) : AtTarget(kl, e)

\* With a delay, a low reconstruction loss under no KL pressure does not win for ever: the
\* best weights are of an epoch whose own beta was at its target, but for the ramps that
\* begin later cycles.
BestIsAnnealed ==
    \A f \in DOMAIN dir \cap {"weights"} :
        LET w == dir[f].v
        IN  Version(w.cfg) \in {"v6", "v7"} /\ Config[w.cfg].kl.delay > 0 =>
                Annealed(Config[w.cfg].kl, w.epoch)

\* A held-out cell is in nothing the network was trained on, and its configuration is
\* one the network has seen: generating for it is a fair test, at any seed.
HoldoutIsFair ==
    \A n \in 1..trainings :
        (\A f \in {"heldout_cells", "weights", "cell_ids", "cell_config_map"} : WrittenBy(f, n)) =>
            LET held   == dir["heldout_cells"].v
                seen   == dir["weights"].v.cells
                config == dir["cell_config_map"].v.map
            IN  /\ held # {} /\ held \cap (seen \cup dir["cell_ids"].v) = {}
                /\ \A c \in held : \E s \in seen : config[s] = config[c]
=============================================================================
