--------------------------- MODULE GeneratorProofs --------------------------
(***************************************************************************)
(* Theorems about the generator's run directory and what is generated from *)
(* it, for any trainings, data sets, arguments and number of retries.      *)
(***************************************************************************)
EXTENDS Similarity, FiniteSetTheorems, WellFoundedInduction, TLAPS

-----------------------------------------------------------------------------
(* Files.                                                                  *)

Seven == {"X_scaled", "y", "window_anchors", "cell_ids", "kpi_columns", "config_encoder",
          "cell_config_map"}

\* In which order the artifacts are saved.
LEMMA SaveOrderOf ==
    ASSUME NEW j
    PROVE  \E k \in {8, 9} :
              /\ Len(SaveOrder(j)) = k + 1
              /\ \A i \in 1..7 : SaveOrder(j)[i] \in Seven
              /\ \A f \in Seven : \E i \in 1..7 : SaveOrder(j)[i] = f
              /\ SaveOrder(j)[k] = "arch_params" /\ SaveOrder(j)[k + 1] = "training_history"
              /\ k = 9 => SaveOrder(j)[8] = "heldout_cells" /\ j.held # {}
              /\ k = 8 => j.held = {}
PROOF
<1>1. CASE j.held = {}
  BY <1>1 DEF SaveOrder, Seven
<1>2. CASE j.held # {}
  BY <1>2 DEF SaveOrder, Seven
<1> QED BY <1>1, <1>2

-----------------------------------------------------------------------------
(* The cells that are held out.                                            *)

\* At least one cell of each configuration is trained on.
LEMMA HoldoutLeavesOne ==
    ASSUME NEW n \in Nat \ {0}, NEW f \in Nat
    PROVE  HoldoutSize(n, f) \in Int /\ HoldoutSize(n, f) < n
PROOF
<1>1. CASE n < 2
  BY <1>1 DEF HoldoutSize
<1>2. CASE ~(n < 2)
  <2> DEFINE r == RoundHalfEven(n, f)
             a == Max({1, r})
  <2>1. r \in Int
    <3>1. n * f \in Nat
      OBVIOUS
    <3> QED BY <3>1 DEF RoundHalfEven
  <2> HIDE DEF r
  <2>2. a \in Int
    <3>1. \E x \in {1, r} : \A y \in {1, r} : x >= y
      BY <2>1
    <3>2. a \in {1, r}
      BY <3>1 DEF Max
    <3> QED BY <2>1, <3>2
  <2> HIDE DEF a
  <2>3. Min({a, n - 1}) \in {a, n - 1} /\ Min({a, n - 1}) <= n - 1
    <3>1. \E x \in {a, n - 1} : \A y \in {a, n - 1} : x <= y
      BY <2>2
    <3> QED BY <3>1 DEF Min
  <2>4. HoldoutSize(n, f) = Min({a, n - 1})
    BY <1>2 DEF HoldoutSize, a, r
  <2> QED BY <2>2, <2>3, <2>4
<1> QED BY <1>1, <1>2

LEMMA LoadedOf ==
    ASSUME NEW c \in Configs
    PROVE  /\ DOMAIN Loaded[c].config = CellsOf(Loaded[c])
           /\ IsFiniteSet(CellsOf(Loaded[c]))
           /\ \A x \in CellsOf(Loaded[c]) : ObjectName[x] # "metadata"
           /\ Loaded[c] = [Loaded[c] EXCEPT !.windows = Loaded[c].windows]
PROOF
<1> DEFINE d == Config[c].data
           L == LoadTrainingWindows(d, Config[c].drop_constant_kpis, Config[c].use_calendar)
<1>1. Loaded[c] = L
  BY DEF Loaded
<1>2. L.windows = Stack(d) /\ DOMAIN L.config = {w.cell : w \in Stack(d)}
      /\ L = [L EXCEPT !.windows = L.windows]
  BY DEF LoadTrainingWindows
<1>3. CellsOf(L) = {w.cell : w \in Stack(d)}
  BY <1>2 DEF CellsOf
<1>4. \A w \in Stack(d) : \E g \in d.groups : w.cell = g.cell
  BY DEF Stack
<1>5. IsFiniteSet({w.cell : w \in Stack(d)})
  <2> DEFINE G == d.groups
             name == [g \in G |-> g.cell]
             N == {g.cell : g \in G}
  <2>1. IsFiniteSet(G)
    BY TrainingAssumption
  <2>2. name \in Surjection(G, N)
    BY DEF Surjection
  <2>3. IsFiniteSet(N)
    BY <2>1, <2>2, FS_Surjection
  <2>4. {w.cell : w \in Stack(d)} \in SUBSET N
    BY <1>4
  <2> QED BY <2>3, <2>4, FS_Subset
<1>6. \A x \in {w.cell : w \in Stack(d)} : ObjectName[x] # "metadata"
  BY <1>4, GenerationAssumption
<1> HIDE DEF L
<1> QED BY <1>1, <1>2, <1>3, <1>5, <1>6

\* The windows that are kept are of all the cells that are kept.
LEMMA KeepCellsOf ==
    ASSUME NEW c \in Configs, NEW T, T \subseteq CellsOf(Loaded[c])
    PROVE  CellsOf(KeepCells(Loaded[c], T)) = T
PROOF
<1> DEFINE L == Loaded[c]
<1>1. L = [L EXCEPT !.windows = L.windows] /\ T \subseteq CellsOf(L)
  BY LoadedOf
<1> HIDE DEF L
<1>2. KeepCells(L, T).windows = {w \in L.windows : w.cell \in T}
  BY <1>1 DEF KeepCells
<1>3. CellsOf(KeepCells(L, T)) = T
  BY <1>1, <1>2 DEF CellsOf
<1> QED BY <1>3 DEF L

\* Whoever is held out has a twin that is not.
LEMMA TwinsRemain ==
    ASSUME NEW c \in Configs, NEW H \in HeldOutChoices(Loaded[c], Config[c].held), NEW x \in H
    PROVE  /\ x \in CellsOf(Loaded[c]) /\ Config[c].held > 0
           /\ \E s \in CellsOf(Loaded[c]) \ H : Loaded[c].config[s] = Loaded[c].config[x]
PROOF
<1> DEFINE config == Loaded[c].config
           f == Config[c].held
           S == SameConfig(config, config[x])
<1>1. f \in Nat
  BY TrainingAssumption
<1>2. f > 0 /\ H \in HoldoutChoices(config, f)
  BY <1>1 DEF HeldOutChoices
<1>3. H \subseteq DOMAIN config
      /\ Cardinality(H \cap S) = HoldoutSize(Cardinality(S), f)
  BY <1>2 DEF HoldoutChoices
<1>4. DOMAIN config = CellsOf(Loaded[c]) /\ IsFiniteSet(DOMAIN config)
  BY LoadedOf
<1>5. S \subseteq DOMAIN config /\ x \in S
  BY <1>3 DEF SameConfig
<1>6. IsFiniteSet(S)
  BY <1>4, <1>5, FS_Subset
<1>7. Cardinality(S) \in Nat \ {0}
  BY <1>5, <1>6, FS_CardinalityType, FS_EmptySet
<1>8. Cardinality(H \cap S) < Cardinality(S)
  BY <1>1, <1>3, <1>7, HoldoutLeavesOne
<1>9. H \cap S # S
  BY <1>7, <1>8
<1>10. PICK s \in S : s \notin H
  BY <1>9
<1> QED BY <1>2, <1>3, <1>4, <1>5, <1>10 DEF SameConfig

-----------------------------------------------------------------------------
(* The invariant of the run directory.                                     *)

Busy == job.phase # "none"

JobInv ==
    /\ job = [n |-> job.n, cfg |-> job.cfg, held |-> job.held, phase |-> job.phase,
              epoch |-> job.epoch, best |-> job.best, wait |-> job.wait, saved |-> job.saved]
    /\ trainings \in Nat
    /\ job.phase \in {"none", "fit", "finalize", "save"}
    /\ Busy => /\ job.n = trainings /\ trainings > 0 /\ job.cfg \in Configs
               /\ job.held \in HeldOutChoices(Loaded[job.cfg], Config[job.cfg].held)
               /\ Config[job.cfg].held > 0 => Learns(job.cfg)
               /\ job.epoch \in Nat /\ job.saved \in Nat

\* A training that fits has written nothing but weights, and none that are averaged.
FitInv ==
    /\ job.phase \in {"fit", "finalize"} =>
          /\ job.saved = 0
          /\ \A f \in Files \ {"weights", "last"} : ~WrittenBy(f, job.n)
          /\ WrittenBy("weights", job.n) => dir["weights"].v.averaged = FALSE
    /\ job.phase = "fit" => job.epoch < Config[job.cfg].epochs
    /\ job.phase = "finalize" => Version(job.cfg) = "diffusion" /\ Config[job.cfg].use_ema

\* One that saves has its final weights, and the artifacts up to where it is.
SaveInv ==
    job.phase = "save" =>
       /\ job.saved < Len(SaveOrder(job))
       /\ \A i \in 1..job.saved : WrittenBy(SaveOrder(job)[i], job.n)
       /\ WrittenBy("weights", job.n) => Final(dir["weights"].v)
       /\ WrittenBy("arch_params", job.n) => job.saved >= Len(SaveOrder(job)) - 1

\* The first epoch that is compared.
FirstKept(c) == IF Version(c) \in {"v6", "v7"} THEN MonitorStart(Config[c].kl) ELSE 0

\* Once an epoch has been compared, there are weights of this training; a VAE's last
\* weights are of its last epoch.
KeptInv ==
    Busy =>
       /\ job.best = None \/ WrittenBy("weights", job.n)
       /\ job.epoch > FirstKept(job.cfg) => WrittenBy("weights", job.n)
       /\ job.phase \in {"finalize", "save"} => job.epoch > 0
       /\ Version(job.cfg) \in {"v6", "v7"} /\ job.epoch > 0 =>
             /\ WrittenBy("last", job.n)
             /\ dir["last"].v.cfg = job.cfg /\ dir["last"].v.epoch = job.epoch - 1

\* What a training wrote is about its own cells.
OwnInv ==
    Busy =>
       /\ WrittenBy("weights", job.n) =>
             /\ dir["weights"].v.cfg = job.cfg
             /\ dir["weights"].v.cells = IF Learns(job.cfg) THEN TrainCells(job) ELSE {}
       /\ WrittenBy("heldout_cells", job.n) => dir["heldout_cells"].v = job.held /\ job.held # {}
       /\ WrittenBy("cell_ids", job.n) =>
             dir["cell_ids"].v = CellsOf(KeepCells(Loaded[job.cfg], TrainCells(job)))
       /\ WrittenBy("cell_config_map", job.n) =>
             dir["cell_config_map"].v.map = Loaded[job.cfg].config

\* A file is of a training that has begun; the map is of cells; with the parameters are
\* the artifacts before them, of that training or a later one.
DirInv ==
    /\ \A f \in DOMAIN dir : dir[f].n \in 1..trainings
    /\ "cell_config_map" \in DOMAIN dir =>
          \A x \in DOMAIN dir["cell_config_map"].v.map : ObjectName[x] # "metadata"
    /\ "arch_params" \in DOMAIN dir =>
          \A f \in Seven : f \in DOMAIN dir /\ dir[f].n >= dir["arch_params"].n
    /\ \A n \in Nat : WrittenBy("arch_params", n) /\ WrittenBy("weights", n) =>
                          Final(dir["weights"].v)

\* With the parameters are weights, of that training or a later one, or none was compared.
KeptDir ==
    "arch_params" \in DOMAIN dir =>
        LET n == dir["arch_params"].n
        IN  \/ "weights" \in DOMAIN dir /\ dir["weights"].n >= n
            \/ /\ "last" \in DOMAIN dir
               /\ dir["last"].n > n \/ (dir["last"].n = n /\ Unmonitored(dir["last"].v))

\* Before the history come the parameters.
HistoryDir ==
    "training_history" \in DOMAIN dir =>
        "arch_params" \in DOMAIN dir /\ dir["arch_params"].n >= dir["training_history"].n

\* With the parameters are the cells that were left out, unless a later training's are.
HeldDir ==
    \A n \in Nat :
        /\ \A f \in {"arch_params", "cell_ids", "cell_config_map"} : WrittenBy(f, n)
        /\ LeftOut # {}
        =>  /\ "heldout_cells" \in DOMAIN dir
            /\ \/ dir["heldout_cells"].n > n
               \/ dir["heldout_cells"].n = n /\ dir["heldout_cells"].v = LeftOut

WholeInv == KeptDir /\ HistoryDir /\ HeldDir

TrainInv ==
    JobInv /\ FitInv /\ SaveInv /\ KeptInv /\ OwnInv /\ DirInv /\ WholeInv /\ HoldoutIsFair

LEMMA TrainInit == TrainingInit => TrainInv
PROOF
<1> SUFFICES ASSUME TrainingInit PROVE TrainInv
  OBVIOUS
<1>1. dir = <<>> /\ job = NoJob /\ trainings = 0 /\ DOMAIN dir = {}
  BY DEF TrainingInit
<1>2. JobInv /\ job.phase = "none"
  BY <1>1 DEF JobInv, NoJob, Busy
<1>3. FitInv /\ SaveInv /\ KeptInv /\ OwnInv
  BY <1>2 DEF FitInv, SaveInv, KeptInv, OwnInv, Busy
<1>4. DirInv /\ WholeInv /\ HoldoutIsFair
  BY <1>1 DEF DirInv, WholeInv, KeptDir, HistoryDir, HeldDir, HoldoutIsFair, WrittenBy
<1> QED BY <1>2, <1>3, <1>4 DEF TrainInv

Fair(held, seen, ids, config) ==
    /\ held # {} /\ held \cap (seen \cup ids) = {}
    /\ \A c \in held : \E s \in seen : config[s] = config[c]

\* A training that holds cells out is fair to them.
LEMMA HoldingOutIsFair ==
    ASSUME JobInv, Busy, job.held # {}
    PROVE  Fair(job.held, IF Learns(job.cfg) THEN TrainCells(job) ELSE {},
                CellsOf(KeepCells(Loaded[job.cfg], TrainCells(job))), Loaded[job.cfg].config)
PROOF
<1> DEFINE L == Loaded[job.cfg]
           T == TrainCells(job)
           K == CellsOf(KeepCells(L, T))
<1>1. job.cfg \in Configs /\ job.held \in HeldOutChoices(L, Config[job.cfg].held)
      /\ (Config[job.cfg].held > 0 => Learns(job.cfg))
  BY DEF JobInv
<1>2. T = CellsOf(L) \ job.held
  BY DEF TrainCells
<1>3. \A c \in job.held : \E s \in T : L.config[s] = L.config[c]
  BY <1>1, <1>2, TwinsRemain
<1>4. Learns(job.cfg)
  BY <1>1, TwinsRemain
<1>5. K \subseteq T
  <2>1. L = [L EXCEPT !.windows = L.windows]
    BY <1>1, LoadedOf
  <2> HIDE DEF L, T
  <2>2. KeepCells(L, T).windows = {w \in L.windows : w.cell \in T}
    BY <2>1 DEF KeepCells
  <2> QED BY <2>2 DEF CellsOf, K
<1>6. job.held \cap (T \cup K) = {}
  BY <1>2, <1>5
<1> HIDE DEF T, K, L
<1>7. Fair(job.held, T, K, L.config)
  BY <1>3, <1>6 DEF Fair
<1> QED BY <1>4, <1>7 DEF T, K, L

LEMMA FirstKeptIs ==
    ASSUME NEW c \in Configs
    PROVE  FirstKept(c) \in Nat
PROOF
<1> DEFINE kl == Config[c].kl
<1>1. kl \in KlSchedules
  BY TrainingAssumption
<1>2. kl.cycle \in Nat /\ kl.ratio \in Nat /\ kl.anneal \in Nat /\ kl.delay \in Nat
  BY <1>1 DEF KlSchedules
<1> HIDE DEF kl
<1>3. RampLen(kl) \in Nat
  <2>1. kl.cycle * kl.ratio \in Nat
    BY <1>2
  <2>2. (kl.cycle * kl.ratio + 99) \div 100 \in Nat
    BY <2>1
  <2> QED BY <1>2, <2>2 DEF RampLen
<1>4. MonitorStart(kl) \in Nat
  BY <1>2, <1>3 DEF MonitorStart
<1> QED BY <1>4 DEF FirstKept, kl

LEMMA StartKeeps ==
    ASSUME TrainInv, NEW c \in Configs, Start(c)
    PROVE  TrainInv'
PROOF
<1>1. PICK H \in HeldOutChoices(Loaded[c], Config[c].held) :
         job' = [n |-> trainings + 1, cfg |-> c, held |-> H, phase |-> "fit",
                 epoch |-> 0, best |-> None, wait |-> 0, saved |-> 0]
  BY DEF Start
<1>2. trainings' = trainings + 1 /\ dir' = dir /\ Trainable(c) /\ trainings \in Nat
  BY DEF Start, TrainInv, JobInv
<1>3. job'.n = trainings + 1 /\ job'.cfg = c /\ job'.held = H /\ job'.phase = "fit"
      /\ job'.epoch = 0 /\ job'.saved = 0 /\ job'.best = None
  BY <1>1
<1>4. Config[c].held > 0 => Learns(c)
  BY <1>2, TrainingAssumption DEF Trainable
<1>5. JobInv'
  BY <1>1, <1>2, <1>3, <1>4 DEF JobInv, Busy
<1>6. \A f \in DOMAIN dir : dir[f].n # trainings + 1
  BY <1>2 DEF TrainInv, DirInv
<1>7. \A f : ~WrittenBy(f, job.n)'
  BY <1>2, <1>3, <1>6 DEF WrittenBy
<1>8. FitInv'
  <2>1. 0 < Config[c].epochs
    BY TrainingAssumption
  <2> QED BY <1>3, <1>7, <2>1 DEF FitInv
<1>9. SaveInv' /\ OwnInv' /\ KeptInv'
  <2>1. FirstKept(c) \in Nat
    BY FirstKeptIs
  <2> QED BY <1>3, <1>7, <2>1 DEF SaveInv, OwnInv, KeptInv
<1>10. DirInv' /\ WholeInv'
  BY <1>2 DEF TrainInv, DirInv, WholeInv, KeptDir, HistoryDir, HeldDir, LeftOut, WrittenBy
<1>11. HoldoutIsFair'
  <2> SUFFICES ASSUME NEW n \in 1..(trainings + 1),
                      \A f \in {"heldout_cells", "weights", "cell_ids", "cell_config_map"} :
                         WrittenBy(f, n)
               PROVE  LET held   == dir["heldout_cells"].v
                          seen   == dir["weights"].v.cells
                          config == dir["cell_config_map"].v.map
                      IN  /\ held # {} /\ held \cap (seen \cup dir["cell_ids"].v) = {}
                          /\ \A x \in held : \E s \in seen : config[s] = config[x]
    BY <1>2 DEF HoldoutIsFair, WrittenBy
  <2>1. n \in 1..trainings
    BY <1>2, <1>6 DEF WrittenBy
  <2> QED BY <2>1 DEF TrainInv, HoldoutIsFair
<1> QED BY <1>5, <1>8, <1>9, <1>10, <1>11 DEF TrainInv

LEMMA DieKeeps ==
    ASSUME TrainInv, job' = NoJob, UNCHANGED <<dir, trainings>>
    PROVE  TrainInv'
PROOF
<1>1. job'.phase = "none"
  BY DEF NoJob
<1>2. JobInv'
  BY <1>1 DEF TrainInv, JobInv, NoJob, Busy
<1>3. FitInv' /\ SaveInv' /\ KeptInv' /\ OwnInv'
  BY <1>1 DEF FitInv, SaveInv, KeptInv, OwnInv, Busy
<1>4. DirInv' /\ HoldoutIsFair'
  BY DEF TrainInv, DirInv, HoldoutIsFair, WrittenBy
<1>5. WholeInv'
  BY DEF TrainInv, WholeInv, KeptDir, HistoryDir, HeldDir, LeftOut, WrittenBy
<1> QED BY <1>2, <1>3, <1>4, <1>5 DEF TrainInv

-----------------------------------------------------------------------------
(* The fit.                                                                *)

\* What writes nothing but checkpoints, and says whether the weights are averaged.
FitWrites(e, averaged) ==
    /\ DOMAIN dir \subseteq DOMAIN dir'
    /\ \A f \in Files \ {"weights", "last"} :
          /\ f \in DOMAIN dir' <=> f \in DOMAIN dir
          /\ f \in DOMAIN dir => dir'[f] = dir[f]
    /\ \A f \in DOMAIN dir' :
          (f \in DOMAIN dir /\ dir'[f] = dir[f]) \/ dir'[f].n = job.n
    /\ "weights" \in DOMAIN dir' =>
          \/ "weights" \in DOMAIN dir /\ dir'["weights"] = dir["weights"]
          \/ dir'["weights"] = [n |-> job.n, v |-> Weights(e, averaged)]

LEMMA FitKeepsDir ==
    ASSUME TrainInv, job.phase \in {"fit", "finalize"}, UNCHANGED trainings,
           NEW e, NEW a, FitWrites(e, a)
    PROVE  DirInv' /\ HoldoutIsFair'
PROOF
<1>1. Busy /\ job.n = trainings /\ job.n \in 1..trainings
  BY DEF TrainInv, JobInv, Busy
<1>2. Seven \subseteq Files \ {"weights", "last"}
      /\ {"heldout_cells", "arch_params"} \subseteq Files \ {"weights", "last"}
  BY DEF Seven, Files
<1>3. \A f \in Files \ {"weights", "last"} :
         /\ ~WrittenBy(f, job.n)
         /\ \A n : WrittenBy(f, n)' <=> WrittenBy(f, n)
  BY DEF TrainInv, FitInv, FitWrites, WrittenBy
<1>4. \A n : n # job.n /\ WrittenBy("weights", n)' =>
                WrittenBy("weights", n) /\ dir'["weights"] = dir["weights"]
  BY DEF FitWrites, WrittenBy
<1>5. \A f \in DOMAIN dir' : dir'[f].n \in 1..trainings
  BY <1>1 DEF TrainInv, DirInv, FitWrites
<1>6. "cell_config_map" \in DOMAIN dir' =>
         \A x \in DOMAIN dir'["cell_config_map"].v.map : ObjectName[x] # "metadata"
  BY <1>2 DEF TrainInv, DirInv, FitWrites, Seven
<1>7. "arch_params" \in DOMAIN dir' =>
         \A f \in Seven : f \in DOMAIN dir' /\ dir'[f].n >= dir'["arch_params"].n
  BY <1>2 DEF TrainInv, DirInv, FitWrites
<1>8. \A n \in Nat : WrittenBy("arch_params", n)' /\ WrittenBy("weights", n)' =>
                        Final(dir'["weights"].v)
  BY <1>2, <1>3, <1>4 DEF TrainInv, DirInv
<1>9. DirInv'
  BY <1>5, <1>6, <1>7, <1>8 DEF DirInv, Final
<1>10. HoldoutIsFair'
  <2> SUFFICES ASSUME NEW n \in 1..trainings,
                      \A f \in {"heldout_cells", "weights", "cell_ids", "cell_config_map"} :
                         WrittenBy(f, n)'
               PROVE  LET held   == dir'["heldout_cells"].v
                          seen   == dir'["weights"].v.cells
                          config == dir'["cell_config_map"].v.map
                      IN  /\ held # {} /\ held \cap (seen \cup dir'["cell_ids"].v) = {}
                          /\ \A x \in held : \E s \in seen : config[s] = config[x]
    BY DEF HoldoutIsFair
  <2>1. n # job.n
    BY <1>2, <1>3
  <2>2. \A f \in {"heldout_cells", "weights", "cell_ids", "cell_config_map"} :
           WrittenBy(f, n) /\ dir'[f] = dir[f]
    BY <1>2, <1>3, <1>4, <2>1 DEF Seven, FitWrites, WrittenBy
  <2> QED BY <2>2 DEF TrainInv, HoldoutIsFair
<1> QED BY <1>9, <1>10

LEMMA FitKeepsWhole ==
    ASSUME TrainInv, job.phase \in {"fit", "finalize"}, NEW e, NEW a, FitWrites(e, a)
    PROVE  WholeInv'
PROOF
<1> DEFINE Rest == {"cell_ids", "cell_config_map", "heldout_cells", "arch_params",
                    "training_history"}
<1>1. job.n = trainings /\ trainings \in Nat /\ \A f \in DOMAIN dir : dir[f].n \in 1..trainings
  BY DEF TrainInv, JobInv, DirInv, Busy
<1>2. \A f \in Rest : /\ ~WrittenBy(f, job.n)
                      /\ f \in DOMAIN dir' <=> f \in DOMAIN dir
                      /\ f \in DOMAIN dir => dir'[f] = dir[f]
  <2>1. Rest \subseteq Files \ {"weights", "last"}
    BY DEF Files
  <2> QED BY <2>1 DEF TrainInv, FitInv, FitWrites
<1>3. \A f \in DOMAIN dir : f \in DOMAIN dir' /\ (dir'[f] = dir[f] \/ dir'[f].n = job.n)
  BY DEF FitWrites
<1>4. KeptDir'
  <2> SUFFICES ASSUME "arch_params" \in DOMAIN dir'
               PROVE  LET n == dir'["arch_params"].n
                      IN  \/ "weights" \in DOMAIN dir' /\ dir'["weights"].n >= n
                          \/ /\ "last" \in DOMAIN dir'
                             /\ \/ dir'["last"].n > n
                                \/ dir'["last"].n = n /\ Unmonitored(dir'["last"].v)
    BY DEF KeptDir, Unmonitored
  <2> DEFINE n == dir["arch_params"].n
  <2>1. "arch_params" \in DOMAIN dir /\ dir'["arch_params"] = dir["arch_params"]
        /\ n \in Nat /\ n < job.n
    BY <1>1, <1>2 DEF WrittenBy
  <2>2. CASE "weights" \in DOMAIN dir /\ dir["weights"].n >= n
    BY <1>1, <1>3, <2>1, <2>2
  <2>3. CASE /\ "last" \in DOMAIN dir
             /\ dir["last"].n > n \/ (dir["last"].n = n /\ Unmonitored(dir["last"].v))
    BY <1>1, <1>3, <2>1, <2>3
  <2> QED BY <2>1, <2>2, <2>3 DEF TrainInv, WholeInv, KeptDir
<1>5. HistoryDir'
  BY <1>2 DEF TrainInv, WholeInv, HistoryDir
<1>6. HeldDir'
  BY <1>2 DEF TrainInv, WholeInv, HeldDir, LeftOut, WrittenBy
<1> QED BY <1>4, <1>5, <1>6 DEF WholeInv

LEMMA FitKeepsJob ==
    ASSUME TrainInv, job.phase \in {"fit", "finalize"}, UNCHANGED trainings,
           NEW e, NEW a, FitWrites(e, a),
           job'.n = job.n, job'.cfg = job.cfg, job'.held = job.held, Busy'
    PROVE  OwnInv'
PROOF
<1>1. \A f \in {"heldout_cells", "cell_ids", "cell_config_map"} : ~WrittenBy(f, job.n)'
  <2>1. {"heldout_cells", "cell_ids", "cell_config_map"} \subseteq Files \ {"weights", "last"}
    BY DEF Files
  <2> QED BY <2>1 DEF TrainInv, FitInv, FitWrites, WrittenBy
<1>2. Busy
  BY DEF Busy
<1>3. TrainCells(job)' = TrainCells(job)
  BY DEF TrainCells
<1> DEFINE cells == IF Learns(job.cfg) THEN TrainCells(job) ELSE {}
<1>4. WrittenBy("weights", job.n)' =>
         dir'["weights"].v.cfg = job.cfg /\ dir'["weights"].v.cells = cells
  <2>1. CASE "weights" \in DOMAIN dir /\ dir'["weights"] = dir["weights"]
    BY <1>2, <2>1 DEF TrainInv, OwnInv, WrittenBy
  <2>2. CASE dir'["weights"] = [n |-> job.n, v |-> Weights(e, a)]
    BY <2>2 DEF Weights
  <2> QED BY <2>1, <2>2 DEF WrittenBy, FitWrites
<1> QED BY <1>1, <1>3, <1>4 DEF OwnInv, WrittenBy

\* d is the directory with more of these checkpoints.
OnlyAdds(d, own) ==
    /\ DOMAIN dir \subseteq DOMAIN d
    /\ \A f \in Files \ {"weights", "last"} :
          /\ f \in DOMAIN d <=> f \in DOMAIN dir
          /\ f \in DOMAIN d => d[f] = dir[f]
    /\ \A f \in DOMAIN d : (f \in DOMAIN dir /\ d[f] = dir[f]) \/ d[f] = own

LEMMA PutAdds ==
    ASSUME NEW w, NEW d, OnlyAdds(d, [n |-> job.n, v |-> w]),
           NEW f, f \in {"weights", "last"} \/ f \notin Files
    PROVE  OnlyAdds(Put(f, w, d), [n |-> job.n, v |-> w])
PROOF
<1> DEFINE own == [n |-> job.n, v |-> w]
           r == Put(f, w, d)
<1>1. DOMAIN r = {f} \cup DOMAIN d /\ r[f] = own /\ \A g \in DOMAIN d : g # f => r[g] = d[g]
  BY DEF Put, With
<1> HIDE DEF r, own
<1>2. f \notin Files \ {"weights", "last"}
  OBVIOUS
<1> QED BY <1>1, <1>2 DEF OnlyAdds, own, r

LEMMA AddsAre ==
    ASSUME NEW e, NEW a, OnlyAdds(dir', [n |-> job.n, v |-> Weights(e, a)])
    PROVE  FitWrites(e, a)
PROOF
<1> DEFINE own == [n |-> job.n, v |-> Weights(e, a)]
<1>1. own.n = job.n
  OBVIOUS
<1> HIDE DEF own
<1> QED BY <1>1 DEF OnlyAdds, FitWrites, own

LEMMA NothingAdds == \A own : OnlyAdds(dir, own)
PROOF BY DEF OnlyAdds

\* The record of a training after an epoch.
LEMMA Advance ==
    ASSUME JobInv, NEW e, NEW b, NEW w, NEW p
    PROVE  [job EXCEPT !.epoch = e, !.best = b, !.wait = w, !.phase = p]
              = [n |-> job.n, cfg |-> job.cfg, held |-> job.held, phase |-> p,
                 epoch |-> e, best |-> b, wait |-> w, saved |-> job.saved]
PROOF
<1> DEFINE R(x, y, z, t) == [n |-> job.n, cfg |-> job.cfg, held |-> job.held, phase |-> t,
                             epoch |-> x, best |-> y, wait |-> z, saved |-> job.saved]
<1>1. job = R(job.epoch, job.best, job.wait, job.phase)
  BY DEF JobInv
<1>2. [job EXCEPT !.epoch = e] = R(e, job.best, job.wait, job.phase)
  BY <1>1
<1>3. [R(e, job.best, job.wait, job.phase) EXCEPT !.best = b] = R(e, b, job.wait, job.phase)
  OBVIOUS
<1>4. [R(e, b, job.wait, job.phase) EXCEPT !.wait = w] = R(e, b, w, job.phase)
  OBVIOUS
<1>5. [R(e, b, w, job.phase) EXCEPT !.phase = p] = R(e, b, w, p)
  OBVIOUS
<1> HIDE DEF R
<1>6. [job EXCEPT !.epoch = e, !.best = b, !.wait = w, !.phase = p] = R(e, b, w, p)
  BY <1>2, <1>3, <1>4, <1>5
<1> QED BY <1>6 DEF R

LEMMA Moved ==
    ASSUME TrainInv, job.phase \in {"fit", "finalize"}, UNCHANGED trainings,
           NEW e \in Nat, NEW b, NEW w, NEW p \in {"fit", "finalize", "save"},
           job' = [n |-> job.n, cfg |-> job.cfg, held |-> job.held, phase |-> p,
                   epoch |-> e, best |-> b, wait |-> w, saved |-> job.saved]
    PROVE  /\ JobInv' /\ Busy'
           /\ job'.n = job.n /\ job'.cfg = job.cfg /\ job'.held = job.held /\ job'.phase = p
           /\ job'.epoch = e /\ job'.saved = 0
PROOF
<1>1. job'.n = job.n /\ job'.cfg = job.cfg /\ job'.held = job.held /\ job'.phase = p
      /\ job'.epoch = e /\ job'.saved = 0
  BY DEF TrainInv, FitInv
<1>2. Busy /\ Busy'
  BY <1>1 DEF Busy
<1>3. JobInv'
  BY <1>1, <1>2 DEF TrainInv, JobInv
<1> QED BY <1>1, <1>2, <1>3

\* A fit that goes on or ends, with weights that are not averaged.
LEMMA EpochKeeps ==
    ASSUME TrainInv, job.phase = "fit", UNCHANGED trainings, FitWrites(job.epoch, FALSE),
           NEW b, NEW w, NEW p \in {"fit", "finalize", "save"},
           job' = [n |-> job.n, cfg |-> job.cfg, held |-> job.held, phase |-> p,
                   epoch |-> job.epoch + 1, best |-> b, wait |-> w, saved |-> job.saved],
           p = "fit" => ~LastEpoch,
           p = "finalize" => Version(job.cfg) = "diffusion" /\ Config[job.cfg].use_ema,
           p = "save" /\ WrittenBy("weights", job.n)' => Final(dir'["weights"].v),
           KeptInv'
    PROVE  TrainInv'
PROOF
<1>1. Busy /\ job.epoch \in Nat /\ job.epoch + 1 \in Nat /\ job.cfg \in Configs
      /\ job.epoch < Config[job.cfg].epochs
  BY DEF TrainInv, JobInv, FitInv, Busy
<1>2. /\ JobInv' /\ Busy'
      /\ job'.n = job.n /\ job'.cfg = job.cfg /\ job'.held = job.held /\ job'.phase = p
      /\ job'.epoch = job.epoch + 1 /\ job'.saved = 0
  BY <1>1, Moved
<1>3. OwnInv' /\ DirInv' /\ HoldoutIsFair' /\ WholeInv'
  BY <1>2, FitKeepsJob, FitKeepsDir, FitKeepsWhole
<1>4. FitInv'
  <2>1. \A f \in Files \ {"weights", "last"} : ~WrittenBy(f, job.n)'
    BY DEF TrainInv, FitInv, FitWrites, WrittenBy
  <2>2. WrittenBy("weights", job.n)' => dir'["weights"].v.averaged = FALSE
    <3>1. CASE "weights" \in DOMAIN dir /\ dir'["weights"] = dir["weights"]
      BY <3>1 DEF TrainInv, FitInv, WrittenBy
    <3>2. CASE dir'["weights"] = [n |-> job.n, v |-> Weights(job.epoch, FALSE)]
      BY <3>2 DEF Weights
    <3> QED BY <3>1, <3>2 DEF WrittenBy, FitWrites
  <2>3. p = "fit" => job.epoch + 1 < Config[job.cfg].epochs
    BY <1>1, TrainingAssumption DEF LastEpoch
  <2> QED BY <1>2, <2>1, <2>2, <2>3 DEF FitInv, WrittenBy
<1>5. SaveInv'
  <2>1. p = "save" => 0 < Len(SaveOrder(job'))
    BY SaveOrderOf
  <2>2. ~WrittenBy("arch_params", job.n)'
    <3>1. "arch_params" \in Files \ {"weights", "last"}
      BY DEF Files
    <3> QED BY <3>1 DEF TrainInv, FitInv, FitWrites, WrittenBy
  <2> QED BY <1>2, <2>1, <2>2 DEF SaveInv, WrittenBy
<1> QED BY <1>2, <1>3, <1>4, <1>5 DEF TrainInv

LEMMA VAEKeeps ==
    ASSUME TrainInv, TrainVAE
    PROVE  TrainInv'
PROOF
<1>1. job.phase = "fit" /\ Version(job.cfg) \in {"v6", "v7"} /\ trainings' = trainings
  BY Zenon DEF TrainVAE, Fitting
<1>2. PICK lower \in BOOLEAN :
        LET monitored == job.epoch >= MonitorStart(Config[job.cfg].kl)
            improved  == monitored /\ (lower \/ job.best = None)
            wait      == IF ~monitored THEN job.wait ELSE IF improved THEN 0 ELSE job.wait + 1
            stops     == monitored /\ ~improved /\ wait >= Config[job.cfg].patience /\ job.epoch > 0
            best      == IF improved THEN job.epoch ELSE job.best
            w         == Weights(job.epoch, FALSE)
        IN  /\ dir' = Put("last", w, IF improved THEN Put("weights", w, dir) ELSE dir)
            /\ job' = [job EXCEPT !.epoch = @ + 1, !.best = best, !.wait = wait,
                                  !.phase = IF stops \/ LastEpoch THEN "save" ELSE @]
  BY Zenon DEF TrainVAE
<1> DEFINE monitored == job.epoch >= MonitorStart(Config[job.cfg].kl)
           improved  == monitored /\ (lower \/ job.best = None)
           wait      == IF ~monitored THEN job.wait ELSE IF improved THEN 0 ELSE job.wait + 1
           stops     == monitored /\ ~improved /\ wait >= Config[job.cfg].patience /\ job.epoch > 0
           best      == IF improved THEN job.epoch ELSE job.best
           p         == IF stops \/ LastEpoch THEN "save" ELSE job.phase
           w         == Weights(job.epoch, FALSE)
           d         == IF improved THEN Put("weights", w, dir) ELSE dir
<1>3. dir' = Put("last", w, d)
      /\ job' = [job EXCEPT !.epoch = job.epoch + 1, !.best = best, !.wait = wait, !.phase = p]
  BY <1>2, Zenon
<1>4. p \in {"fit", "save"} /\ (p = "fit" => ~LastEpoch)
  BY <1>1
<1> HIDE DEF wait, stops, p
<1>5. job' = [n |-> job.n, cfg |-> job.cfg, held |-> job.held, phase |-> p,
              epoch |-> job.epoch + 1, best |-> best, wait |-> wait, saved |-> job.saved]
  BY <1>3, Advance DEF TrainInv
<1>6. FitWrites(job.epoch, FALSE)
  <2>1. OnlyAdds(d, [n |-> job.n, v |-> w])
    BY NothingAdds, PutAdds
  <2>2. OnlyAdds(dir', [n |-> job.n, v |-> w])
    BY <1>3, <2>1, PutAdds
  <2> QED BY <2>2, AddsAre
<1>7. WrittenBy("weights", job.n)' => Final(dir'["weights"].v)
  <2> SUFFICES ASSUME WrittenBy("weights", job.n)' PROVE dir'["weights"].v.cfg = job.cfg
    BY <1>1 DEF Final
  <2>1. OwnInv' /\ Busy'
    <3>1. job'.n = job.n /\ job'.cfg = job.cfg /\ job'.held = job.held /\ job'.phase = p
      BY <1>5
    <3>2. Busy'
      BY <1>4, <3>1 DEF Busy
    <3> QED BY <1>1, <1>6, <3>1, <3>2, FitKeepsJob
  <2> QED BY <1>5, <2>1 DEF OwnInv, WrittenBy
<1>8. KeptInv'
  <2>1. /\ job'.n = job.n /\ job'.cfg = job.cfg /\ job'.best = best
        /\ job'.epoch = job.epoch + 1 /\ job.epoch \in Nat /\ job.cfg \in Configs
    BY <1>1, <1>5 DEF TrainInv, JobInv, Busy
  <2>2. w.cfg = job.cfg /\ w.epoch = job.epoch
    BY DEF Weights
  <2>3. /\ improved => "weights" \in DOMAIN d /\ d["weights"].n = job.n
        /\ ~improved => d = dir
    BY DEF Put, With
  <2>4. /\ "last" \in DOMAIN dir' /\ dir'["last"].n = job.n /\ dir'["last"].v = w
        /\ "weights" \in DOMAIN d => "weights" \in DOMAIN dir' /\ dir'["weights"] = d["weights"]
    BY <1>3 DEF Put, With
  <2> HIDE DEF w, d
  <2>5. /\ job.best = None \/ WrittenBy("weights", job.n)
        /\ FirstKept(job.cfg) = MonitorStart(Config[job.cfg].kl) /\ FirstKept(job.cfg) \in Nat
    BY <1>1, <2>1, FirstKeptIs DEF TrainInv, KeptInv, Busy, FirstKept
  <2>6. improved \/ WrittenBy("weights", job.n) => WrittenBy("weights", job.n)'
    BY <2>1, <2>3, <2>4 DEF WrittenBy
  <2>7. job.epoch + 1 > FirstKept(job.cfg) => improved \/ WrittenBy("weights", job.n)
    BY <2>1, <2>5
  <2>8. best = None \/ improved \/ WrittenBy("weights", job.n)
    BY <2>5 DEF best
  <2> HIDE DEF improved
  <2> QED BY <2>1, <2>2, <2>4, <2>6, <2>7, <2>8 DEF KeptInv, WrittenBy
<1> QED BY <1>1, <1>4, <1>5, <1>6, <1>7, <1>8, EpochKeeps

LEMMA GANKeeps ==
    ASSUME TrainInv, TrainGAN
    PROVE  TrainInv'
PROOF
<1> DEFINE e == job.epoch
           p == IF LastEpoch THEN "save" ELSE job.phase
           w == Weights(e, FALSE)
           d == IF (e + 1) % SnapshotEvery(job.cfg) = 0 THEN Put(Snapshot(e + 1), w, dir) ELSE dir
<1>1. job.phase = "fit" /\ Version(job.cfg) = "gan" /\ trainings' = trainings
  <2>1. Fitting({"gan"}) /\ trainings' = trainings
    BY Zenon DEF TrainGAN
  <2> QED BY <2>1 DEF Fitting
<1>2. /\ dir' = Put("weights", w, d)
      /\ job' = [job EXCEPT !.epoch = e + 1, !.best = e, !.phase = p]
  BY Zenon DEF TrainGAN
<1>3. p \in {"fit", "save"} /\ (p = "fit" => ~LastEpoch) /\ (p = "save" => LastEpoch)
  BY <1>1
<1> HIDE DEF p
<1>4. job' = [n |-> job.n, cfg |-> job.cfg, held |-> job.held, phase |-> p,
              epoch |-> e + 1, best |-> e, wait |-> job.wait, saved |-> job.saved]
  <2> DEFINE R(x, y, t) == [n |-> job.n, cfg |-> job.cfg, held |-> job.held, phase |-> t,
                            epoch |-> x, best |-> y, wait |-> job.wait, saved |-> job.saved]
  <2>1. [job EXCEPT !.epoch = e + 1] = R(e + 1, job.best, job.phase)
    BY DEF TrainInv, JobInv
  <2>2. [R(e + 1, job.best, job.phase) EXCEPT !.best = e] = R(e + 1, e, job.phase)
    OBVIOUS
  <2>3. [R(e + 1, e, job.phase) EXCEPT !.phase = p] = R(e + 1, e, p)
    OBVIOUS
  <2> HIDE DEF R
  <2>4. job' = R(e + 1, e, p)
    BY <1>2, <2>1, <2>2, <2>3
  <2> QED BY <2>4 DEF R
<1>5. e \in Nat /\ job.cfg \in Configs /\ e < Config[job.cfg].epochs
  BY <1>1 DEF TrainInv, JobInv, FitInv, Busy
<1>6. FitWrites(e, FALSE)
  <2>1. Snapshot(e + 1) \notin Files
    <3>1. Config[job.cfg].epochs \in Nat
      BY <1>5, TrainingAssumption
    <3>2. e + 1 \in 1..Config[job.cfg].epochs
      BY <1>5, <3>1
    <3> QED BY <1>5, <3>2, TrainingAssumption
  <2>2. OnlyAdds(d, [n |-> job.n, v |-> w])
    BY <2>1, NothingAdds, PutAdds
  <2>3. OnlyAdds(dir', [n |-> job.n, v |-> w])
    BY <1>2, <2>2, PutAdds
  <2> QED BY <2>3, AddsAre
<1>7. p = "save" => Final(dir'["weights"].v)
  <2>1. dir'["weights"].v = w
    BY <1>2 DEF Put, With
  <2>2. w.cfg = job.cfg /\ w.epoch = e
    BY DEF Weights
  <2>3. LastEpoch => e = Config[job.cfg].epochs - 1
    BY <1>5, TrainingAssumption DEF LastEpoch
  <2> HIDE DEF w
  <2> QED BY <1>1, <1>3, <2>1, <2>2, <2>3 DEF Final
<1>8. KeptInv'
  <2>1. "weights" \in DOMAIN dir' /\ dir'["weights"].n = job.n
    BY <1>2 DEF Put, With
  <2>2. job'.n = job.n /\ job'.cfg = job.cfg /\ job'.epoch = e + 1
    BY <1>4
  <2> QED BY <1>1, <1>5, <2>1, <2>2 DEF KeptInv, WrittenBy
<1> QED BY <1>1, <1>3, <1>4, <1>6, <1>7, <1>8, EpochKeeps

LEMMA DiffusionKeeps ==
    ASSUME TrainInv, TrainDiffusion
    PROVE  TrainInv'
PROOF
<1> DEFINE e == job.epoch
           p == CASE ~LastEpoch                 -> "fit"
                  [] Config[job.cfg].use_ema    -> "finalize"
                  [] OTHER                      -> "save"
           w == Weights(e, FALSE)
           improved(lower) == lower \/ job.best = None
           d(lower) == IF improved(lower) THEN Put("weights", w, dir) ELSE dir
           b(lower) == IF improved(lower) THEN e ELSE job.best
<1>1. job.phase = "fit" /\ Version(job.cfg) = "diffusion" /\ trainings' = trainings
  <2>1. Fitting({"diffusion"}) /\ trainings' = trainings
    BY Zenon DEF TrainDiffusion
  <2> QED BY <2>1 DEF Fitting
<1>2. PICK lower \in BOOLEAN :
         /\ dir' = Put("last", w, d(lower))
         /\ job' = [job EXCEPT !.epoch = e + 1, !.best = b(lower), !.phase = p]
  BY Zenon DEF TrainDiffusion
<1>3. e \in Nat /\ job.cfg \in Configs /\ e < Config[job.cfg].epochs
      /\ Config[job.cfg].use_ema \in BOOLEAN
  BY <1>1, TrainingAssumption DEF TrainInv, JobInv, FitInv, Busy
<1>4. \/ p = "fit" /\ ~LastEpoch
      \/ p = "finalize" /\ Config[job.cfg].use_ema = TRUE
      \/ p = "save" /\ Config[job.cfg].use_ema = FALSE
  BY <1>3
<1> HIDE DEF p, b
<1>5. job' = [n |-> job.n, cfg |-> job.cfg, held |-> job.held, phase |-> p,
              epoch |-> e + 1, best |-> b(lower), wait |-> job.wait, saved |-> job.saved]
  <2> DEFINE R(x, y, t) == [n |-> job.n, cfg |-> job.cfg, held |-> job.held, phase |-> t,
                            epoch |-> x, best |-> y, wait |-> job.wait, saved |-> job.saved]
  <2>1. [job EXCEPT !.epoch = e + 1] = R(e + 1, job.best, job.phase)
    BY DEF TrainInv, JobInv
  <2>2. [R(e + 1, job.best, job.phase) EXCEPT !.best = b(lower)] = R(e + 1, b(lower), job.phase)
    OBVIOUS
  <2>3. [R(e + 1, b(lower), job.phase) EXCEPT !.phase = p] = R(e + 1, b(lower), p)
    OBVIOUS
  <2> HIDE DEF R
  <2>4. job' = R(e + 1, b(lower), p)
    BY <1>2, <2>1, <2>2, <2>3
  <2> QED BY <2>4 DEF R
<1>6. FitWrites(e, FALSE)
  <2>1. OnlyAdds(d(lower), [n |-> job.n, v |-> w])
    BY NothingAdds, PutAdds
  <2>2. OnlyAdds(dir', [n |-> job.n, v |-> w])
    BY <1>2, <2>1, PutAdds
  <2> QED BY <2>2, AddsAre
<1>7. p = "save" /\ WrittenBy("weights", job.n)' => Final(dir'["weights"].v)
  <2> SUFFICES ASSUME p = "save", WrittenBy("weights", job.n)' PROVE Final(dir'["weights"].v)
    OBVIOUS
  <2>1. job'.n = job.n /\ job'.cfg = job.cfg /\ job'.held = job.held /\ job'.phase = p
    BY <1>5
  <2>2. Busy'
    BY <2>1 DEF Busy
  <2>3. dir'["weights"].v.cfg = job.cfg
    <3>1. OwnInv'
      BY <1>1, <1>6, <2>1, <2>2, FitKeepsJob
    <3> QED BY <2>1, <2>2, <3>1 DEF OwnInv, WrittenBy
  <2>4. dir'["weights"].v.averaged = FALSE
    <3>1. CASE "weights" \in DOMAIN dir /\ dir'["weights"] = dir["weights"]
      BY <1>1, <2>1, <3>1 DEF TrainInv, FitInv, WrittenBy
    <3>2. CASE dir'["weights"] = [n |-> job.n, v |-> w]
      BY <3>2 DEF Weights
    <3> QED BY <1>6, <3>1, <3>2 DEF WrittenBy, FitWrites
  <2>5. Config[job.cfg].use_ema = FALSE
    BY <1>4
  <2> QED BY <1>1, <2>3, <2>4, <2>5 DEF Final
<1>8. KeptInv'
  <2>1. job'.n = job.n /\ job'.cfg = job.cfg /\ job'.epoch = e + 1 /\ job'.best = b(lower)
    BY <1>5
  <2>2. /\ improved(lower) => "weights" \in DOMAIN d(lower) /\ d(lower)["weights"].n = job.n
        /\ ~improved(lower) => d(lower) = dir
    BY DEF Put, With
  <2>3. "weights" \in DOMAIN d(lower) =>
           "weights" \in DOMAIN dir' /\ dir'["weights"] = d(lower)["weights"]
    BY <1>2 DEF Put, With
  <2>4. job.best = None \/ WrittenBy("weights", job.n)
    BY <1>1 DEF TrainInv, KeptInv, Busy
  <2>5. WrittenBy("weights", job.n)'
    BY <2>1, <2>2, <2>3, <2>4 DEF WrittenBy
  <2> QED BY <1>1, <1>3, <2>1, <2>5 DEF KeptInv, WrittenBy
<1> QED BY <1>1, <1>4, <1>5, <1>6, <1>7, <1>8, EpochKeeps

LEMMA FinalizeKeeps ==
    ASSUME TrainInv, Finalize
    PROVE  TrainInv'
PROOF
<1> DEFINE w == Weights(job.epoch - 1, TRUE)
<1>1. /\ job.phase = "finalize" /\ trainings' = trainings /\ dir' = Put("weights", w, dir)
      /\ job' = [job EXCEPT !.phase = "save"]
  BY DEF Finalize
<1>2. /\ job' = [n |-> job.n, cfg |-> job.cfg, held |-> job.held, phase |-> "save",
                 epoch |-> job.epoch, best |-> job.best, wait |-> job.wait, saved |-> job.saved]
      /\ job.epoch \in Nat
  BY <1>1 DEF TrainInv, JobInv, Busy
<1>3. /\ JobInv' /\ Busy' /\ job'.phase = "save" /\ job'.saved = 0
      /\ job'.n = job.n /\ job'.cfg = job.cfg /\ job'.held = job.held
  BY <1>1, <1>2, Moved
<1>4. FitWrites(job.epoch - 1, TRUE)
  <2>1. OnlyAdds(dir', [n |-> job.n, v |-> w])
    BY <1>1, NothingAdds, PutAdds
  <2> QED BY <2>1, AddsAre
<1>5. OwnInv' /\ DirInv' /\ HoldoutIsFair' /\ WholeInv'
  BY <1>1, <1>3, <1>4, FitKeepsJob, FitKeepsDir, FitKeepsWhole
<1>6. Final(dir'["weights"].v)
  <2>1. dir'["weights"].v = w
    BY <1>1 DEF Put, With
  <2>2. w.cfg = job.cfg /\ w.averaged = TRUE
    BY DEF Weights
  <2>3. Version(job.cfg) = "diffusion" /\ Config[job.cfg].use_ema = TRUE
    <3>1. job.cfg \in Configs
      BY <1>1 DEF TrainInv, JobInv, Busy
    <3> QED BY <1>1, <3>1, TrainingAssumption DEF TrainInv, FitInv
  <2> HIDE DEF w
  <2> QED BY <2>1, <2>2, <2>3 DEF Final
<1>7. FitInv' /\ SaveInv'
  <2>1. 0 < Len(SaveOrder(job'))
    BY SaveOrderOf
  <2>2. ~WrittenBy("arch_params", job.n)'
    <3>1. "arch_params" \in Files \ {"weights", "last"}
      BY DEF Files
    <3>2. /\ "arch_params" \in DOMAIN dir' <=> "arch_params" \in DOMAIN dir
          /\ "arch_params" \in DOMAIN dir => dir'["arch_params"] = dir["arch_params"]
      BY <1>4, <3>1 DEF FitWrites
    <3>3. ~WrittenBy("arch_params", job.n)
      BY <1>1, <3>1, Zenon DEF TrainInv, FitInv
    <3> QED BY <1>3, <3>2, <3>3 DEF WrittenBy
  <2> QED BY <1>3, <1>6, <2>1, <2>2 DEF FitInv, SaveInv, WrittenBy
<1>8. KeptInv'
  <2>1. "weights" \in DOMAIN dir' /\ dir'["weights"].n = job.n
    BY <1>1 DEF Put, With
  <2>2. job.epoch > 0 /\ Version(job.cfg) = "diffusion" /\ job'.epoch = job.epoch
    BY <1>1, <1>2 DEF TrainInv, KeptInv, FitInv, Busy
  <2> QED BY <1>3, <2>1, <2>2 DEF KeptInv, WrittenBy
<1> QED BY <1>3, <1>5, <1>7, <1>8 DEF TrainInv

-----------------------------------------------------------------------------
(* The saving.                                                             *)

LEMMA ArtifactOf ==
    ASSUME NEW j
    PROVE  /\ Artifact("heldout_cells", j) = j.held
           /\ Artifact("cell_ids", j) = CellsOf(KeepCells(Loaded[j.cfg], TrainCells(j)))
           /\ Artifact("cell_config_map", j).map = Loaded[j.cfg].config
PROOF
<1>1. Artifact("heldout_cells", j) = j.held
  BY DEF Artifact
<1>2. Artifact("cell_ids", j) = CellsOf(KeepCells(Loaded[j.cfg], TrainCells(j)))
  BY DEF Artifact
<1>3. Artifact("cell_config_map", j).map = Loaded[j.cfg].config
  BY DEF Artifact
<1> QED BY <1>1, <1>2, <1>3

\* A training that saves has weights, or was over before an epoch was compared.
LEMMA HasWeights ==
    ASSUME TrainInv, job.phase = "save"
    PROVE  \/ WrittenBy("weights", job.n)
           \/ WrittenBy("last", job.n) /\ Unmonitored(dir["last"].v)
PROOF
<1>1. Busy /\ job.cfg \in Configs /\ job.epoch \in Nat /\ job.epoch > 0
  BY DEF TrainInv, JobInv, KeptInv, Busy
<1>2. FirstKept(job.cfg) \in Nat
  BY <1>1, FirstKeptIs
<1>3. CASE job.epoch > FirstKept(job.cfg)
  BY <1>1, <1>3 DEF TrainInv, KeptInv
<1>4. CASE ~(job.epoch > FirstKept(job.cfg))
  <2>1. Version(job.cfg) \in {"v6", "v7"} /\ FirstKept(job.cfg) = MonitorStart(Config[job.cfg].kl)
    BY <1>1, <1>4 DEF FirstKept
  <2>2. /\ WrittenBy("last", job.n)
        /\ dir["last"].v.cfg = job.cfg /\ dir["last"].v.epoch = job.epoch - 1
    BY <1>1, <2>1 DEF TrainInv, KeptInv
  <2> QED BY <1>1, <1>2, <1>4, <2>1, <2>2 DEF Unmonitored
<1> QED BY <1>3, <1>4

\* The cells that a training's map knows and its saved windows are not of.
LEMMA LeftOutIs ==
    ASSUME JobInv, Busy
    PROVE  LET L == Loaded[job.cfg]
           IN  DOMAIN L.config \ CellsOf(KeepCells(L, TrainCells(job))) = job.held
PROOF
<1> DEFINE L == Loaded[job.cfg]
<1>1. job.cfg \in Configs /\ job.held \in HeldOutChoices(L, Config[job.cfg].held)
  BY DEF JobInv
<1>2. TrainCells(job) = CellsOf(L) \ job.held
  BY DEF TrainCells
<1>3. CellsOf(KeepCells(L, TrainCells(job))) = TrainCells(job)
  <2>1. TrainCells(job) \subseteq CellsOf(L)
    BY <1>2
  <2> QED BY <1>1, <2>1, KeepCellsOf
<1>4. DOMAIN L.config = CellsOf(L)
  BY <1>1, LoadedOf
<1>5. job.held \subseteq CellsOf(L)
  BY <1>1, TwinsRemain
<1> HIDE DEF L
<1> QED BY <1>2, <1>3, <1>4, <1>5 DEF L

LEMMA SaveKeeps ==
    ASSUME TrainInv, SaveNext
    PROVE  TrainInv'
PROOF
<1> DEFINE o    == SaveOrder(job)
           i    == job.saved + 1
           file == o[i]
           v    == Artifact(file, job)
           Has(f, n) == f \in DOMAIN dir' /\ dir'[f].n = n
<1>1. /\ job.phase = "save" /\ trainings' = trainings /\ dir' = Put(file, v, dir)
      /\ job' = IF i = Len(o) THEN NoJob ELSE [job EXCEPT !.saved = @ + 1]
  BY DEF SaveNext
<1>2. /\ Busy /\ job.n = trainings /\ trainings \in Nat \ {0} /\ job.cfg \in Configs
      /\ job.saved \in Nat /\ i \in Nat
  BY <1>1 DEF TrainInv, JobInv, Busy
<1>3. /\ job.saved < Len(o)
      /\ \A x \in 1..job.saved : WrittenBy(o[x], job.n)
      /\ WrittenBy("weights", job.n) => Final(dir["weights"].v)
      /\ WrittenBy("arch_params", job.n) => job.saved >= Len(o) - 1
  BY <1>1 DEF TrainInv, SaveInv
<1>4. PICK k \in {8, 9} :
         /\ Len(o) = k + 1
         /\ \A x \in 1..7 : o[x] \in Seven
         /\ \A f \in Seven : \E x \in 1..7 : o[x] = f
         /\ o[k] = "arch_params" /\ o[k + 1] = "training_history"
         /\ k = 9 => o[8] = "heldout_cells" /\ job.held # {}
         /\ k = 8 => job.held = {}
  BY SaveOrderOf
<1> HIDE DEF o, v
<1>5. /\ DOMAIN dir' = {file} \cup DOMAIN dir
      /\ dir'[file] = [n |-> job.n, v |-> v]
      /\ \A f \in DOMAIN dir : f # file => dir'[f] = dir[f]
  BY <1>1 DEF Put, With
<1>6. /\ i \in 1..(k + 1)
      /\ i <= 7 \/ i = k \/ i = k + 1 \/ (k = 9 /\ i = 8)
  <2>1. job.saved < k + 1 /\ (k = 8 \/ k = 9)
    BY <1>3, <1>4
  <2> QED BY ONLY <1>2, <2>1
<1>7. /\ file \in Seven \cup {"heldout_cells", "arch_params", "training_history"}
      /\ file = "arch_params" => i = k
      /\ file = "training_history" => i = k + 1
      /\ file = "heldout_cells" => job.held # {} /\ i = 8
  <2>1. CASE i <= 7
    <3>1. i \in 1..7
      BY <1>2, <1>6, <2>1
    <3>2. file \in Seven
      BY ONLY <1>4, <3>1
    <3>3. Seven \cap {"heldout_cells", "arch_params", "training_history"} = {}
      BY DEF Seven
    <3> QED BY <3>2, <3>3
  <2>2. CASE ~(i <= 7)
    BY <1>4, <1>6, <2>2
  <2> QED BY <2>1, <2>2
<1>8. file \notin {"weights", "last"}
  BY <1>7 DEF Seven
<1> HIDE DEF file
<1>9. /\ \A f, n : f # file => (Has(f, n) <=> WrittenBy(f, n))
      /\ \A n : Has(file, n) <=> n = job.n
  BY <1>5 DEF WrittenBy
<1>10. /\ Has("weights", job.n) =>
             /\ dir'["weights"].v.cfg = job.cfg
             /\ dir'["weights"].v.cells = IF Learns(job.cfg) THEN TrainCells(job) ELSE {}
       /\ Has("heldout_cells", job.n) => dir'["heldout_cells"].v = job.held /\ job.held # {}
       /\ Has("cell_ids", job.n) =>
             dir'["cell_ids"].v = CellsOf(KeepCells(Loaded[job.cfg], TrainCells(job)))
       /\ Has("cell_config_map", job.n) =>
             dir'["cell_config_map"].v.map = Loaded[job.cfg].config
  <2> DEFINE cells == IF Learns(job.cfg) THEN TrainCells(job) ELSE {}
             ids   == CellsOf(KeepCells(Loaded[job.cfg], TrainCells(job)))
             map   == Loaded[job.cfg].config
  <2>1. /\ WrittenBy("weights", job.n) =>
              dir["weights"].v.cfg = job.cfg /\ dir["weights"].v.cells = cells
        /\ WrittenBy("heldout_cells", job.n) => dir["heldout_cells"].v = job.held /\ job.held # {}
        /\ WrittenBy("cell_ids", job.n) => dir["cell_ids"].v = ids
        /\ WrittenBy("cell_config_map", job.n) => dir["cell_config_map"].v.map = map
    BY <1>2 DEF TrainInv, OwnInv
  <2>2. /\ file = "heldout_cells" => v = job.held
        /\ file = "cell_ids" => v = ids
        /\ file = "cell_config_map" => v.map = map
    BY ArtifactOf DEF v
  <2> HIDE DEF cells, ids, map
  <2>3. /\ Has("weights", job.n) =>
              dir'["weights"].v.cfg = job.cfg /\ dir'["weights"].v.cells = cells
    BY <1>5, <1>8, <2>1 DEF WrittenBy
  <2>4. Has("heldout_cells", job.n) => dir'["heldout_cells"].v = job.held /\ job.held # {}
    BY <1>5, <1>7, <2>1, <2>2 DEF WrittenBy
  <2>5. Has("cell_ids", job.n) => dir'["cell_ids"].v = ids
    BY <1>5, <2>1, <2>2 DEF WrittenBy
  <2>6. Has("cell_config_map", job.n) => dir'["cell_config_map"].v.map = map
    BY <1>5, <2>1, <2>2 DEF WrittenBy
  <2> QED BY <2>3, <2>4, <2>5, <2>6 DEF cells, ids, map
<1>11. DirInv'
  <2>1. \A f \in DOMAIN dir' : dir'[f].n \in 1..trainings
    BY <1>2, <1>5 DEF TrainInv, DirInv
  <2>2. "cell_config_map" \in DOMAIN dir' =>
           \A x \in DOMAIN dir'["cell_config_map"].v.map : ObjectName[x] # "metadata"
    <3>1. CASE file = "cell_config_map"
      <4>1. dir'["cell_config_map"].v.map = Loaded[job.cfg].config
        BY <1>9, <1>10, <3>1
      <4> QED BY <1>2, <4>1, LoadedOf
    <3>2. CASE file # "cell_config_map"
      BY <1>5, <3>2 DEF TrainInv, DirInv
    <3> QED BY <3>1, <3>2
  <2>3. "arch_params" \in DOMAIN dir' =>
           \A f \in Seven : f \in DOMAIN dir' /\ dir'[f].n >= dir'["arch_params"].n
    <3>1. CASE file = "arch_params"
      <4>1. \A f \in Seven : WrittenBy(f, job.n)
        BY <1>2, <1>3, <1>4, <1>7, <3>1
      <4>2. "arch_params" \notin Seven
        BY DEF Seven
      <4>3. \A f \in Seven : f \in DOMAIN dir' /\ dir'[f].n = job.n
        BY <1>5, <3>1, <4>1, <4>2 DEF WrittenBy
      <4> QED BY <1>2, <1>5, <3>1, <4>3
    <3>2. CASE file # "arch_params"
      <4> SUFFICES ASSUME "arch_params" \in DOMAIN dir', NEW f \in Seven
                   PROVE  f \in DOMAIN dir' /\ dir'[f].n >= dir'["arch_params"].n
        OBVIOUS
      <4>1. dir'["arch_params"] = dir["arch_params"] /\ dir["arch_params"].n \in 1..trainings
            /\ f \in DOMAIN dir /\ dir[f].n >= dir["arch_params"].n
        BY <1>5, <3>2 DEF TrainInv, DirInv
      <4> QED BY <1>2, <1>5, <4>1
    <3> QED BY <3>1, <3>2
  <2>4. \A n \in Nat : Has("arch_params", n) /\ Has("weights", n) => Final(dir'["weights"].v)
    <3> SUFFICES ASSUME NEW n \in Nat, Has("arch_params", n), Has("weights", n)
                 PROVE  Final(dir'["weights"].v)
      OBVIOUS
    <3>1. WrittenBy("weights", n) /\ dir'["weights"] = dir["weights"]
      BY <1>5, <1>8 DEF WrittenBy
    <3>2. CASE n = job.n
      BY <1>3, <3>1, <3>2
    <3>3. CASE n # job.n
      BY <1>5, <3>1, <3>3 DEF TrainInv, DirInv, WrittenBy
    <3> QED BY <3>2, <3>3
  <2> QED BY <1>1, <2>1, <2>2, <2>3, <2>4 DEF DirInv, WrittenBy, Final
<1>12. HoldoutIsFair'
  <2> DEFINE Four == {"heldout_cells", "weights", "cell_ids", "cell_config_map"}
             FairNow == Fair(dir'["heldout_cells"].v, dir'["weights"].v.cells,
                             dir'["cell_ids"].v, dir'["cell_config_map"].v.map)
  <2>1. ASSUME NEW n \in 1..trainings, \A f \in Four : Has(f, n)
        PROVE  FairNow
    <3>1. CASE n = job.n
      <4>1. /\ dir'["weights"].v.cells = IF Learns(job.cfg) THEN TrainCells(job) ELSE {}
            /\ dir'["heldout_cells"].v = job.held /\ job.held # {}
            /\ dir'["cell_ids"].v = CellsOf(KeepCells(Loaded[job.cfg], TrainCells(job)))
            /\ dir'["cell_config_map"].v.map = Loaded[job.cfg].config
        BY <1>10, <2>1, <3>1
      <4> QED BY <1>2, <4>1, HoldingOutIsFair DEF TrainInv
    <3>2. CASE n # job.n
      <4>1. \A f \in Four : WrittenBy(f, n) /\ dir'[f] = dir[f]
        BY <1>5, <2>1, <3>2 DEF WrittenBy
      <4>2. Fair(dir["heldout_cells"].v, dir["weights"].v.cells,
                 dir["cell_ids"].v, dir["cell_config_map"].v.map)
        BY <4>1 DEF TrainInv, HoldoutIsFair, Fair
      <4> QED BY <4>1, <4>2
    <3> QED BY <3>1, <3>2
  <2> QED BY <1>1, <2>1 DEF HoldoutIsFair, Fair, WrittenBy
<1>13. WholeInv'
  <2>1. KeptDir'
    <3>1. CASE file = "arch_params"
      <4>1. \/ WrittenBy("weights", job.n)
            \/ WrittenBy("last", job.n) /\ Unmonitored(dir["last"].v)
        BY <1>1, HasWeights
      <4>2. /\ WrittenBy("weights", job.n) => Has("weights", job.n)
            /\ WrittenBy("last", job.n) => Has("last", job.n) /\ dir'["last"] = dir["last"]
        BY <1>5, <1>8 DEF WrittenBy
      <4> QED BY <1>2, <1>5, <3>1, <4>1, <4>2 DEF KeptDir, Unmonitored
    <3>2. CASE file # "arch_params"
      BY <1>5, <1>8, <3>2 DEF TrainInv, WholeInv, KeptDir, Unmonitored
    <3> QED BY <3>1, <3>2
  <2>2. HistoryDir'
    <3>1. CASE file = "training_history"
      <4>1. k \in 1..job.saved
        BY <1>2, <1>6, <1>7, <3>1
      <4>2. Has("arch_params", job.n)
        BY <1>3, <1>4, <1>9, <3>1, <4>1
      <4> QED BY <1>2, <1>5, <3>1, <4>2 DEF HistoryDir
    <3>2. CASE file = "arch_params"
      BY <1>2, <1>5, <3>2 DEF TrainInv, DirInv, HistoryDir
    <3>3. CASE file # "training_history" /\ file # "arch_params"
      BY <1>5, <3>3 DEF TrainInv, WholeInv, HistoryDir
    <3> QED BY <3>1, <3>2, <3>3
  <2>3. HeldDir'
    <3> DEFINE Three == {"arch_params", "cell_ids", "cell_config_map"}
               left  == DOMAIN dir["cell_config_map"].v.map \ dir["cell_ids"].v
               left1 == DOMAIN dir'["cell_config_map"].v.map \ dir'["cell_ids"].v
    <3>1. ASSUME NEW n \in Nat, \A f \in Three : Has(f, n), left1 # {}
          PROVE  /\ "heldout_cells" \in DOMAIN dir'
                 /\ \/ dir'["heldout_cells"].n > n
                    \/ dir'["heldout_cells"].n = n /\ dir'["heldout_cells"].v = left1
      <4>1. CASE n = job.n
        <5>1. left1 = job.held
          BY <1>2, <1>10, <3>1, <4>1, LeftOutIs DEF TrainInv
        <5>2. k = 9 /\ o[8] = "heldout_cells"
          BY <1>4, <3>1, <5>1
        <5>3. file = "arch_params" \/ WrittenBy("arch_params", job.n)
          BY <1>9, <3>1, <4>1
        <5>4. 8 \in 1..job.saved
          BY <1>2, <1>3, <1>4, <1>7, <5>2, <5>3
        <5>5. file # "heldout_cells"
          BY <1>2, <1>7, <5>4
        <5>6. Has("heldout_cells", job.n)
          BY <1>3, <1>9, <5>2, <5>4, <5>5
        <5> QED BY <1>10, <4>1, <5>1, <5>6
      <4>2. CASE n # job.n
        <5>1. \A f \in Three : WrittenBy(f, n) /\ dir'[f] = dir[f]
          BY <1>5, <1>9, <3>1, <4>2
        <5>2. left1 = left /\ n \in 1..trainings /\ n < job.n
          BY <1>2, <4>2, <5>1 DEF TrainInv, DirInv, WrittenBy
        <5>3. /\ "heldout_cells" \in DOMAIN dir
              /\ \/ dir["heldout_cells"].n > n
                 \/ dir["heldout_cells"].n = n /\ dir["heldout_cells"].v = left
          BY <3>1, <5>1, <5>2 DEF TrainInv, WholeInv, HeldDir, LeftOut
        <5> HIDE DEF left, left1
        <5> QED BY <1>2, <1>5, <5>2, <5>3
      <4> QED BY <4>1, <4>2
    <3> QED BY <3>1 DEF HeldDir, LeftOut, WrittenBy
  <2> QED BY <2>1, <2>2, <2>3 DEF WholeInv
<1>14. CASE i = Len(o)
  <2>1. job' = NoJob /\ job'.phase = "none"
    BY <1>1, <1>14 DEF NoJob
  <2>2. JobInv'
    BY <1>1, <1>2, <2>1 DEF JobInv, NoJob, Busy
  <2>3. FitInv' /\ SaveInv' /\ KeptInv' /\ OwnInv'
    BY <2>1 DEF FitInv, SaveInv, KeptInv, OwnInv, Busy
  <2> QED BY <1>11, <1>12, <1>13, <2>2, <2>3 DEF TrainInv
<1>15. CASE i # Len(o)
  <2>1. job' = [n |-> job.n, cfg |-> job.cfg, held |-> job.held, phase |-> job.phase,
                epoch |-> job.epoch, best |-> job.best, wait |-> job.wait, saved |-> i]
    BY <1>1, <1>15 DEF TrainInv, JobInv
  <2>2. job'.n = job.n /\ job'.cfg = job.cfg /\ job'.held = job.held /\ job'.phase = "save"
        /\ job'.saved = i /\ job'.epoch = job.epoch /\ job'.best = job.best
    BY <1>1, <2>1
  <2>3. Busy' /\ JobInv'
    BY <1>1, <1>2, <2>1, <2>2 DEF TrainInv, JobInv, Busy
  <2>4. SaveOrder(job') = o /\ TrainCells(job)' = TrainCells(job)
    BY <2>2 DEF SaveOrder, TrainCells, o
  <2>5. OwnInv'
    BY <1>10, <2>2, <2>4 DEF OwnInv, WrittenBy
  <2>6. SaveInv'
    <3>1. i < Len(o)
      BY <1>4, <1>6, <1>15
    <3>2. \A x \in 1..i : Has(o[x], job.n)
      <4> TAKE x \in 1..i
      <4>1. CASE x = i
        BY <1>9, <4>1 DEF file
      <4>2. CASE x # i
        <5>1. x \in 1..job.saved
          BY <1>2, <4>2
        <5> QED BY <1>3, <1>5, <5>1 DEF WrittenBy
      <4> QED BY <4>1, <4>2
    <3>3. Has("weights", job.n) => Final(dir'["weights"].v)
      BY <1>3, <1>5, <1>8 DEF WrittenBy
    <3>4. Has("arch_params", job.n) => i >= Len(o) - 1
      BY <1>2, <1>3, <1>4, <1>7, <1>9
    <3> QED BY <2>2, <2>4, <3>1, <3>2, <3>3, <3>4 DEF SaveInv, WrittenBy
  <2>7. FitInv'
    BY <2>2 DEF FitInv
  <2>8. KeptInv'
    <3>1. \A f \in {"weights", "last"} :
             WrittenBy(f, job.n) => Has(f, job.n) /\ dir'[f] = dir[f]
      BY <1>5, <1>8 DEF WrittenBy
    <3> QED BY <1>1, <1>2, <2>2, <3>1 DEF TrainInv, KeptInv, WrittenBy
  <2> QED BY <1>11, <1>12, <1>13, <2>3, <2>5, <2>6, <2>7, <2>8 DEF TrainInv
<1> QED BY <1>14, <1>15

-----------------------------------------------------------------------------
(* What is generated.                                                      *)

PublishedMap == bucket["cell_config_map"].v.map
Wanted == Targets(gen.conf, PublishedMap)

\* The objects of some cells.
Names(cells) == {ObjectName[c] : c \in cells}

\* What is listed is stored under its name, for itself or for another that is listed.
Stored(done, o) ==
    /\ o.key = ObjectName[o.cell] /\ o.key \in DOMAIN out /\ o.rows = gen.conf.n_weeks * SeqLen
    /\ out[o.key].rows = o.rows
    /\ \E p \in done : p.key = o.key /\ out[o.key].cell = p.cell

\* What the loop has listed is stored, and is all it took from the cells wanted.
LoopInv ==
    Running("cells") =>
       /\ gen.files["cell_config_map"].v.map = PublishedMap
       /\ gen.todo \subseteq Wanted /\ {o.cell : o \in gen.done} = Wanted \ gen.todo
       /\ \A o \in gen.done : Stored(gen.done, o)

RunShape ==
    gen = [conf |-> gen.conf, entry |-> gen.entry, phase |-> gen.phase, attempt |-> gen.attempt,
           cause |-> gen.cause, files |-> gen.files, labels |-> gen.labels,
           filter |-> gen.filter, todo |-> gen.todo, done |-> gen.done]

\* Nothing is stored but for cells that are wanted, before the metadata is.
StoreInv ==
    /\ bucket # <<>> => /\ "cell_config_map" \in DOMAIN bucket
                       /\ \A x \in DOMAIN PublishedMap : ObjectName[x] # "metadata"
    /\ gen.phase # "none" => bucket # <<>>
    /\ gen.phase = "none" => out = <<>>
    /\ DOMAIN out \ {"metadata"} \subseteq Names(Wanted)
    /\ gen.phase \in {"none", "conf", "submitted", "cells"} => "metadata" \notin DOMAIN out

GenInv == RunShape /\ StoreInv /\ LoopInv /\ MetadataNamesOutputs

LEMMA GenInit == GenerationInit => GenInv
PROOF
<1> SUFFICES ASSUME GenerationInit PROVE GenInv
  OBVIOUS
<1>1. bucket = <<>> /\ gen = NoRun /\ out = <<>> /\ DOMAIN out = {}
  BY DEF GenerationInit
<1>2. gen.phase = "none" /\ RunShape
  BY <1>1 DEF NoRun, RunShape
<1> QED BY <1>1, <1>2 DEF GenInv, StoreInv, LoopInv, Running, MetadataNamesOutputs

LEMMA AgainOf ==
    ASSUME RunShape, NEW task, NEW c, Again(task, c)
    PROVE  /\ RunShape' /\ gen'.phase \in {task, "failed"} /\ gen'.conf = gen.conf
           /\ gen'.files = gen.files /\ gen'.labels = gen.labels /\ gen'.filter = gen.filter
           /\ gen'.done = gen.done
PROOF
<1> DEFINE R(p, a, u) == [conf |-> gen.conf, entry |-> gen.entry, phase |-> p, attempt |-> a,
                          cause |-> u, files |-> gen.files, labels |-> gen.labels,
                          filter |-> gen.filter, todo |-> gen.todo, done |-> gen.done]
           p == IF gen.attempt <= Retries THEN task ELSE "failed"
           n == gen.attempt + 1
<1>1. gen' = [gen EXCEPT !.cause = c, !.attempt = n, !.phase = p]
  BY DEF Again
<1>2. p \in {task, "failed"}
  OBVIOUS
<1> HIDE DEF p, n
<1>3. [gen EXCEPT !.cause = c] = R(gen.phase, gen.attempt, c)
  BY DEF RunShape
<1>4. [R(gen.phase, gen.attempt, c) EXCEPT !.attempt = n] = R(gen.phase, n, c)
  OBVIOUS
<1>5. [R(gen.phase, n, c) EXCEPT !.phase = p] = R(p, n, c)
  OBVIOUS
<1> HIDE DEF R
<1>6. gen' = R(p, n, c)
  BY <1>1, <1>3, <1>4, <1>5
<1> QED BY <1>2, <1>6 DEF R, RunShape

LEMMA AgainKeeps ==
    ASSUME GenInv, gen.phase # "none", NEW task \in {"conf", "submitted", "similarity"}, NEW c,
           Again(task, c), UNCHANGED <<bucket, out>>,
           task # "similarity" => "metadata" \notin DOMAIN out
    PROVE  GenInv'
PROOF
<1>1. RunShape' /\ gen'.phase \in {task, "failed"} /\ gen'.conf = gen.conf
  BY AgainOf DEF GenInv
<1>2. StoreInv'
  BY <1>1 DEF GenInv, StoreInv, Names, Wanted, PublishedMap
<1>3. LoopInv'
  BY <1>1 DEF LoopInv, Running
<1>4. MetadataNamesOutputs'
  BY <1>1 DEF GenInv, MetadataNamesOutputs, Targets
<1> QED BY <1>1, <1>2, <1>3, <1>4 DEF GenInv

LEMMA PublishKeeps ==
    ASSUME GenInv, DirInv, Publish
    PROVE  GenInv'
PROOF
<1>1. PICK extra : bucket' = [f \in Mandatory \cup extra |-> dir[f]]
  BY DEF Publish
<1>2. bucket = <<>> /\ Mandatory \subseteq DOMAIN dir /\ UNCHANGED <<gen, out>>
  BY DEF Publish
<1>3. gen.phase = "none" /\ out = <<>> /\ DOMAIN out = {}
  BY <1>2 DEF GenInv, StoreInv
<1>4. "cell_config_map" \in Mandatory
  BY DEF Mandatory
<1>5. "cell_config_map" \in DOMAIN bucket' /\ PublishedMap' = dir["cell_config_map"].v.map
  BY <1>1, <1>4 DEF PublishedMap
<1>6. \A x \in DOMAIN PublishedMap' : ObjectName[x] # "metadata"
  BY <1>2, <1>4, <1>5 DEF DirInv
<1>7. StoreInv'
  BY <1>2, <1>3, <1>5, <1>6 DEF StoreInv
<1>8. RunShape' /\ LoopInv' /\ MetadataNamesOutputs'
  BY <1>2, <1>3 DEF GenInv, RunShape, LoopInv, Running, MetadataNamesOutputs
<1> QED BY <1>7, <1>8 DEF GenInv

LEMMA LaunchKeeps ==
    ASSUME GenInv, NEW conf, NEW entry, Launch(conf, entry)
    PROVE  GenInv'
PROOF
<1>1. /\ gen = NoRun /\ bucket # <<>> /\ UNCHANGED <<bucket, out>>
      /\ gen' = [conf |-> conf, entry |-> entry, phase |-> "conf", attempt |-> 1, cause |-> None,
                 files |-> <<>>, labels |-> <<>>, filter |-> <<>>, todo |-> {}, done |-> {}]
  BY DEF Launch
<1>2. gen'.phase = "conf" /\ RunShape'
  BY <1>1 DEF RunShape
<1>3. out = <<>> /\ DOMAIN out = {}
  BY <1>1 DEF GenInv, StoreInv, NoRun
<1>4. StoreInv'
  BY <1>1, <1>2, <1>3 DEF GenInv, StoreInv, PublishedMap
<1>5. LoopInv' /\ MetadataNamesOutputs'
  BY <1>1, <1>2, <1>3 DEF LoopInv, Running, MetadataNamesOutputs
<1> QED BY <1>2, <1>4, <1>5 DEF GenInv

LEMMA PrepareKeeps ==
    ASSUME GenInv, PrepareConf
    PROVE  GenInv'
PROOF
<1>1. gen.phase = "conf" /\ UNCHANGED <<bucket, out>>
  BY Zenon DEF PrepareConf, Running
<1>2. CASE Again("conf", "conf")
  BY <1>1, <1>2, AgainKeeps DEF GenInv, StoreInv
<1>3. CASE gen' = [gen EXCEPT !.phase = "submitted", !.attempt = 1]
  <2> DEFINE R(p, a) == [conf |-> gen.conf, entry |-> gen.entry, phase |-> p, attempt |-> a,
                         cause |-> gen.cause, files |-> gen.files, labels |-> gen.labels,
                         filter |-> gen.filter, todo |-> gen.todo, done |-> gen.done]
  <2>1. [gen EXCEPT !.phase = "submitted"] = R("submitted", gen.attempt)
    BY DEF GenInv, RunShape
  <2>2. [R("submitted", gen.attempt) EXCEPT !.attempt = 1] = R("submitted", 1)
    OBVIOUS
  <2> HIDE DEF R
  <2>3. gen' = R("submitted", 1)
    BY <1>3, <2>1, <2>2
  <2>4. RunShape' /\ gen'.phase = "submitted" /\ gen'.conf = gen.conf
    BY <2>3 DEF R, RunShape
  <2>5. StoreInv'
    BY <1>1, <2>4 DEF GenInv, StoreInv, Names, Wanted, PublishedMap
  <2>6. LoopInv' /\ MetadataNamesOutputs'
    BY <1>1, <2>4, <2>5 DEF StoreInv, LoopInv, Running, MetadataNamesOutputs
  <2> QED BY <2>4, <2>5, <2>6 DEF GenInv
<1> QED BY <1>2, <1>3 DEF PrepareConf

LEMMA MainKeeps ==
    ASSUME GenInv, Main
    PROVE  GenInv'
PROOF
<1>1. gen.phase = "submitted" /\ UNCHANGED <<bucket, out>> /\ Again("submitted", "flags")
  BY DEF Main, Running
<1> QED BY <1>1, AgainKeeps DEF GenInv, StoreInv

LEMMA TaskDiesKeeps ==
    ASSUME GenInv, TaskDies
    PROVE  GenInv'
PROOF
<1>1. gen.phase \in {"submitted", "cells"} /\ UNCHANGED <<bucket, out>> /\ Again("submitted", "died")
  BY DEF TaskDies, Running
<1> QED BY <1>1, AgainKeeps DEF GenInv, StoreInv

\* The record of a run once its files are read.
Reads(f, l, s, t) ==
    gen' = [gen EXCEPT !.phase = "cells", !.files = f, !.done = {}, !.labels = l,
                       !.filter = s, !.todo = t]

LEMMA Fetched ==
    ASSUME RunShape, NEW f, NEW l, NEW s, NEW t, Reads(f, l, s, t)
    PROVE  gen' = [conf |-> gen.conf, entry |-> gen.entry, phase |-> "cells",
                   attempt |-> gen.attempt, cause |-> gen.cause, files |-> f, labels |-> l,
                   filter |-> s, todo |-> t, done |-> {}]
PROOF
<1> DEFINE R(p, g, d, x, y, z) ==
               [conf |-> gen.conf, entry |-> gen.entry, phase |-> p, attempt |-> gen.attempt,
                cause |-> gen.cause, files |-> g, labels |-> x, filter |-> y, todo |-> z,
                done |-> d]
<1>1. [gen EXCEPT !.phase = "cells"]
          = R("cells", gen.files, gen.done, gen.labels, gen.filter, gen.todo)
  BY DEF RunShape
<1>2. [R("cells", gen.files, gen.done, gen.labels, gen.filter, gen.todo) EXCEPT !.files = f]
          = R("cells", f, gen.done, gen.labels, gen.filter, gen.todo)
  OBVIOUS
<1>3. [R("cells", f, gen.done, gen.labels, gen.filter, gen.todo) EXCEPT !.done = {}]
          = R("cells", f, {}, gen.labels, gen.filter, gen.todo)
  OBVIOUS
<1>4. [R("cells", f, {}, gen.labels, gen.filter, gen.todo) EXCEPT !.labels = l]
          = R("cells", f, {}, l, gen.filter, gen.todo)
  OBVIOUS
<1>5. [R("cells", f, {}, l, gen.filter, gen.todo) EXCEPT !.filter = s]
          = R("cells", f, {}, l, s, gen.todo)
  OBVIOUS
<1>6. [R("cells", f, {}, l, s, gen.todo) EXCEPT !.todo = t] = R("cells", f, {}, l, s, t)
  OBVIOUS
<1> HIDE DEF R
<1>7. [gen EXCEPT !.phase = "cells", !.files = f, !.done = {}]
          = R("cells", f, {}, gen.labels, gen.filter, gen.todo)
  BY ONLY <1>1, <1>2, <1>3
<1>8. [R("cells", f, {}, gen.labels, gen.filter, gen.todo)
          EXCEPT !.labels = l, !.filter = s, !.todo = t] = R("cells", f, {}, l, s, t)
  BY ONLY <1>4, <1>5, <1>6
<1>9. [gen EXCEPT !.phase = "cells", !.files = f, !.done = {}, !.labels = l, !.filter = s,
                  !.todo = t]
          = [[gen EXCEPT !.phase = "cells", !.files = f, !.done = {}]
                EXCEPT !.labels = l, !.filter = s, !.todo = t]
  OBVIOUS
<1>10. [gen EXCEPT !.phase = "cells", !.files = f, !.done = {}, !.labels = l, !.filter = s,
                   !.todo = t] = R("cells", f, {}, l, s, t)
  BY ONLY <1>7, <1>8, <1>9
<1> QED BY <1>10 DEF R, Reads

LEMMA FetchKeeps ==
    ASSUME GenInv, Fetch
    PROVE  GenInv'
PROOF
<1>1. gen.phase = "submitted" /\ UNCHANGED <<bucket, out>>
  BY Zenon DEF Fetch, Running
<1> DEFINE files(lost) == [f \in DOMAIN bucket \ lost |-> bucket[f]]
           named(lost) == "kpi_columns" \in DOMAIN files(lost)
           wish        == gen.conf.kpi_list
           labels(lost) == IF named(lost) THEN files(lost)["kpi_columns"].v ELSE wish
           filter(lost) == IF named(lost) THEN wish ELSE <<>>
           todo(lost)   == Targets(gen.conf, files(lost)["cell_config_map"].v.map)
<1>2. PICK lost \in SUBSET (Optional \cap DOMAIN bucket) :
         IF (named(lost) \/ wish # <<>>) /\ Loads(files(lost))
         THEN gen' = [gen EXCEPT !.phase = "cells", !.files = files(lost), !.done = {},
                                 !.labels = labels(lost), !.filter = filter(lost),
                                 !.todo = todo(lost)]
         ELSE Again("submitted", "files")
  BY Zenon DEF Fetch
<1>3. CASE Again("submitted", "files")
  BY <1>1, <1>3, AgainKeeps DEF GenInv, StoreInv
<1>4. CASE gen' = [gen EXCEPT !.phase = "cells", !.files = files(lost), !.done = {},
                              !.labels = labels(lost), !.filter = filter(lost),
                              !.todo = todo(lost)]
  <2> DEFINE R(p, f, d, l, s, t) ==
                 [conf |-> gen.conf, entry |-> gen.entry, phase |-> p, attempt |-> gen.attempt,
                  cause |-> gen.cause, files |-> f, labels |-> l, filter |-> s, todo |-> t,
                  done |-> d]
             F == files(lost)
             L == labels(lost)
             S == filter(lost)
             T == todo(lost)
  <2>1. "cell_config_map" \in DOMAIN bucket /\ "cell_config_map" \notin lost
    BY <1>1 DEF GenInv, StoreInv, Optional
  <2>2. F["cell_config_map"].v.map = PublishedMap
    BY <2>1 DEF PublishedMap
  <2>3. T = Wanted
    BY <2>2 DEF Wanted
  <2>4. gen' = [gen EXCEPT !.phase = "cells", !.files = F, !.done = {}, !.labels = L,
                           !.filter = S, !.todo = T]
    BY <1>4
  <2> HIDE DEF F, L, S, T
  <2>5. RunShape
    BY DEF GenInv
  <2>11. gen' = R("cells", F, {}, L, S, T)
    <3>1. Reads(F, L, S, T)
      BY <2>4, Zenon DEF Reads
    <3> QED BY <2>5, <3>1, Fetched
  <2>12. /\ RunShape' /\ gen'.phase = "cells" /\ gen'.conf = gen.conf /\ gen'.files = F
         /\ gen'.done = {} /\ gen'.todo = T
    BY <2>11 DEF R, RunShape
  <2>13. Wanted' = Wanted /\ PublishedMap' = PublishedMap
    BY <1>1, <2>12 DEF Wanted, PublishedMap
  <2>14. StoreInv'
    BY <1>1, <2>12, <2>13 DEF GenInv, StoreInv, Names
  <2>15. LoopInv'
    BY <2>2, <2>3, <2>12, <2>13 DEF LoopInv
  <2>16. MetadataNamesOutputs'
    BY <2>12, <2>14 DEF StoreInv, MetadataNamesOutputs
  <2> QED BY <2>12, <2>14, <2>15, <2>16 DEF GenInv
<1> QED BY <1>2, <1>3, <1>4

LEMMA CellKeeps ==
    ASSUME GenInv, GenerateCell
    PROVE  GenInv'
PROOF
<1> DEFINE c == CHOOSE x \in gen.todo : TRUE
           w == GenerateWindows(gen.conf, gen.files, gen.labels, gen.filter, c)
           d == Listed(w)
           key == ObjectName[c]
<1>1. gen.phase = "cells" /\ gen.todo # {} /\ bucket' = bucket
  BY Zenon DEF GenerateCell, Running
<1>2. IF CanGenerate(c)
      THEN /\ out' = With(out, key, w)
           /\ gen' = [gen EXCEPT !.todo = @ \ {c}, !.done = @ \cup {d}]
      ELSE Again("submitted", "cell") /\ UNCHANGED out
  BY Zenon DEF GenerateCell
<1>3. c \in gen.todo
  BY <1>1
<1>4. w.cell = c /\ w.rows = gen.conf.n_weeks * SeqLen
  BY DEF GenerateWindows
<1>5. CanGenerate(c) => c \in DOMAIN gen.files["cell_config_map"].v.map
  BY DEF CanGenerate
<1> HIDE DEF c, w
<1>6. CASE ~CanGenerate(c)
  BY <1>1, <1>2, <1>6, AgainKeeps DEF GenInv, StoreInv
<1>7. CASE CanGenerate(c)
  <2> DEFINE R(t, s) == [conf |-> gen.conf, entry |-> gen.entry, phase |-> gen.phase,
                         attempt |-> gen.attempt, cause |-> gen.cause, files |-> gen.files,
                         labels |-> gen.labels, filter |-> gen.filter, todo |-> t, done |-> s]
             T == gen.todo \ {c}
             S == gen.done \cup {d}
  <2>1. gen' = [gen EXCEPT !.todo = T, !.done = S] /\ out' = With(out, key, w)
    BY <1>2, <1>7
  <2> HIDE DEF T, S
  <2>2. [gen EXCEPT !.todo = T] = R(T, gen.done)
    BY DEF GenInv, RunShape
  <2>3. [R(T, gen.done) EXCEPT !.done = S] = R(T, S)
    OBVIOUS
  <2> HIDE DEF R
  <2>4. gen' = R(T, S)
    BY <2>1, <2>2, <2>3
  <2>5. /\ RunShape' /\ gen'.phase = "cells" /\ gen'.conf = gen.conf /\ gen'.files = gen.files
        /\ gen'.todo = T /\ gen'.done = S
    BY <1>1, <2>4 DEF R, RunShape
  <2>6. Wanted' = Wanted /\ PublishedMap' = PublishedMap
    BY <1>1, <2>5 DEF Wanted, PublishedMap
  <2>7. /\ gen.files["cell_config_map"].v.map = PublishedMap
        /\ gen.todo \subseteq Wanted /\ {o.cell : o \in gen.done} = Wanted \ gen.todo
        /\ \A o \in gen.done : Stored(gen.done, o)
    BY <1>1 DEF GenInv, LoopInv, Running
  <2>8. key # "metadata" /\ "metadata" \notin DOMAIN out /\ DOMAIN out \subseteq Names(Wanted)
        /\ bucket # <<>>
    BY <1>1, <1>5, <1>7, <2>7 DEF GenInv, StoreInv
  <2>9. /\ DOMAIN out' = DOMAIN out \cup {key} /\ out'[key] = w
        /\ \A g \in DOMAIN out : g # key => out'[g] = out[g]
    BY <2>1 DEF With
  <2>10. StoreInv'
    <3>1. Names(Wanted)' = Names(Wanted) /\ key \in Names(Wanted)
      BY <1>3, <2>6, <2>7 DEF Names
    <3> QED BY <1>1, <2>5, <2>6, <2>8, <2>9, <3>1 DEF GenInv, StoreInv
  <2>11. LoopInv'
    <3>1. T \subseteq Wanted
      BY <2>7 DEF T
    <3>2. d.cell = c /\ d.key = key /\ d.rows = gen.conf.n_weeks * SeqLen
      BY <1>4 DEF Listed
    <3> HIDE DEF d, key
    <3>3. {o.cell : o \in S} = Wanted \ T
      BY <1>3, <2>7, <3>2 DEF S, T
    <3>4. \A o \in S : /\ o.key = ObjectName[o.cell] /\ o.rows = gen.conf.n_weeks * SeqLen
                       /\ o.key \in DOMAIN out' /\ out'[o.key].rows = o.rows
                       /\ \E p \in S : p.key = o.key /\ out'[o.key].cell = p.cell
      <4> TAKE o \in S
      <4>1. o = d \/ (o \in gen.done /\ Stored(gen.done, o))
        BY <2>7 DEF S
      <4>2. o.key = ObjectName[o.cell] /\ o.rows = gen.conf.n_weeks * SeqLen
        BY <3>2, <4>1 DEF Stored, key
      <4>3. CASE o.key = key
        BY <1>4, <2>9, <3>2, <4>2, <4>3 DEF S
      <4>4. CASE o.key # key
        <5>1. o \in gen.done /\ o.key \in DOMAIN out /\ out'[o.key] = out[o.key]
          BY <2>9, <3>2, <4>1, <4>4 DEF Stored
        <5>2. /\ out[o.key].rows = o.rows
              /\ \E p \in gen.done : p.key = o.key /\ out[o.key].cell = p.cell
          BY <2>7, <5>1 DEF Stored
        <5> QED BY <2>9, <4>2, <5>1, <5>2 DEF S
      <4> QED BY <4>3, <4>4
    <3>5. \A o \in gen'.done : Stored(gen.done, o)'
      BY <2>5, <3>4 DEF Stored
    <3> QED BY <2>5, <2>6, <2>7, <3>1, <3>3, <3>5 DEF LoopInv
  <2>12. MetadataNamesOutputs'
    BY <2>8, <2>9 DEF MetadataNamesOutputs
  <2> QED BY <2>5, <2>10, <2>11, <2>12 DEF GenInv
<1> QED BY <1>6, <1>7

LEMMA MetadataKeeps ==
    ASSUME GenInv, WriteMetadata
    PROVE  GenInv'
PROOF
<1>1. /\ gen.phase = "cells" /\ gen.todo = {} /\ bucket' = bucket
      /\ out' = With(out, "metadata", gen.done)
      /\ gen' = [gen EXCEPT !.phase = "similarity", !.attempt = 1]
  BY Zenon DEF WriteMetadata, Running
<1> DEFINE R(p, a) == [conf |-> gen.conf, entry |-> gen.entry, phase |-> p, attempt |-> a,
                       cause |-> gen.cause, files |-> gen.files, labels |-> gen.labels,
                       filter |-> gen.filter, todo |-> gen.todo, done |-> gen.done]
<1>2. [gen EXCEPT !.phase = "similarity"] = R("similarity", gen.attempt)
  BY DEF GenInv, RunShape
<1>3. [R("similarity", gen.attempt) EXCEPT !.attempt = 1] = R("similarity", 1)
  OBVIOUS
<1> HIDE DEF R
<1>4. gen' = R("similarity", 1)
  BY <1>1, <1>2, <1>3
<1>5. RunShape' /\ gen'.phase = "similarity" /\ gen'.conf = gen.conf
  BY <1>4 DEF R, RunShape
<1>6. Wanted' = Wanted /\ PublishedMap' = PublishedMap
  BY <1>1, <1>5 DEF Wanted, PublishedMap
<1>7. /\ DOMAIN out' = DOMAIN out \cup {"metadata"} /\ out'["metadata"] = gen.done
      /\ \A g \in DOMAIN out : g # "metadata" => out'[g] = out[g]
  BY <1>1 DEF With
<1>8. /\ {o.cell : o \in gen.done} = Wanted
      /\ \A o \in gen.done : Stored(gen.done, o)
      /\ "metadata" \notin DOMAIN out /\ DOMAIN out \subseteq Names(Wanted) /\ bucket # <<>>
  BY <1>1 DEF GenInv, LoopInv, StoreInv, Running
<1>9. StoreInv'
  <2>1. Names(Wanted)' = Names(Wanted)
    BY <1>6 DEF Names
  <2> QED BY <1>1, <1>5, <1>6, <1>7, <1>8, <2>1 DEF GenInv, StoreInv
<1>10. MetadataNamesOutputs'
  <2>1. {o.cell : o \in gen.done} = Targets(gen.conf, bucket["cell_config_map"].v.map)
    BY <1>8 DEF Wanted, PublishedMap
  <2>2. {o.key : o \in gen.done} = DOMAIN out' \ {"metadata"}
    <3>1. \A o \in gen.done : o.key \in DOMAIN out /\ o.key = ObjectName[o.cell]
      BY <1>8 DEF Stored
    <3>2. \A x \in DOMAIN out : \E o \in gen.done : o.key = x
      <4> TAKE x \in DOMAIN out
      <4>1. PICK y \in Wanted : x = ObjectName[y]
        BY <1>8 DEF Names
      <4>2. PICK o \in gen.done : o.cell = y
        BY <1>8
      <4> QED BY <3>1, <4>1, <4>2
    <3> QED BY <1>7, <1>8, <3>1, <3>2
  <2>3. ASSUME NEW o \in gen.done
        PROVE  /\ out'[o.key].rows = o.rows
               /\ \/ out'[o.key].cell = o.cell
                  \/ \E twin \in gen.done : twin # o /\ twin.key = o.key
                                           /\ out'[o.key].cell = twin.cell
    <3>1. o.key \in DOMAIN out /\ out[o.key].rows = o.rows
      BY <1>8 DEF Stored
    <3>2. PICK p \in gen.done : p.key = o.key /\ out[o.key].cell = p.cell
      BY <1>8 DEF Stored
    <3>3. out'[o.key] = out[o.key]
      BY <1>7, <1>8, <3>1
    <3> QED BY <3>1, <3>2, <3>3
  <2>4. /\ out'["metadata"] = gen.done /\ gen'.conf = gen.conf /\ bucket' = bucket
    BY <1>1, <1>5, <1>7
  <2>5. Targets(gen.conf, bucket["cell_config_map"].v.map)' =
           Targets(gen.conf, bucket["cell_config_map"].v.map)
    BY <2>4 DEF Targets
  <2> QED BY <2>1, <2>2, <2>3, <2>4, <2>5, SMTT(30) DEF MetadataNamesOutputs
<1>11. LoopInv'
  BY <1>5 DEF LoopInv, Running
<1> QED BY <1>5, <1>9, <1>10, <1>11 DEF GenInv

LEMMA SimilarityKeeps ==
    ASSUME GenInv, RunDataSimilarity \/ SimilarityFails
    PROVE  GenInv'
PROOF
<1>1. CASE SimilarityFails
  <2>1. gen.phase = "similarity" /\ UNCHANGED <<bucket, out>> /\ Again("similarity", "similarity")
    BY <1>1 DEF SimilarityFails, Running
  <2> QED BY <2>1, AgainKeeps
<1>2. CASE RunDataSimilarity
  <2>1. /\ gen.phase = "similarity" /\ UNCHANGED <<bucket, out>>
        /\ gen' = [gen EXCEPT !.phase = "done"]
    BY <1>2, Zenon DEF RunDataSimilarity, Running
  <2>2. RunShape' /\ gen'.phase = "done" /\ gen'.conf = gen.conf
    BY <2>1 DEF GenInv, RunShape
  <2>3. StoreInv'
    BY <2>1, <2>2 DEF GenInv, StoreInv, Names, Wanted, PublishedMap
  <2>4. LoopInv' /\ MetadataNamesOutputs'
    BY <2>1, <2>2 DEF GenInv, LoopInv, Running, MetadataNamesOutputs, Targets
  <2> QED BY <2>2, <2>3, <2>4 DEF GenInv
<1> QED BY <1>1, <1>2

-----------------------------------------------------------------------------
(* The whole.                                                              *)

IInv == TrainInv /\ GenInv

LEMMA TrainStutter ==
    ASSUME TrainInv, UNCHANGED trainingVars
    PROVE  TrainInv'
PROOF
<1>1. UNCHANGED <<dir, job, trainings>>
  BY DEF trainingVars
<1>2. JobInv' /\ FitInv'
  BY <1>1 DEF TrainInv, JobInv, FitInv, Busy, WrittenBy
<1>3. SaveInv'
  BY <1>1 DEF TrainInv, SaveInv, WrittenBy
<1>4. OwnInv'
  BY <1>1 DEF TrainInv, OwnInv, Busy, WrittenBy, TrainCells
<1>5. DirInv' /\ HoldoutIsFair'
  BY <1>1 DEF TrainInv, DirInv, HoldoutIsFair, WrittenBy
<1>6. KeptInv' /\ WholeInv'
  BY <1>1 DEF TrainInv, KeptInv, WholeInv, KeptDir, HistoryDir, HeldDir, LeftOut, Busy, WrittenBy
<1> QED BY <1>2, <1>3, <1>4, <1>5, <1>6 DEF TrainInv

LEMMA GenStutter ==
    ASSUME GenInv, UNCHANGED generationVars
    PROVE  GenInv'
PROOF
<1>1. UNCHANGED <<bucket, gen, out>>
  BY DEF generationVars
<1>2. RunShape' /\ StoreInv'
  BY <1>1 DEF GenInv, RunShape, StoreInv, Names, Wanted, PublishedMap
<1>3. LoopInv' /\ MetadataNamesOutputs'
  BY <1>1 DEF GenInv, LoopInv, Stored, MetadataNamesOutputs, Targets, Running, Wanted, PublishedMap
<1> QED BY <1>2, <1>3 DEF GenInv

LEMMA TrainingKeeps ==
    ASSUME TrainInv, TrainingNext
    PROVE  TrainInv'
PROOF
<1>1. ASSUME NEW c \in Configs, Start(c) PROVE TrainInv'
  BY <1>1, StartKeeps
<1>2. CASE TrainVAE
  BY <1>2, VAEKeeps
<1>3. CASE TrainGAN
  BY <1>3, GANKeeps
<1>4. CASE TrainDiffusion
  BY <1>4, DiffusionKeeps
<1>5. CASE Finalize
  BY <1>5, FinalizeKeeps
<1>6. CASE SaveNext
  BY <1>6, SaveKeeps
<1>7. CASE Die
  BY <1>7, DieKeeps DEF Die
<1> QED BY <1>1, <1>2, <1>3, <1>4, <1>5, <1>6, <1>7 DEF TrainingNext

LEMMA GenerationKeeps ==
    ASSUME GenInv, DirInv, GenerationNext
    PROVE  GenInv'
PROOF
<1>1. CASE Publish
  BY <1>1, PublishKeeps
<1>2. ASSUME NEW conf \in Confs, NEW entry, Launch(conf, entry) PROVE GenInv'
  BY <1>2, LaunchKeeps
<1>3. CASE PrepareConf
  BY <1>3, PrepareKeeps
<1>4. CASE Main
  BY <1>4, MainKeeps
<1>5. CASE Fetch
  BY <1>5, FetchKeeps
<1>6. CASE GenerateCell
  BY <1>6, CellKeeps
<1>7. CASE WriteMetadata
  BY <1>7, MetadataKeeps
<1>8. CASE TaskDies
  BY <1>8, TaskDiesKeeps
<1> QED BY <1>1, <1>2, <1>3, <1>4, <1>5, <1>6, <1>7, <1>8 DEF GenerationNext

LEMMA NextKeeps == IInv /\ [Next]_vars => IInv'
PROOF
<1> SUFFICES ASSUME IInv, [Next]_vars PROVE IInv'
  OBVIOUS
<1> USE DEF IInv
<1>1. CASE TrainingNext /\ UNCHANGED generationVars
  BY <1>1, TrainingKeeps, GenStutter
<1>2. CASE GenerationNext /\ UNCHANGED trainingVars
  <2>1. DirInv
    BY DEF TrainInv
  <2> QED BY <1>2, <2>1, GenerationKeeps, TrainStutter
<1>3. CASE (RunDataSimilarity \/ SimilarityFails) /\ UNCHANGED trainingVars
  BY <1>3, SimilarityKeeps, TrainStutter
<1>4. CASE UNCHANGED vars
  BY <1>4, TrainStutter, GenStutter DEF vars
<1> QED BY <1>1, <1>2, <1>3, <1>4 DEF Next

\* In every state: what is in the run directory is of the trainings it says, up to where
\* the last of them has come; what is stored is of cells the published map names.
THEOREM Inductive == Spec => []IInv
PROOF
<1>1. Init => IInv
  BY TrainInit, GenInit DEF Init, IInv
<1> QED BY <1>1, NextKeeps, PTL DEF Spec

\* save_training_artifacts writes arch_params.json after all that a generation reads, and
\* the history after it: wherever a process died before, and whatever two trainings wrote
\* into the directory, no artifact beside them is missing or older, the held-out cells on
\* file are those that were left out, and the weights are the final ones of the same
\* training, unless it was a VAE's that ended before an epoch was monitored.
THEOREM FinishedHolds == Spec => []FinishedIsWhole
PROOF
<1>1. IInv => FinishedIsWhole
  <2> SUFFICES ASSUME IInv, NEW n \in 1..trainings,
                      WrittenBy("arch_params", n) \/ WrittenBy("training_history", n),
                      \A f \in DOMAIN dir : dir[f].n <= n
               PROVE  /\ \A f \in Seven \cup {"arch_params"} : WrittenBy(f, n)
                      /\ LeftOut # {} =>
                            WrittenBy("heldout_cells", n) /\ dir["heldout_cells"].v = LeftOut
                      /\ \/ WrittenBy("weights", n) /\ Final(dir["weights"].v)
                         \/ WrittenBy("last", n) /\ Unmonitored(dir["last"].v)
    BY DEF FinishedIsWhole, Seven
  <2>1. DirInv /\ WholeInv /\ trainings \in Nat /\ n \in Nat
    BY DEF IInv, TrainInv, JobInv
  <2>2. \A f \in DOMAIN dir : dir[f].n \in Nat /\ dir[f].n <= n
    BY <2>1 DEF DirInv
  <2>3. WrittenBy("arch_params", n)
    <3>1. CASE WrittenBy("training_history", n)
      BY <2>1, <2>2, <3>1 DEF WholeInv, HistoryDir, WrittenBy
    <3> QED BY <3>1
  <2>4. ASSUME NEW f \in Seven PROVE WrittenBy(f, n)
    <3>1. f \in DOMAIN dir /\ dir[f].n >= n
      BY <2>1, <2>3, <2>4 DEF DirInv, WrittenBy
    <3> QED BY <2>1, <2>2, <3>1 DEF WrittenBy
  <2>5. ASSUME LeftOut # {}
        PROVE  WrittenBy("heldout_cells", n) /\ dir["heldout_cells"].v = LeftOut
    <3>1. WrittenBy("cell_ids", n) /\ WrittenBy("cell_config_map", n)
      BY <2>4 DEF Seven
    <3>2. /\ "heldout_cells" \in DOMAIN dir
          /\ \/ dir["heldout_cells"].n > n
             \/ dir["heldout_cells"].n = n /\ dir["heldout_cells"].v = LeftOut
      BY <2>1, <2>3, <2>5, <3>1 DEF WholeInv, HeldDir
    <3> QED BY <2>1, <2>2, <3>2 DEF WrittenBy
  <2>6. \/ WrittenBy("weights", n) /\ Final(dir["weights"].v)
        \/ WrittenBy("last", n) /\ Unmonitored(dir["last"].v)
    <3>1. CASE "weights" \in DOMAIN dir /\ dir["weights"].n >= n
      <4>1. WrittenBy("weights", n)
        BY <2>1, <2>2, <3>1 DEF WrittenBy
      <4> QED BY <2>1, <2>3, <4>1 DEF DirInv
    <3>2. CASE /\ "last" \in DOMAIN dir
               /\ dir["last"].n > n \/ (dir["last"].n = n /\ Unmonitored(dir["last"].v))
      BY <2>1, <2>2, <3>2 DEF WrittenBy
    <3> QED BY <2>1, <2>3, <3>1, <3>2 DEF WholeInv, KeptDir, WrittenBy
  <2> QED BY <2>3, <2>4, <2>5, <2>6
<1> QED BY <1>1, Inductive, PTL

\* _select_holdout_cells and the filter after it: whichever cells the seed holds out,
\* none of their windows is trained on or saved, and each leaves behind a cell of the
\* same configuration; so for every data set, percentage and family of network.
THEOREM FairHolds == Spec => []HoldoutIsFair
PROOF
<1>1. IInv => HoldoutIsFair
  BY DEF IInv, TrainInv
<1> QED BY <1>1, Inductive, PTL

\* run_generation_from_conf lists a cell once its object is stored, and stores the list
\* last: for any cells, names of their objects, arguments and number of retries, wherever
\* an attempt dies.
THEOREM MetadataHolds == Spec => []MetadataNamesOutputs
PROOF
<1>1. IInv => MetadataNamesOutputs
  BY DEF IInv, GenInv
<1> QED BY <1>1, Inductive, PTL

-----------------------------------------------------------------------------
(* What the files of a training hold, wherever they are: in the run        *)
(* directory, the bucket or the task.                                      *)

\* Weights are of a training, and a VAE's of an epoch at which the best were kept.
WeightsInv(files) ==
    "weights" \in DOMAIN files =>
        LET w == files["weights"].v
        IN  /\ w.cfg \in Configs
            /\ Version(w.cfg) \in {"v6", "v7"} =>
                  w.epoch \in Nat /\ w.epoch >= MonitorStart(Config[w.cfg].kl)

Told == {"kpi_columns", "config_encoder", "arch_params"}

\* What a training of c writes down of its data and its network.
Said(f, c) ==
    CASE f = "kpi_columns"    -> Loaded[c].kpis
      [] f = "config_encoder" -> Loaded[c].cats
      [] f = "arch_params"    -> ArchParams([cfg |-> c])

\* Beside the weights of the same training, these are about the network they are of.
SaidInv(files) ==
    "weights" \in DOMAIN files =>
        \A f \in Told \cap DOMAIN files :
            files[f].n = files["weights"].n => files[f].v = Said(f, files["weights"].v.cfg)

Honest(files) == WeightsInv(files) /\ SaidInv(files)

\* The task has the files of the bucket, but for some of the optional ones.
FetchedInv ==
    /\ bucket # <<>> => Mandatory \subseteq DOMAIN bucket
    /\ \A f \in DOMAIN gen.files : f \in DOMAIN bucket /\ gen.files[f] = bucket[f]
    /\ gen.phase = "cells" \/ DOMAIN out \ {"metadata"} # {} =>
          Mandatory \subseteq DOMAIN gen.files
    /\ "kpi_columns" \in DOMAIN gen.files =>
          gen.labels = gen.files["kpi_columns"].v /\ gen.filter = gen.conf.kpi_list

\* A run that was not refused has an anchor.
ConfInv ==
    /\ gen.phase # "none" => gen.conf \in Confs
    /\ gen.phase \in {"submitted", "cells"} => gen.conf.anchor_date # None

\* What is stored is labelled as the task has it, under the calendar it was asked for.
StoredInv ==
    /\ \A o \in gen.done :
          /\ o.key \in DOMAIN out \ {"metadata"}
          /\ out[o.key].columns =
                Columned(gen.labels, Loaded[gen.files["weights"].v.cfg].kpis, gen.filter)
    /\ \A c \in DOMAIN out \ {"metadata"} :
          \/ out[c].calendar = <<>>
          \/ /\ out[c].calendar = BuildCalendarFeatures(Anchors(gen.conf), "US")
             /\ gen.conf.anchor_date \in Int /\ gen.conf.n_weeks \in Nat

HonestInv == Honest(dir) /\ Honest(bucket) /\ FetchedInv /\ ConfInv /\ StoredInv

LEMMA SavedFile ==
    ASSUME TrainInv, job.phase = "save"
    PROVE  SaveOrder(job)[job.saved + 1] \notin {"weights", "last"}
PROOF
<1> DEFINE o == SaveOrder(job)
           i == job.saved + 1
<1>1. job.saved \in Nat /\ job.saved < Len(o)
  BY DEF TrainInv, JobInv, Busy, SaveInv
<1>2. PICK k \in {8, 9} :
         /\ Len(o) = k + 1
         /\ \A x \in 1..7 : o[x] \in Seven
         /\ o[k] = "arch_params" /\ o[k + 1] = "training_history"
         /\ k = 9 => o[8] = "heldout_cells"
  BY SaveOrderOf
<1> HIDE DEF o
<1>3. i \in 1..7 \/ i = k \/ i = k + 1 \/ (k = 9 /\ i = 8)
  BY <1>1, <1>2
<1> QED BY <1>2, <1>3 DEF Seven, o

LEMMA InitHonest == TrainingInit /\ GenerationInit => HonestInv
PROOF
<1> SUFFICES ASSUME TrainingInit, GenerationInit PROVE HonestInv
  OBVIOUS
<1>1. /\ dir = <<>> /\ bucket = <<>> /\ gen = NoRun /\ out = <<>>
      /\ DOMAIN dir = {} /\ DOMAIN bucket = {} /\ DOMAIN out = {}
  BY DEF TrainingInit, GenerationInit
<1>2. gen.phase = "none" /\ DOMAIN gen.files = {} /\ gen.done = {}
  BY <1>1 DEF NoRun
<1>3. Honest(dir) /\ Honest(bucket)
  BY <1>1 DEF Honest, WeightsInv, SaidInv
<1>4. FetchedInv /\ ConfInv /\ StoredInv
  BY <1>1, <1>2 DEF FetchedInv, ConfInv, StoredInv
<1> QED BY <1>3, <1>4 DEF HonestInv

\* Checkpoints keep the directory honest if a VAE's best come no sooner than they may.
LEMMA CheckpointsHonest ==
    ASSUME TrainInv, Honest(dir), job.phase \in {"fit", "finalize"}, NEW e, NEW a,
           OnlyAdds(dir', [n |-> job.n, v |-> Weights(e, a)]),
           Version(job.cfg) \in {"v6", "v7"} /\ "weights" \in DOMAIN dir' =>
              \/ "weights" \in DOMAIN dir /\ dir'["weights"] = dir["weights"]
              \/ e \in Nat /\ e >= MonitorStart(Config[job.cfg].kl)
    PROVE  Honest(dir)'
PROOF
<1> DEFINE own == [n |-> job.n, v |-> Weights(e, a)]
           old == "weights" \in DOMAIN dir /\ dir'["weights"] = dir["weights"]
<1>1. own.n = job.n /\ own.v.cfg = job.cfg /\ own.v.epoch = e
  BY DEF Weights
<1>2. job.cfg \in Configs
  BY DEF TrainInv, JobInv, Busy
<1>3. Told \subseteq Files \ {"weights", "last"}
  BY DEF Told, Files
<1>4. \A f \in Told : f \in DOMAIN dir' => f \in DOMAIN dir /\ dir'[f] = dir[f] /\ dir[f].n # job.n
  BY <1>3 DEF OnlyAdds, TrainInv, FitInv, WrittenBy
<1>5. "weights" \in DOMAIN dir' => old \/ dir'["weights"] = own
  BY DEF OnlyAdds
<1> HIDE DEF own
<1>6. WeightsInv(dir)'
  <2> SUFFICES ASSUME "weights" \in DOMAIN dir'
               PROVE  /\ dir'["weights"].v.cfg \in Configs
                      /\ Version(dir'["weights"].v.cfg) \in {"v6", "v7"} =>
                            /\ dir'["weights"].v.epoch \in Nat
                            /\ dir'["weights"].v.epoch >=
                                  MonitorStart(Config[dir'["weights"].v.cfg].kl)
    BY DEF WeightsInv
  <2>1. CASE old
    BY <2>1 DEF Honest, WeightsInv
  <2>2. CASE ~old
    BY <1>1, <1>2, <1>5, <2>2
  <2> QED BY <2>1, <2>2
<1>7. SaidInv(dir)'
  <2> SUFFICES ASSUME "weights" \in DOMAIN dir', NEW f \in Told, f \in DOMAIN dir',
                      dir'[f].n = dir'["weights"].n
               PROVE  dir'[f].v = Said(f, dir'["weights"].v.cfg)
    BY DEF SaidInv
  <2>1. dir'["weights"].n # job.n
    BY <1>4
  <2>2. old
    BY <1>1, <1>5, <2>1
  <2> QED BY <1>4, <2>2 DEF Honest, SaidInv
<1> QED BY <1>6, <1>7 DEF Honest

LEMMA VAEHonest ==
    ASSUME TrainInv, Honest(dir), TrainVAE
    PROVE  Honest(dir)'
PROOF
<1>1. job.phase = "fit" /\ Version(job.cfg) \in {"v6", "v7"}
  BY Zenon DEF TrainVAE, Fitting
<1> DEFINE monitored == job.epoch >= MonitorStart(Config[job.cfg].kl)
           w         == Weights(job.epoch, FALSE)
           own       == [n |-> job.n, v |-> w]
           d(lower)  == IF monitored /\ lower THEN Put("weights", w, dir) ELSE dir
<1>2. PICK lower \in BOOLEAN : dir' = Put("last", w, d(lower))
  BY Zenon DEF TrainVAE
<1>3. OnlyAdds(d(lower), own)
  BY NothingAdds, PutAdds
<1>4. OnlyAdds(dir', own)
  BY <1>2, <1>3, PutAdds
<1>5. ~monitored /\ "weights" \in DOMAIN dir' =>
         "weights" \in DOMAIN dir /\ dir'["weights"] = dir["weights"]
  BY <1>2 DEF Put, With
<1>6. job.epoch \in Nat
  BY <1>1 DEF TrainInv, JobInv, Busy
<1> QED BY <1>1, <1>4, <1>5, <1>6, CheckpointsHonest

LEMMA GANHonest ==
    ASSUME TrainInv, Honest(dir), TrainGAN
    PROVE  Honest(dir)'
PROOF
<1> DEFINE e == job.epoch
           w == Weights(e, FALSE)
           d == IF (e + 1) % SnapshotEvery(job.cfg) = 0 THEN Put(Snapshot(e + 1), w, dir) ELSE dir
<1>1. job.phase = "fit" /\ Version(job.cfg) = "gan" /\ dir' = Put("weights", w, d)
  BY Zenon DEF TrainGAN, Fitting
<1>2. Snapshot(e + 1) \notin Files
  <2>1. job.cfg \in Configs /\ e \in Nat /\ e < Config[job.cfg].epochs
    BY <1>1 DEF TrainInv, JobInv, FitInv, Busy
  <2>2. Config[job.cfg].epochs \in Nat
    BY <2>1, TrainingAssumption
  <2>3. e + 1 \in 1..Config[job.cfg].epochs
    BY <2>1, <2>2
  <2> QED BY <2>1, <2>3, TrainingAssumption
<1>3. OnlyAdds(d, [n |-> job.n, v |-> w])
  BY <1>2, NothingAdds, PutAdds
<1>4. OnlyAdds(dir', [n |-> job.n, v |-> w])
  BY <1>1, <1>3, PutAdds
<1> QED BY <1>1, <1>4, CheckpointsHonest

LEMMA DiffusionHonest ==
    ASSUME TrainInv, Honest(dir), TrainDiffusion
    PROVE  Honest(dir)'
PROOF
<1> DEFINE w == Weights(job.epoch, FALSE)
           d(lower) == IF lower THEN Put("weights", w, dir) ELSE dir
<1>1. job.phase = "fit" /\ Version(job.cfg) = "diffusion"
  BY Zenon DEF TrainDiffusion, Fitting
<1>2. PICK lower \in BOOLEAN : dir' = Put("last", w, d(lower))
  BY Zenon DEF TrainDiffusion
<1>3. OnlyAdds(d(lower), [n |-> job.n, v |-> w])
  BY NothingAdds, PutAdds
<1>4. OnlyAdds(dir', [n |-> job.n, v |-> w])
  BY <1>2, <1>3, PutAdds
<1> QED BY <1>1, <1>4, CheckpointsHonest

LEMMA FinalizeHonest ==
    ASSUME TrainInv, Honest(dir), Finalize
    PROVE  Honest(dir)'
PROOF
<1> DEFINE w == Weights(job.epoch - 1, TRUE)
<1>1. job.phase = "finalize" /\ dir' = Put("weights", w, dir)
  BY DEF Finalize
<1>2. Version(job.cfg) = "diffusion"
  BY <1>1 DEF TrainInv, FitInv
<1>3. OnlyAdds(dir', [n |-> job.n, v |-> w])
  BY <1>1, NothingAdds, PutAdds
<1> QED BY <1>1, <1>2, <1>3, CheckpointsHonest

LEMMA ArtifactSays ==
    ASSUME NEW j, j.cfg \in Configs, NEW f \in Told
    PROVE  Artifact(f, j) = Said(f, j.cfg)
PROOF
<1> DEFINE K == KeepCells(Loaded[j.cfg], TrainCells(j))
<1>1. K.kpis = Loaded[j.cfg].kpis /\ K.cats = Loaded[j.cfg].cats
  BY DEF Loaded, LoadTrainingWindows, KeepCells
<1>2. CASE f = "kpi_columns"
  BY <1>1, <1>2 DEF Artifact, Said
<1>3. CASE f = "config_encoder"
  BY <1>1, <1>3 DEF Artifact, Said
<1>4. CASE f = "arch_params"
  <2>1. ArchParams(j) = ArchParams([cfg |-> j.cfg])
    BY DEF ArchParams
  <2> QED BY <1>4, <2>1 DEF Artifact, Said
<1> QED BY <1>2, <1>3, <1>4 DEF Told

LEMMA SaveHonest ==
    ASSUME TrainInv, Honest(dir), SaveNext
    PROVE  Honest(dir)'
PROOF
<1> DEFINE file == SaveOrder(job)[job.saved + 1]
           v    == Artifact(file, job)
<1>1. job.phase = "save" /\ dir' = Put(file, v, dir)
  BY DEF SaveNext
<1>2. file \notin {"weights", "last"}
  BY <1>1, SavedFile
<1>3. job.cfg \in Configs /\ Busy
  BY <1>1 DEF TrainInv, JobInv, Busy
<1>4. file \in Told => v = Said(file, job.cfg)
  BY <1>3, ArtifactSays
<1> HIDE DEF file, v
<1>5. /\ DOMAIN dir' = {file} \cup DOMAIN dir
      /\ dir'[file] = [n |-> job.n, v |-> v]
      /\ \A f \in DOMAIN dir : f # file => dir'[f] = dir[f]
  BY <1>1 DEF Put, With
<1>6. "weights" \in DOMAIN dir' => "weights" \in DOMAIN dir /\ dir'["weights"] = dir["weights"]
  BY <1>2, <1>5
<1>7. WeightsInv(dir)'
  BY <1>6 DEF Honest, WeightsInv
<1>8. SaidInv(dir)'
  <2> SUFFICES ASSUME "weights" \in DOMAIN dir', NEW f \in Told, f \in DOMAIN dir',
                      dir'[f].n = dir'["weights"].n
               PROVE  dir'[f].v = Said(f, dir'["weights"].v.cfg)
    BY DEF SaidInv
  <2>1. CASE f = file
    <3>1. dir'[f].n = job.n /\ dir'[f].v = Said(f, job.cfg)
      BY <1>4, <1>5, <2>1
    <3>2. dir["weights"].v.cfg = job.cfg
      BY <1>3, <1>6, <3>1 DEF TrainInv, OwnInv, WrittenBy
    <3> QED BY <1>6, <3>1, <3>2
  <2>2. CASE f # file
    BY <1>5, <1>6, <2>2 DEF Honest, SaidInv
  <2> QED BY <2>1, <2>2
<1> QED BY <1>7, <1>8 DEF Honest

LEMMA TrainingHonest ==
    ASSUME TrainInv, Honest(dir), TrainingNext
    PROVE  Honest(dir)'
PROOF
<1>1. ASSUME dir' = dir PROVE Honest(dir)'
  BY <1>1 DEF Honest, WeightsInv, SaidInv
<1>2. ASSUME NEW c \in Configs, Start(c) PROVE Honest(dir)'
  BY <1>1, <1>2 DEF Start
<1>3. CASE TrainVAE
  BY <1>3, VAEHonest
<1>4. CASE TrainGAN
  BY <1>4, GANHonest
<1>5. CASE TrainDiffusion
  BY <1>5, DiffusionHonest
<1>6. CASE Finalize
  BY <1>6, FinalizeHonest
<1>7. CASE SaveNext
  BY <1>7, SaveHonest
<1>8. CASE Die
  BY <1>1, <1>8 DEF Die
<1> QED BY <1>2, <1>3, <1>4, <1>5, <1>6, <1>7, <1>8 DEF TrainingNext

GenHonest == Honest(bucket) /\ FetchedInv /\ ConfInv /\ StoredInv

LEMMA FewerHonest ==
    ASSUME NEW A, NEW B, Honest(A), \A f \in DOMAIN B : f \in DOMAIN A /\ B[f] = A[f]
    PROVE  Honest(B)
PROOF
<1>1. WeightsInv(B)
  BY DEF Honest, WeightsInv
<1>2. SaidInv(B)
  BY DEF Honest, SaidInv
<1> QED BY <1>1, <1>2 DEF Honest

LEMMA AgainHonest ==
    ASSUME RunShape, GenHonest, gen.phase # "none", UNCHANGED <<bucket, out>>,
           NEW task \in {"conf", "submitted", "similarity"}, NEW c, Again(task, c),
           task = "submitted" => gen.phase \in {"submitted", "cells"}
    PROVE  GenHonest'
PROOF
<1>1. /\ gen'.phase \in {task, "failed"} /\ gen'.conf = gen.conf
      /\ gen'.files = gen.files /\ gen'.labels = gen.labels /\ gen'.filter = gen.filter
      /\ gen'.done = gen.done
  BY AgainOf
<1>2. Honest(bucket)'
  BY DEF GenHonest, Honest, WeightsInv, SaidInv
<1>3. FetchedInv'
  BY <1>1 DEF GenHonest, FetchedInv
<1>4. ConfInv'
  BY <1>1 DEF GenHonest, ConfInv
<1>5. StoredInv'
  BY <1>1 DEF GenHonest, StoredInv
<1> QED BY <1>2, <1>3, <1>4, <1>5 DEF GenHonest

\* A step of a run that leaves alone what it has read and made.
LEMMA PassesOn ==
    ASSUME RunShape, NEW p, NEW a, gen' = [gen EXCEPT !.phase = p, !.attempt = a]
    PROVE  /\ gen'.phase = p /\ gen'.conf = gen.conf
           /\ gen'.files = gen.files /\ gen'.labels = gen.labels /\ gen'.filter = gen.filter
           /\ gen'.done = gen.done
PROOF
<1> DEFINE R(x, y) == [conf |-> gen.conf, entry |-> gen.entry, phase |-> x, attempt |-> y,
                       cause |-> gen.cause, files |-> gen.files, labels |-> gen.labels,
                       filter |-> gen.filter, todo |-> gen.todo, done |-> gen.done]
<1>1. [gen EXCEPT !.phase = p] = R(p, gen.attempt)
  BY DEF RunShape
<1>2. [R(p, gen.attempt) EXCEPT !.attempt = a] = R(p, a)
  OBVIOUS
<1> HIDE DEF R
<1>3. gen' = R(p, a)
  BY <1>1, <1>2
<1> QED BY <1>3 DEF R

LEMMA PublishHonest ==
    ASSUME GenHonest, Honest(dir), Publish
    PROVE  GenHonest'
PROOF
<1>1. PICK extra \in SUBSET (Optional \cap DOMAIN dir) :
         bucket' = [f \in Mandatory \cup extra |-> dir[f]]
  BY DEF Publish
<1>2. bucket = <<>> /\ Mandatory \subseteq DOMAIN dir /\ UNCHANGED <<gen, out>>
  BY DEF Publish
<1>3. DOMAIN bucket' = Mandatory \cup extra
      /\ \A f \in DOMAIN bucket' : f \in DOMAIN dir /\ bucket'[f] = dir[f]
  BY <1>1, <1>2
<1>4. Honest(bucket)'
  <2> DEFINE B == bucket'
  <2>1. \A f \in DOMAIN B : f \in DOMAIN dir /\ B[f] = dir[f]
    BY <1>3
  <2> HIDE DEF B
  <2>2. Honest(B)
    BY <2>1, FewerHonest
  <2> QED BY <2>2 DEF B, Honest, WeightsInv, SaidInv
<1>5. DOMAIN bucket = {} /\ DOMAIN gen.files = {}
  BY <1>2 DEF GenHonest, FetchedInv
<1>6. FetchedInv'
  BY <1>2, <1>3, <1>5 DEF GenHonest, FetchedInv
<1>7. ConfInv' /\ StoredInv'
  BY <1>2 DEF GenHonest, ConfInv, StoredInv
<1> QED BY <1>4, <1>6, <1>7 DEF GenHonest

LEMMA LaunchHonest ==
    ASSUME GenInv, GenHonest, NEW conf \in Confs, NEW entry, Launch(conf, entry)
    PROVE  GenHonest'
PROOF
<1>1. /\ gen = NoRun /\ UNCHANGED <<bucket, out>>
      /\ gen' = [conf |-> conf, entry |-> entry, phase |-> "conf", attempt |-> 1, cause |-> None,
                 files |-> <<>>, labels |-> <<>>, filter |-> <<>>, todo |-> {}, done |-> {}]
  BY DEF Launch
<1>2. gen'.phase = "conf" /\ gen'.conf = conf /\ DOMAIN gen'.files = {} /\ gen'.done = {}
  BY <1>1
<1>3. DOMAIN out = {}
  BY <1>1 DEF GenInv, StoreInv, NoRun
<1>4. Honest(bucket)'
  BY <1>1 DEF GenHonest, Honest, WeightsInv, SaidInv
<1>5. FetchedInv'
  BY <1>1, <1>2, <1>3 DEF GenHonest, FetchedInv
<1>6. ConfInv' /\ StoredInv'
  BY <1>1, <1>2, <1>3 DEF ConfInv, StoredInv
<1> QED BY <1>4, <1>5, <1>6 DEF GenHonest

LEMMA PrepareHonest ==
    ASSUME GenInv, GenHonest, PrepareConf
    PROVE  GenHonest'
PROOF
<1>1. gen.phase = "conf" /\ UNCHANGED <<bucket, out>> /\ RunShape
  BY Zenon DEF PrepareConf, Running, GenInv
<1>2. CASE Again("conf", "conf")
  BY <1>1, <1>2, AgainHonest
<1>3. CASE gen.conf.anchor_date # None /\ gen' = [gen EXCEPT !.phase = "submitted", !.attempt = 1]
  <2>1. /\ gen'.phase = "submitted" /\ gen'.conf = gen.conf
        /\ gen'.files = gen.files /\ gen'.labels = gen.labels /\ gen'.filter = gen.filter
        /\ gen'.done = gen.done
    BY <1>1, <1>3, PassesOn
  <2>2. Honest(bucket)'
    BY <1>1 DEF GenHonest, Honest, WeightsInv, SaidInv
  <2>3. FetchedInv' /\ ConfInv' /\ StoredInv'
    BY <1>1, <1>3, <2>1 DEF GenHonest, FetchedInv, ConfInv, StoredInv
  <2> QED BY <2>2, <2>3 DEF GenHonest
<1> QED BY <1>2, <1>3 DEF PrepareConf

LEMMA FetchHonest ==
    ASSUME GenInv, GenHonest, Fetch
    PROVE  GenHonest'
PROOF
<1>1. gen.phase = "submitted" /\ UNCHANGED <<bucket, out>> /\ RunShape
  BY Zenon DEF Fetch, Running, GenInv
<1> DEFINE files(lost) == [f \in DOMAIN bucket \ lost |-> bucket[f]]
           named(lost) == "kpi_columns" \in DOMAIN files(lost)
           wish        == gen.conf.kpi_list
           labels(lost) == IF named(lost) THEN files(lost)["kpi_columns"].v ELSE wish
           filter(lost) == IF named(lost) THEN wish ELSE <<>>
           todo(lost)   == Targets(gen.conf, files(lost)["cell_config_map"].v.map)
<1>2. PICK lost \in SUBSET (Optional \cap DOMAIN bucket) :
         IF (named(lost) \/ wish # <<>>) /\ Loads(files(lost))
         THEN gen' = [gen EXCEPT !.phase = "cells", !.files = files(lost), !.done = {},
                                 !.labels = labels(lost), !.filter = filter(lost),
                                 !.todo = todo(lost)]
         ELSE Again("submitted", "files")
  BY Zenon DEF Fetch
<1>3. CASE Again("submitted", "files")
  BY <1>1, <1>3, AgainHonest
<1>4. CASE gen' = [gen EXCEPT !.phase = "cells", !.files = files(lost), !.done = {},
                              !.labels = labels(lost), !.filter = filter(lost),
                              !.todo = todo(lost)]
  <2> DEFINE F == files(lost)
             L == labels(lost)
             S == filter(lost)
             T == todo(lost)
  <2>1. Mandatory \subseteq DOMAIN bucket /\ Mandatory \cap lost = {}
    <3>1. bucket # <<>>
      BY <1>1 DEF GenInv, StoreInv
    <3> QED BY <3>1 DEF GenHonest, FetchedInv, Mandatory, Optional
  <2>2. /\ Mandatory \subseteq DOMAIN F
        /\ \A f \in DOMAIN F : f \in DOMAIN bucket /\ F[f] = bucket[f]
    BY <2>1
  <2>3. "kpi_columns" \in DOMAIN F => L = F["kpi_columns"].v /\ S = gen.conf.kpi_list
    OBVIOUS
  <2>4. gen' = [gen EXCEPT !.phase = "cells", !.files = F, !.done = {}, !.labels = L,
                           !.filter = S, !.todo = T]
    BY <1>4
  <2> HIDE DEF F, L, S, T
  <2>5. gen' = [conf |-> gen.conf, entry |-> gen.entry, phase |-> "cells",
                attempt |-> gen.attempt, cause |-> gen.cause, files |-> F, labels |-> L,
                filter |-> S, todo |-> T, done |-> {}]
    <3>1. Reads(F, L, S, T)
      BY <2>4, Zenon DEF Reads
    <3> QED BY <1>1, <3>1, Fetched
  <2>6. /\ gen'.phase = "cells" /\ gen'.conf = gen.conf /\ gen'.files = F
        /\ gen'.labels = L /\ gen'.filter = S /\ gen'.done = {}
    BY <2>5
  <2>7. Honest(bucket)'
    BY <1>1 DEF GenHonest, Honest, WeightsInv, SaidInv
  <2>8. FetchedInv'
    BY <1>1, <2>2, <2>3, <2>6 DEF GenHonest, FetchedInv
  <2>9. ConfInv' /\ StoredInv'
    BY <1>1, <2>6 DEF GenHonest, ConfInv, StoredInv
  <2> QED BY <2>7, <2>8, <2>9 DEF GenHonest
<1> QED BY <1>2, <1>3, <1>4

LEMMA CellHonest ==
    ASSUME GenInv, GenHonest, GenerateCell
    PROVE  GenHonest'
PROOF
<1> DEFINE c == CHOOSE x \in gen.todo : TRUE
           w == GenerateWindows(gen.conf, gen.files, gen.labels, gen.filter, c)
           d == Listed(w)
           key == ObjectName[c]
<1>1. gen.phase = "cells" /\ gen.todo # {} /\ bucket' = bucket /\ RunShape
  BY Zenon DEF GenerateCell, Running, GenInv
<1>2. IF CanGenerate(c)
      THEN out' = With(out, key, w) /\ gen' = [gen EXCEPT !.todo = @ \ {c}, !.done = @ \cup {d}]
      ELSE Again("submitted", "cell") /\ UNCHANGED out
  BY Zenon DEF GenerateCell
<1>3. w.columns = Columned(gen.labels, Loaded[gen.files["weights"].v.cfg].kpis, gen.filter)
      /\ (w.calendar = <<>> \/ w.calendar = BuildCalendarFeatures(Anchors(gen.conf), "US"))
  BY DEF GenerateWindows
<1>4. CanGenerate(c) => key # "metadata"
  BY <1>1 DEF CanGenerate, GenInv, LoopInv, StoreInv, Running
<1>5. d.key = key
  BY DEF GenerateWindows, Listed
<1>6. gen.conf.anchor_date \in Int /\ gen.conf.n_weeks \in Nat
  BY <1>1, GenerationAssumption DEF GenHonest, ConfInv
<1>7. Honest(bucket)'
  BY <1>1 DEF GenHonest, Honest, WeightsInv, SaidInv
<1> HIDE DEF c, w, d, key
<1>8. CASE ~CanGenerate(c)
  BY <1>1, <1>2, <1>8, AgainHonest
<1>9. CASE CanGenerate(c)
  <2> DEFINE R(t, s) == [conf |-> gen.conf, entry |-> gen.entry, phase |-> gen.phase,
                         attempt |-> gen.attempt, cause |-> gen.cause, files |-> gen.files,
                         labels |-> gen.labels, filter |-> gen.filter, todo |-> t, done |-> s]
             T == gen.todo \ {c}
             S == gen.done \cup {d}
  <2>1. gen' = [gen EXCEPT !.todo = T, !.done = S] /\ out' = With(out, key, w)
    BY <1>2, <1>9
  <2> HIDE DEF T, S
  <2>2. [gen EXCEPT !.todo = T] = R(T, gen.done)
    BY <1>1 DEF RunShape
  <2>3. [R(T, gen.done) EXCEPT !.done = S] = R(T, S)
    OBVIOUS
  <2> HIDE DEF R
  <2>4. gen' = R(T, S)
    BY <2>1, <2>2, <2>3
  <2>5. /\ gen'.phase = "cells" /\ gen'.conf = gen.conf /\ gen'.files = gen.files
        /\ gen'.labels = gen.labels /\ gen'.filter = gen.filter /\ gen'.done = S
    BY <1>1, <2>4 DEF R
  <2>6. /\ DOMAIN out' = DOMAIN out \cup {key} /\ out'[key] = w
        /\ \A g \in DOMAIN out : g # key => out'[g] = out[g]
    BY <2>1 DEF With
  <2>7. FetchedInv'
    BY <1>1, <2>5 DEF GenHonest, FetchedInv
  <2>8. ConfInv'
    BY <2>5, <1>1 DEF GenHonest, ConfInv
  <2>9. StoredInv'
    <3> DEFINE Cols == Columned(gen.labels, Loaded[gen.files["weights"].v.cfg].kpis, gen.filter)
               Cal  == BuildCalendarFeatures(Anchors(gen.conf), "US")
    <3>1. /\ \A o \in gen.done : o.key \in DOMAIN out \ {"metadata"} /\ out[o.key].columns = Cols
          /\ \A x \in DOMAIN out \ {"metadata"} : out[x].calendar = <<>> \/ out[x].calendar = Cal
      BY DEF GenHonest, StoredInv
    <3>2. w.columns = Cols /\ (w.calendar = <<>> \/ w.calendar = Cal) /\ key # "metadata"
      BY <1>3, <1>4, <1>9
    <3>3. Cols' = Cols /\ Cal' = Cal
      BY <2>5 DEF Columned, Anchors
    <3> HIDE DEF Cols, Cal
    <3>5. \A o \in S : o.key \in DOMAIN out' \ {"metadata"} /\ out'[o.key].columns = Cols
      <4> TAKE o \in S
      <4>1. CASE o.key = key
        BY <2>6, <3>2, <4>1
      <4>2. CASE o.key # key
        BY <1>5, <2>6, <3>1, <4>2 DEF S
      <4> QED BY <4>1, <4>2
    <3>6. \A x \in DOMAIN out' \ {"metadata"} : out'[x].calendar = <<>> \/ out'[x].calendar = Cal
      BY <2>6, <3>1, <3>2
    <3>7. gen'.conf.anchor_date \in Int /\ gen'.conf.n_weeks \in Nat
      BY <1>6, <2>5
    <3> QED BY <2>5, <3>3, <3>5, <3>6, <3>7 DEF StoredInv, Cols, Cal
  <2> QED BY <1>7, <2>7, <2>8, <2>9 DEF GenHonest
<1> QED BY <1>8, <1>9

LEMMA MetadataHonest ==
    ASSUME GenInv, GenHonest, WriteMetadata
    PROVE  GenHonest'
PROOF
<1>1. /\ gen.phase = "cells" /\ bucket' = bucket /\ out' = With(out, "metadata", gen.done)
      /\ gen' = [gen EXCEPT !.phase = "similarity", !.attempt = 1] /\ RunShape
  BY Zenon DEF WriteMetadata, Running, GenInv
<1>2. /\ gen'.phase = "similarity" /\ gen'.conf = gen.conf
      /\ gen'.files = gen.files /\ gen'.labels = gen.labels /\ gen'.filter = gen.filter
      /\ gen'.done = gen.done
  BY <1>1, PassesOn
<1>3. /\ DOMAIN out' = DOMAIN out \cup {"metadata"}
      /\ \A g \in DOMAIN out \ {"metadata"} : out'[g] = out[g]
  BY <1>1 DEF With
<1>4. Honest(bucket)'
  BY <1>1 DEF GenHonest, Honest, WeightsInv, SaidInv
<1>5. FetchedInv'
  BY <1>1, <1>2, <1>3 DEF GenHonest, FetchedInv
<1>6. ConfInv'
  BY <1>1, <1>2 DEF GenHonest, ConfInv
<1>7. StoredInv'
  <2>1. \A o \in gen.done : o.key \in DOMAIN out' \ {"metadata"}
                            /\ out'[o.key].columns = out[o.key].columns
    BY <1>3 DEF GenHonest, StoredInv
  <2>2. DOMAIN out' \ {"metadata"} = DOMAIN out \ {"metadata"}
    BY <1>3
  <2> QED BY <1>2, <1>3, <2>1, <2>2 DEF GenHonest, StoredInv
<1> QED BY <1>4, <1>5, <1>6, <1>7 DEF GenHonest

LEMMA SimilarityHonest ==
    ASSUME GenInv, GenHonest, RunDataSimilarity \/ SimilarityFails
    PROVE  GenHonest'
PROOF
<1>1. CASE SimilarityFails
  <2>1. gen.phase = "similarity" /\ UNCHANGED <<bucket, out>> /\ Again("similarity", "similarity")
        /\ RunShape
    BY <1>1 DEF SimilarityFails, Running, GenInv
  <2> QED BY <2>1, AgainHonest
<1>2. CASE RunDataSimilarity
  <2>1. /\ gen.phase = "similarity" /\ UNCHANGED <<bucket, out>>
        /\ gen' = [gen EXCEPT !.phase = "done"] /\ RunShape
    BY <1>2, Zenon DEF RunDataSimilarity, Running, GenInv
  <2>2. /\ gen'.phase = "done" /\ gen'.conf = gen.conf
        /\ gen'.files = gen.files /\ gen'.labels = gen.labels /\ gen'.filter = gen.filter
        /\ gen'.done = gen.done
    BY <2>1 DEF RunShape
  <2>3. Honest(bucket)'
    BY <2>1 DEF GenHonest, Honest, WeightsInv, SaidInv
  <2>4. FetchedInv' /\ ConfInv' /\ StoredInv'
    BY <2>1, <2>2 DEF GenHonest, FetchedInv, ConfInv, StoredInv
  <2> QED BY <2>3, <2>4 DEF GenHonest
<1> QED BY <1>1, <1>2

LEMMA GenerationHonest ==
    ASSUME GenInv, GenHonest, Honest(dir), GenerationNext
    PROVE  GenHonest'
PROOF
<1>1. CASE Publish
  BY <1>1, PublishHonest
<1>2. ASSUME NEW conf \in Confs, NEW entry, Launch(conf, entry) PROVE GenHonest'
  BY <1>2, LaunchHonest
<1>3. CASE PrepareConf
  BY <1>3, PrepareHonest
<1>4. CASE Main
  <2>1. gen.phase = "submitted" /\ UNCHANGED <<bucket, out>> /\ Again("submitted", "flags")
        /\ RunShape
    BY <1>4 DEF Main, Running, GenInv
  <2> QED BY <2>1, AgainHonest
<1>5. CASE Fetch
  BY <1>5, FetchHonest
<1>6. CASE GenerateCell
  BY <1>6, CellHonest
<1>7. CASE WriteMetadata
  BY <1>7, MetadataHonest
<1>8. CASE TaskDies
  <2>1. /\ gen.phase \in {"submitted", "cells"} /\ UNCHANGED <<bucket, out>>
        /\ Again("submitted", "died") /\ RunShape
    BY <1>8 DEF TaskDies, Running, GenInv
  <2> QED BY <2>1, AgainHonest
<1> QED BY <1>1, <1>2, <1>3, <1>4, <1>5, <1>6, <1>7, <1>8 DEF GenerationNext

LEMMA HonestKeeps == IInv /\ HonestInv /\ [Next]_vars => HonestInv'
PROOF
<1> SUFFICES ASSUME IInv, HonestInv, [Next]_vars PROVE HonestInv'
  OBVIOUS
<1>1. TrainInv /\ GenInv /\ Honest(dir) /\ GenHonest
  BY DEF IInv, HonestInv, GenHonest
<1>2. GenHonest' /\ Honest(dir)' => HonestInv'
  BY DEF HonestInv, GenHonest
<1>3. dir' = dir => Honest(dir)'
  BY <1>1 DEF Honest, WeightsInv, SaidInv
<1>4. UNCHANGED generationVars => GenHonest'
  BY <1>1 DEF generationVars, GenHonest, Honest, WeightsInv, SaidInv, FetchedInv, ConfInv, StoredInv
<1>5. CASE TrainingNext /\ UNCHANGED generationVars
  BY <1>1, <1>2, <1>4, <1>5, TrainingHonest
<1>6. CASE GenerationNext /\ UNCHANGED trainingVars
  BY <1>1, <1>2, <1>3, <1>6, GenerationHonest DEF trainingVars
<1>7. CASE (RunDataSimilarity \/ SimilarityFails) /\ UNCHANGED trainingVars
  BY <1>1, <1>2, <1>3, <1>7, SimilarityHonest DEF trainingVars
<1>8. CASE UNCHANGED vars
  BY <1>2, <1>3, <1>4, <1>8 DEF vars, trainingVars
<1> QED BY <1>5, <1>6, <1>7, <1>8 DEF Next

\* In every state: what stands beside the weights of a training, in the run directory,
\* the bucket or the task, is about the network they are of; what is stored is labelled
\* and dated as the task was told.
THEOREM HonestAlways == Spec => []HonestInv
PROOF
<1>1. Init => HonestInv
  BY InitHonest DEF Init
<1>2. IInv /\ HonestInv /\ [Next]_vars => HonestInv'
  BY HonestKeeps
<1> QED BY <1>1, <1>2, Inductive, PTL DEF Spec

-----------------------------------------------------------------------------
(* When the best weights of a VAE are kept.                               *)

\* The first ramp of a cyclical schedule ends within its cycle, or no cycle follows it.
RampEnds(kl) ==
    kl.cyclical => RampLen(kl) < kl.cycle \/ RampLen(kl) >= kl.cycle * kl.cycles

\* MonitorStart is an annealed epoch just where the first ramp ends, and then so is every
\* later one.
LEMMA RampIsOver ==
    ASSUME NEW kl \in KlSchedules, kl.delay > 0
    PROVE  /\ MonitorStart(kl) \in Nat
           /\ Annealed(kl, MonitorStart(kl)) <=> RampEnds(kl)
           /\ RampEnds(kl) => \A e \in Nat : e >= MonitorStart(kl) => Annealed(kl, e)
PROOF
<1> DEFINE D == kl.delay
           C == kl.cycle
           R == kl.ratio
           N == kl.cycles
           L == (C * R + 99) \div 100
<1>1. /\ kl.cyclical \in BOOLEAN /\ D \in Nat /\ C \in Nat \ {0} /\ R \in Nat /\ N \in Nat
      /\ kl.anneal \in Nat \ {0} /\ D > 0
  BY DEF KlSchedules
<1>2. CASE ~kl.cyclical
  <2>1. RampEnds(kl) /\ MonitorStart(kl) = D + kl.anneal
    BY <1>1, <1>2 DEF RampEnds, MonitorStart, RampLen
  <2>2. \A e \in Nat : e >= D + kl.anneal => AtTarget(kl, e)
    BY <1>1, <1>2 DEF AtTarget
  <2> QED BY <1>1, <2>1, <2>2 DEF Annealed
<1>3. CASE kl.cyclical
  <2>1. C * R \in Nat /\ R * C = C * R /\ C * N \in Nat
    BY <1>1
  <2>2. L \in Nat /\ \A x \in Nat : x * 100 >= C * R <=> x >= L
    BY <2>1
  <2>3. \A x \in Nat : x % C \in 0..(C - 1) /\ x % C <= x /\ (x < C => x % C = x)
    BY <1>1, SMTT(30)
  <2>4. MonitorStart(kl) = D + L
    BY <1>1, <1>3, <2>2 DEF MonitorStart, RampLen
  <2>5. \A x \in Nat : AtTarget(kl, D + x) <=> x >= C * N \/ x % C >= L
    <3> TAKE x \in Nat
    <3>1. (D + x) - D = x /\ x >= 0 /\ D + x \in Nat
      BY <1>1
    <3>2. x % C \in Nat
      BY <1>1, <2>3
    <3>3. (x % C) * 100 >= R * C <=> x % C >= L
      BY <2>1, <2>2, <3>2
    <3> QED BY <1>3, <3>1, <3>3 DEF AtTarget
  <2>6. RampEnds(kl) <=> (L < C \/ L >= C * N)
    BY <1>3 DEF RampEnds, RampLen
  <2>7. \A x \in Nat : Annealed(kl, D + x) <=>
           \/ x >= C * N \/ x % C >= L
           \/ x >= C /\ \E y \in 0..(C - 1) : y >= C * N \/ y >= L
    <3> TAKE x \in Nat
    <3>1. \A e \in D..(D + C - 1) : e - D \in 0..(C - 1) /\ D + (e - D) = e
      BY <1>1
    <3>2. \A y \in 0..(C - 1) : D + y \in D..(D + C - 1) /\ y \in Nat /\ y % C = y
      BY <1>1, <2>3
    <3>3. (\E e \in D..(D + C - 1) : AtTarget(kl, e)) <=>
             \E y \in 0..(C - 1) : y >= C * N \/ y >= L
      BY <2>5, <3>1, <3>2
    <3>4. (D + x) - D = x
      BY <1>1
    <3> QED BY <1>3, <2>5, <3>3, <3>4 DEF Annealed
  <2> HIDE DEF L
  <2>8. Annealed(kl, D + L) => L < C \/ L >= C * N
    <3> SUFFICES ASSUME Annealed(kl, D + L), L >= C, L < C * N PROVE FALSE
      BY <1>1, <2>1, <2>2
    <3>1. \A y \in 0..(C - 1) : ~(y >= L) /\ ~(y >= C * N)
      BY <1>1, <2>1, <2>2
    <3>2. L % C \in 0..(C - 1)
      BY <2>2, <2>3
    <3> QED BY <1>1, <2>1, <2>2, <2>7, <3>1, <3>2
  <2>9. ASSUME L < C \/ L >= C * N, NEW x \in Nat, x >= L PROVE Annealed(kl, D + x)
    <3>1. CASE L >= C * N
      <4>1. x >= C * N
        BY <2>1, <2>2, <2>9, <3>1
      <4> QED BY <2>7, <4>1
    <3>2. CASE L < C /\ x < C
      BY <2>3, <2>7, <2>9, <3>2
    <3>3. CASE L < C /\ x >= C
      <4>1. L \in 0..(C - 1) /\ L >= L
        BY <1>1, <2>2, <3>3
      <4> QED BY <2>7, <3>3, <4>1
    <3> QED BY <1>1, <2>2, <2>9, <3>1, <3>2, <3>3
  <2>10. ASSUME L < C \/ L >= C * N, NEW e \in Nat, e >= D + L PROVE Annealed(kl, e)
    <3>1. e - D \in Nat /\ e - D >= L /\ D + (e - D) = e
      BY <1>1, <2>2, <2>10
    <3> QED BY <2>9, <2>10, <3>1
  <2>11. D + L \in Nat /\ D + L >= D + L
    BY <1>1, <2>2
  <2> QED BY <2>4, <2>6, <2>8, <2>10, <2>11
<1> QED BY <1>1, <1>2, <1>3

\* train_cvae: where the first ramp of every delayed training ends, the weights kept as
\* the best are of an epoch whose own beta was at its target, or of a later cycle's ramp.
\* RampIsOver tells that the condition is exact.
THEOREM BestHolds ==
    ASSUME \A c \in Configs :
              Version(c) \in {"v6", "v7"} /\ Config[c].kl.delay > 0 => RampEnds(Config[c].kl)
    PROVE  Spec => []BestIsAnnealed
PROOF
<1>1. HonestInv => BestIsAnnealed
  <2> SUFFICES ASSUME HonestInv, "weights" \in DOMAIN dir,
                      Version(dir["weights"].v.cfg) \in {"v6", "v7"},
                      Config[dir["weights"].v.cfg].kl.delay > 0
               PROVE  Annealed(Config[dir["weights"].v.cfg].kl, dir["weights"].v.epoch)
    BY DEF BestIsAnnealed
  <2> DEFINE w == dir["weights"].v
             kl == Config[w.cfg].kl
  <2>1. w.cfg \in Configs /\ w.epoch \in Nat /\ w.epoch >= MonitorStart(kl)
    BY DEF HonestInv, Honest, WeightsInv
  <2>2. kl \in KlSchedules /\ RampEnds(kl) /\ kl.delay > 0
    BY <2>1, TrainingAssumption
  <2> HIDE DEF kl
  <2>3. Annealed(kl, w.epoch)
    BY <2>1, <2>2, RampIsOver
  <2> QED BY <2>3 DEF kl
<1> QED BY <1>1, HonestAlways, PTL

-----------------------------------------------------------------------------
(* What rebuilding a network reads.                                        *)

\* The state space of the weights: what the layers are built from.
LEMMA StacksRead ==
    ASSUME NEW p, NEW q, p.n_layers = q.n_layers, p.hidden_dim = q.hidden_dim
    PROVE  /\ Funnel(p) = Funnel(q) /\ Narrowest(p) = Narrowest(q)
           /\ \A name, in, twice : Recurrent(name, p, in, twice) = Recurrent(name, q, in, twice)
           /\ \A latent : InitialState(p, latent) = InitialState(q, latent)
PROOF
<1>1. Funnel(p) = Funnel(q)
  BY DEF Funnel
<1>2. Narrowest(p) = Narrowest(q)
  BY <1>1 DEF Narrowest
<1>3. \A name, in, twice : Recurrent(name, p, in, twice) = Recurrent(name, q, in, twice)
  BY <1>1 DEF Recurrent
<1>4. \A latent : InitialState(p, latent) = InitialState(q, latent)
  BY <1>1 DEF InitialState
<1> QED BY <1>1, <1>2, <1>3, <1>4

LEMMA AttentionReads ==
    ASSUME NEW p, NEW q, Narrowest(p) = Narrowest(q), p.use_attention = q.use_attention,
           p.n_heads = q.n_heads
    PROVE  Attention(p) = Attention(q)
PROOF BY DEF Attention

Agree(p, q, version) == \A f \in SavedParams(version) : p[f] = q[f]

LEMMA VAEReads ==
    ASSUME NEW p, NEW q, Agree(p, q, "v6"), NEW d, NEW tile
    PROVE  BuildV6(p, d, tile) = BuildV6(q, d, tile) /\ BuildV7(p, d, tile) = BuildV7(q, d, tile)
PROOF
<1>1. /\ p.global_latent_dim = q.global_latent_dim /\ p.local_latent_dim = q.local_latent_dim
      /\ p.hidden_dim = q.hidden_dim /\ p.n_layers = q.n_layers
      /\ p.use_attention = q.use_attention /\ p.n_heads = q.n_heads
      /\ p.output_activation = q.output_activation
  BY DEF Agree, SavedParams
<1>2. /\ Narrowest(p) = Narrowest(q)
      /\ \A name, in, twice : Recurrent(name, p, in, twice) = Recurrent(name, q, in, twice)
      /\ \A latent : InitialState(p, latent) = InitialState(q, latent)
  BY <1>1, StacksRead
<1>3. Attention(p) = Attention(q)
  BY <1>1, <1>2, AttentionReads
<1>4. EncoderV6(p, d) = EncoderV6(q, d)
  BY <1>1, <1>2, <1>3 DEF EncoderV6
<1>5. DecoderV6(p, d, tile) = DecoderV6(q, d, tile)
  BY <1>1, <1>2 DEF DecoderV6
<1>6. DecoderV7(p, d, tile) = DecoderV7(q, d, tile)
  BY <1>1, <1>2 DEF DecoderV7
<1> QED BY <1>1, <1>4, <1>5, <1>6 DEF BuildV6, BuildV7, EncoderV7

LEMMA GANReads ==
    ASSUME NEW p, NEW q, Agree(p, q, "gan"), NEW d
    PROVE  BuildGAN(p, d) = BuildGAN(q, d)
PROOF
<1>1. /\ p.latent_dim = q.latent_dim /\ p.hidden_dim = q.hidden_dim /\ p.n_layers = q.n_layers
      /\ p.use_attention = q.use_attention /\ p.n_heads = q.n_heads
      /\ p.gen_use_pe = q.gen_use_pe /\ p.critic_use_pe = q.critic_use_pe
      /\ p.kpi_proj_activation = q.kpi_proj_activation
      /\ p.per_step_noise_dim = q.per_step_noise_dim
      /\ p.use_minibatch_stddev = q.use_minibatch_stddev
      /\ p.use_first_diff = q.use_first_diff /\ p.output_activation = q.output_activation
  BY DEF Agree, SavedParams
<1>2. /\ Narrowest(p) = Narrowest(q)
      /\ \A name, in, twice : Recurrent(name, p, in, twice) = Recurrent(name, q, in, twice)
      /\ \A latent : InitialState(p, latent) = InitialState(q, latent)
  BY <1>1, StacksRead
<1>3. Attention(p) = Attention(q)
  BY <1>1, <1>2, AttentionReads
<1>4. GeneratorNet(p, d) = GeneratorNet(q, d)
  BY <1>1, <1>2 DEF GeneratorNet, PerStepNoiseInjection
<1>5. CriticNet(p, d) = CriticNet(q, d)
  BY <1>1, <1>2, <1>3 DEF CriticNet, FirstDifference, MinibatchStddev
<1> QED BY <1>1, <1>4, <1>5 DEF BuildGAN

LEMMA DiffusionReads ==
    ASSUME NEW p, NEW q, Agree(p, q, "diffusion"), NEW d
    PROVE  BuildDiffusion(p, d) = BuildDiffusion(q, d)
PROOF
<1>1. /\ p.num_timesteps = q.num_timesteps /\ p.beta_schedule = q.beta_schedule
      /\ p.beta_start = q.beta_start /\ p.beta_end = q.beta_end
      /\ p.output_clip = q.output_clip
  BY DEF Agree, SavedParams
<1>2. /\ p.width = q.width /\ p.n_blocks = q.n_blocks /\ p.dilation_cycle = q.dilation_cycle
      /\ p.time_embed_dim = q.time_embed_dim /\ p.cond_embed_dim = q.cond_embed_dim
      /\ p.cond_dim = q.cond_dim /\ p.cell_vocab_size = q.cell_vocab_size
      /\ p.cell_embed_dim = q.cell_embed_dim
  BY DEF Agree, SavedParams
<1>3. CondWidth(p) = CondWidth(q) /\ TimeEmbedding(p) = TimeEmbedding(q)
  BY <1>2 DEF CondWidth, TimeEmbedding
<1>4. \A i : ResBlock(p, i) = ResBlock(q, i)
  BY <1>2, <1>3 DEF ResBlock
<1>5. UNION {ResBlock(p, i) : i \in 1..p.n_blocks} = UNION {ResBlock(q, i) : i \in 1..q.n_blocks}
  BY <1>2, <1>4
<1>6. Denoiser(p, d) = Denoiser(q, d)
  <2> DEFINE U(x) == UNION {ResBlock(x, i) : i \in 1..x.n_blocks}
  <2>1. U(p) = U(q)
    BY <1>5
  <2>2. \A x : Denoiser(x, d) = 
          LET C    == x.cond_embed_dim
              cell == x.cell_vocab_size > 0
              in   == d.feat_dim + Conditioning(d) + x.cond_dim + Plus(cell, x.cell_embed_dim) + PE
          IN  {<<"t_mlp1", TimeEmbedding(x), C>>, <<"t_mlp2", C, C>>, <<"y_mlp", d.y_dim, C>>,
               <<"in_proj", in, x.width>>, <<"eps_out", x.width, d.feat_dim>>}
              \cup Where(cell, {<<"cell_embedding", x.cell_vocab_size, x.cell_embed_dim>>,
                                <<"cell_mlp", x.cell_embed_dim, C>>})
              \cup U(x)
    BY Zenon DEF Denoiser
  <2> HIDE DEF U
  <2> QED BY <1>2, <1>3, <2>1, <2>2
<1>7. Dilations(p) = Dilations(q)
  BY <1>2 DEF Dilations
<1>8. Sampler(p) = Sampler(q)
  BY <1>1 DEF Sampler, BetaSchedule
<1> QED BY <1>6, <1>7, <1>8 DEF BuildDiffusion

LEMMA BuildReads ==
    ASSUME NEW v \in {"v6", "v7", "gan", "diffusion"}, NEW p, NEW q, Agree(p, q, v), NEW d,
           NEW tile, p.arch_version = v
    PROVE  Build(q, d, tile) = Build(p, d, tile)
PROOF
<1>1. q.arch_version = v
  BY DEF Agree, SavedParams
<1>2. CASE v \in {"v6", "v7"}
  <2>1. Agree(p, q, "v6")
    BY <1>2 DEF Agree, SavedParams
  <2> QED BY <1>1, <1>2, <2>1, VAEReads DEF Build
<1>3. CASE v = "gan"
  BY <1>1, <1>3, GANReads DEF Build
<1>4. CASE v = "diffusion"
  BY <1>1, <1>4, DiffusionReads DEF Build
<1> QED BY <1>2, <1>3, <1>4

\* What is read back of the parameters, wherever it does not come from the defaults.
LEMMA ParamsReadBack ==
    ASSUME NEW c \in Configs, NEW defaults
    PROVE  /\ Hyper(c).arch_version = Version(c)
           /\ ArchParams([cfg |-> c]).p.arch_version = Version(c)
           /\ Agree(Hyper(c), Filled(ArchParams([cfg |-> c]).p, defaults), Version(c))
PROOF
<1> DEFINE v == Version(c)
           S == SavedParams(v)
           a == Restrict(Hyper(c), S)
<1>1. v \in {"v6", "v7", "gan", "diffusion"} /\ S \subseteq DOMAIN Config[c].p
  BY TrainingAssumption, ParamsAssumption
<1>2. "arch_version" \in S
  BY <1>1 DEF SavedParams
<1>3. Hyper(c).arch_version = v
  <2>1. "arch_version" \in DOMAIN Config[c].p /\ Config[c].p.arch_version = v
    BY <1>1, <1>2 DEF Version
  <2> QED BY <2>1 DEF Hyper
<1>4. ArchParams([cfg |-> c]).p = a
  BY DEF ArchParams
<1> HIDE DEF S
<1>5. DOMAIN a = S /\ \A f \in S : a[f] = Hyper(c)[f]
  BY DEF Restrict
<1> HIDE DEF a
<1>6. \A f \in S : Filled(a, defaults)[f] = Hyper(c)[f]
  BY <1>5 DEF Filled
<1> QED BY <1>2, <1>3, <1>4, <1>5, <1>6 DEF Agree, S

\* save_training_artifacts and load_trained_model: what a training writes down of its
\* network is all that building it reads, so its files give it back, for any data set
\* and any hyper-parameters, with or without the optional list of KPIs.
THEOREM ReloadableHolds == Spec => []Reloadable
PROOF
<1>1. HonestInv => Reloadable
  <2> SUFFICES ASSUME HonestInv, OfOneTraining(bucket), "arch_params" \in DOMAIN bucket
               PROVE  LoadTrainedModel(bucket) = Trained[bucket["weights"].v.cfg]
    BY DEF Reloadable
  <2> DEFINE c == bucket["weights"].v.cfg
             a == bucket["arch_params"].v
             P == ArchParams([cfg |-> c])
             D == Dims(Loaded[c])
             q == Filled(P.p, Defaults(Version(c)))
  <2>1. {"weights", "config_encoder"} \subseteq DOMAIN bucket
    <3>1. bucket # <<>>
      OBVIOUS
    <3> QED BY <3>1 DEF HonestInv, FetchedInv, Mandatory
  <2>2. c \in Configs
    BY <2>1 DEF HonestInv, Honest, WeightsInv
  <2>3. \A f \in Told \cap DOMAIN bucket : bucket[f].v = Said(f, c)
    BY <2>1 DEF OfOneTraining, HonestInv, Honest, SaidInv
  <2>4. a = P /\ bucket["config_encoder"].v = Loaded[c].cats
    BY <2>1, <2>3 DEF Told, Said
  <2>5. P.tile_z = TRUE /\ P.seq_len = SeqLen /\ P.feat_dim = Len(Loaded[c].kpis)
    BY DEF ArchParams
  <2>6. FeatDim(bucket) = Len(Loaded[c].kpis)
    <3>1. "kpi_columns" \in DOMAIN bucket => bucket["kpi_columns"].v = Loaded[c].kpis
      BY <2>3 DEF Told, Said
    <3> QED BY <2>4, <2>5, <3>1 DEF FeatDim
  <2>7. P.p.arch_version = Version(c) /\ Hyper(c).arch_version = Version(c)
        /\ Agree(Hyper(c), q, Version(c))
    BY <2>2, ParamsReadBack
  <2>8. LoadTrainedModel(bucket) = Build(q, D, TRUE)
    BY <2>4, <2>5, <2>6, <2>7 DEF LoadTrainedModel, Dims
  <2>9. Trained[c] = Build(Hyper(c), D, TRUE)
    BY <2>2 DEF Trained
  <2>10. Version(c) \in {"v6", "v7", "gan", "diffusion"}
    BY <2>2, TrainingAssumption
  <2> HIDE DEF c, q, D
  <2>11. Build(q, D, TRUE) = Build(Hyper(c), D, TRUE)
    <3> DEFINE v == Version(c)
               p == Hyper(c)
               yes == TRUE
    <3>1. v \in {"v6", "v7", "gan", "diffusion"} /\ Agree(p, q, v) /\ p.arch_version = v
      BY <2>7, <2>10
    <3> HIDE DEF v, p, yes
    <3>2. Build(q, D, yes) = Build(p, D, yes)
      BY <3>1, BuildReads
    <3> QED BY <3>2 DEF p, yes
  <2> QED BY <2>8, <2>9, <2>11 DEF c
<1> QED BY <1>1, HonestAlways, PTL

\* The columns of one training's files, each labelled with the KPI it is.
LEMMA SelectionOf ==
    ASSUME NEW l, NEW s
    PROVE  /\ \A c \in Columned(l, l, s) : c.label = c.is
           /\ {c.label : c \in Columned(l, l, s)} =
                 IF s = <<>> THEN Range(l) ELSE Range(s) \cap Range(l)
PROOF
<1> DEFINE all == [i \in DOMAIN l |-> [label |-> l[i], is |-> l[i]]]
<1>1. \A c \in Range(all) : c.label = c.is /\ c.label \in Range(l)
  BY DEF Range
<1>2. \A k \in Range(l) : \E c \in Range(all) : c.label = k
  <2> TAKE k \in Range(l)
  <2>1. PICK i \in DOMAIN l : l[i] = k
    BY DEF Range
  <2>2. all[i] \in Range(all) /\ all[i].label = k
    BY <2>1 DEF Range
  <2> QED BY <2>2
<1>3. Columned(l, l, s) = IF s = <<>> THEN Range(all)
                                      ELSE {c \in Range(all) : c.label \in Range(s)}
  BY Zenon DEF Columned
<1> HIDE DEF all
<1>4. \A c \in Columned(l, l, s) : c.label = c.is
  BY <1>1, <1>3
<1>5. {c.label : c \in Columned(l, l, s)} =
         IF s = <<>> THEN Range(l) ELSE Range(s) \cap Range(l)
  BY <1>1, <1>2, <1>3
<1> QED BY <1>4, <1>5

\* generate_windows and the selection after it: whatever the user asks for, a column of
\* one training's files is labelled with the KPI the network put there, and the columns
\* are the trained KPIs that were asked for, or all of them, if the task had their list.
THEOREM ColumnsHold == Spec => []ColumnsAreTrue
PROOF
<1>1. HonestInv => ColumnsAreTrue
  <2> SUFFICES ASSUME HonestInv, "kpi_columns" \in DOMAIN gen.files, OfOneTraining(gen.files),
                      NEW o \in gen.done
               PROVE  /\ \A c \in out[o.key].columns : c.label = c.is
                      /\ {c.label : c \in out[o.key].columns} =
                            IF gen.conf.kpi_list = <<>>
                            THEN Range(gen.files["kpi_columns"].v)
                            ELSE Range(gen.conf.kpi_list) \cap Range(gen.files["kpi_columns"].v)
    BY DEF ColumnsAreTrue
  <2> DEFINE cfg == gen.files["weights"].v.cfg
             wish == gen.conf.kpi_list
             l == gen.files["kpi_columns"].v
  <2>1. /\ o.key \in DOMAIN out \ {"metadata"}
        /\ out[o.key].columns = Columned(gen.labels, Loaded[cfg].kpis, gen.filter)
    BY DEF HonestInv, StoredInv
  <2>2. "weights" \in DOMAIN gen.files
    BY <2>1 DEF HonestInv, FetchedInv, Mandatory
  <2>3. Honest(gen.files)
    BY FewerHonest DEF HonestInv, FetchedInv
  <2>4. l = Loaded[cfg].kpis
    BY <2>2, <2>3 DEF OfOneTraining, Honest, SaidInv, Told, Said
  <2>5. gen.labels = l /\ gen.filter = wish
    BY DEF HonestInv, FetchedInv
  <2> HIDE DEF cfg, wish, l
  <2>6. /\ \A c \in Columned(l, l, wish) : c.label = c.is
        /\ {c.label : c \in Columned(l, l, wish)} =
              IF wish = <<>> THEN Range(l) ELSE Range(wish) \cap Range(l)
    BY SelectionOf
  <2>7. out[o.key].columns = Columned(l, l, wish)
    BY <2>1, <2>4, <2>5
  <2> QED BY <2>6, <2>7 DEF wish, l
<1> QED BY <1>1, HonestAlways, PTL

-----------------------------------------------------------------------------
(* The calendar.                                                           *)

LEMMA LeastNat ==
    ASSUME NEW T, T \subseteq Nat, T # {}
    PROVE  \E n \in T : \A m \in T : n <= m
PROOF
<1>1. PICK n \in T : \A m \in T : ~(<<m, n>> \in OpToRel(<, Nat))
  BY NatLessThanWellFounded, WFMin
<1>2. \A m \in T : ~(m < n)
  BY <1>1 DEF OpToRel
<1> QED BY <1>2

\* A finite set of hours has a first and a last one.
LEMMA FirstAndLast ==
    ASSUME NEW S, IsFiniteSet(S), S \subseteq Int, S # {}
    PROVE  /\ Min(S) \in S /\ \A y \in S : Min(S) <= y
           /\ Max(S) \in S /\ \A y \in S : Max(S) >= y
PROOF
<1> DEFINE Below(x) == {y \in S : y < x}
           Above(x) == {y \in S : y > x}
<1>1. \A x \in S : /\ IsFiniteSet(Below(x)) /\ Cardinality(Below(x)) \in Nat
                   /\ IsFiniteSet(Above(x)) /\ Cardinality(Above(x)) \in Nat
  BY FS_Subset, FS_CardinalityType
<1>2. \E x \in S : \A y \in S : x <= y
  <2> DEFINE T == {Cardinality(Below(x)) : x \in S}
  <2>1. T \subseteq Nat /\ T # {}
    BY <1>1
  <2>2. PICK n \in T : \A m \in T : n <= m
    BY <2>1, LeastNat
  <2>3. PICK x \in S : n = Cardinality(Below(x))
    OBVIOUS
  <2>4. ASSUME NEW y \in S, y < x PROVE FALSE
    <3>1. Below(y) \in SUBSET Below(x)
      <4>1. \A z \in S : z < y => z < x
        BY <2>4
      <4> QED BY <4>1
    <3>2. y \in Below(x) /\ y \notin Below(y)
      BY <2>4
    <3>3. Cardinality(Below(y)) \in T /\ n <= Cardinality(Below(y))
      BY <2>2
    <3>4. /\ IsFiniteSet(Below(x)) /\ Cardinality(Below(x)) \in Nat
          /\ Cardinality(Below(y)) \in Nat
      BY <1>1
    <3> HIDE DEF Below
    <3>5. /\ Cardinality(Below(y)) <= Cardinality(Below(x))
          /\ Cardinality(Below(y)) # Cardinality(Below(x))
      BY <3>1, <3>2, <3>4, FS_Subset
    <3> QED BY <2>3, <3>3, <3>4, <3>5
  <2> QED BY <2>4
<1>3. \E x \in S : \A y \in S : x >= y
  <2> DEFINE T == {Cardinality(Above(x)) : x \in S}
  <2>1. T \subseteq Nat /\ T # {}
    BY <1>1
  <2>2. PICK n \in T : \A m \in T : n <= m
    BY <2>1, LeastNat
  <2>3. PICK x \in S : n = Cardinality(Above(x))
    OBVIOUS
  <2>4. ASSUME NEW y \in S, y > x PROVE FALSE
    <3>1. Above(y) \in SUBSET Above(x)
      <4>1. \A z \in S : z > y => z > x
        BY <2>4
      <4> QED BY <4>1
    <3>2. y \in Above(x) /\ y \notin Above(y)
      BY <2>4
    <3>3. Cardinality(Above(y)) \in T /\ n <= Cardinality(Above(y))
      BY <2>2
    <3>4. /\ IsFiniteSet(Above(x)) /\ Cardinality(Above(x)) \in Nat
          /\ Cardinality(Above(y)) \in Nat
      BY <1>1
    <3> HIDE DEF Above
    <3>5. /\ Cardinality(Above(y)) <= Cardinality(Above(x))
          /\ Cardinality(Above(y)) # Cardinality(Above(x))
      BY <3>1, <3>2, <3>4, FS_Subset
    <3> QED BY <2>3, <3>3, <3>4, <3>5
  <2> QED BY <2>4
<1> QED BY <1>2, <1>3 DEF Min, Max

\* Days go by with the hours, and a window reaches no day but those of its length.
LEMMA Days ==
    ASSUME NEW t \in Int, NEW h \in Nat
    PROVE  /\ Day(t) \in Int /\ Day(t) <= Day(t + h)
           /\ h < SeqLen => Day(t + h) <= Day(t) + SeqLen \div DayHours + 1
PROOF
<1> DEFINE D == DayHours
           q == t \div D
           r == (t + h) \div D
           p == SeqLen \div D
<1>1. D \in Nat \ {0} /\ SeqLen \in Nat \ {0}
  BY TrainingDataAssumption
<1>2. q \in Int /\ D * q <= t /\ t < D * q + D
  BY <1>1, SMTT(30)
<1>3. r \in Int /\ D * r <= t + h /\ t + h < D * r + D
  BY <1>1, SMTT(30)
<1>4. p \in Int /\ D * p <= SeqLen /\ SeqLen < D * p + D
  BY <1>1, SMTT(30)
<1> HIDE DEF q, r, p
<1>5. q <= r
  <2> SUFFICES ASSUME r < q PROVE FALSE
    BY <1>2, <1>3
  <2>1. D * r + D <= D * q
    <3>1. r + 1 <= q
      BY <1>2, <1>3
    <3>2. D * (r + 1) <= D * q
      BY <1>1, <1>2, <1>3, <3>1, SMTT(30)
    <3> QED BY <1>1, <1>3, <3>2
  <2> QED BY <1>1, <1>2, <1>3, <2>1
<1>6. h < SeqLen => r <= q + p + 1
  <2> SUFFICES ASSUME h < SeqLen, q + p + 2 <= r PROVE FALSE
    BY <1>2, <1>3, <1>4
  <2>1. D * (q + p + 2) <= D * r
    BY <1>1, <1>2, <1>3, <1>4, SMTT(30)
  <2>2. D * (q + p + 2) = D * q + D * p + D + D
    BY <1>1, <1>2, <1>4, SMTT(30)
  <2>3. /\ D * q \in Int /\ D * p \in Int /\ D * r \in Int
    BY <1>1, <1>2, <1>3, <1>4
  <2> QED BY <1>1, <1>2, <1>3, <1>4, <2>1, <2>2, <2>3
<1> QED BY <1>2, <1>5, <1>6 DEF Day, q, r, p

\* A day is one of three days off in a row.
LongRun(d) == \E i \in (d - 2)..d : \A e \in i..(i + 2) : OffDay("US", e)

\* The table tells every long run of a day that its windows reach, but for one that
\* began before the table.
LEMMA SpanTells ==
    ASSUME NEW A, IsFiniteSet(A), A \subseteq Int, NEW a \in A, NEW h \in 0..(SeqLen - 1),
           ~BeganBefore(CalendarSpan(A), Day(a + h))
    PROVE  InLongRun(CalendarSpan(A), "US", Day(a + h)) <=> LongRun(Day(a + h))
PROOF
<1> DEFINE x == Min(A)
           y == Max(A)
           p == SeqLen \div DayHours
           m == Day(x)
           z == Day(y) + p + 3
           d == Day(a + h)
           s == CalendarSpan(A)
<1>1. x \in A /\ y \in A /\ x <= a /\ a <= y
  BY FirstAndLast
<1>2. SeqLen \in Nat \ {0} /\ DayHours \in Nat \ {0} /\ p \in Nat
  BY TrainingDataAssumption, SMTT(30)
<1>3. x \in Int /\ y \in Int /\ a \in Int /\ h \in Nat /\ h < SeqLen
  <2>1. h \in Nat /\ h < SeqLen
    BY <1>2
  <2> HIDE DEF x, y
  <2> QED BY <1>1, <2>1
<1>4. m \in Int /\ d \in Int /\ Day(y) \in Int /\ m <= d /\ d + 2 <= z
  <2>1. Day(a) \in Int /\ Day(a) <= d /\ d <= Day(a) + p + 1
    BY <1>3, Days
  <2>2. m \in Int /\ m <= Day(a)
    <3>1. a - x \in Nat /\ x + (a - x) = a
      BY <1>1, <1>3
    <3> QED BY <1>3, <3>1, Days
  <2>3. Day(y) \in Int /\ Day(a) <= Day(y)
    <3>1. y - a \in Nat /\ a + (y - a) = y
      BY <1>1, <1>3
    <3>2. Day(y) \in Int
      BY <1>3, Days
    <3> QED BY <1>3, <3>1, <3>2, Days
  <2>4. d \in Int
    <3>1. a + h \in Int /\ 0 \in Nat
      BY <1>3
    <3> QED BY <3>1, Days
  <2> HIDE DEF p, m, d
  <2> QED BY <1>2, <2>1, <2>2, <2>3, <2>4
<1>5. s = m..z
  BY DEF CalendarSpan
<1> HIDE DEF x, y, p, m, z, d, s
<1>6. z \in Int /\ m <= z
  BY <1>4, <1>2 DEF z
<1>7. Min(s) = m
  <2>1. m \in s /\ \A e \in s : m <= e /\ e \in Int
    BY <1>4, <1>5, <1>6
  <2>2. Min(s) \in s /\ Min(s) <= m
    BY <2>1 DEF Min
  <2>3. Min(s) \in Int /\ m <= Min(s)
    BY <2>1, <2>2
  <2> QED BY <1>4, <2>2, <2>3
<1>8. ~\A e \in (m - 1)..d : OffDay("US", e)
  BY <1>7 DEF s, d, BeganBefore
<1>9. ASSUME NEW i \in (d - 2)..d, \A e \in i..(i + 2) : OffDay("US", e)
      PROVE  \A e \in i..(i + 2) : e \in s
  <2>1. i \in Int /\ i <= d /\ d <= i + 2
    BY <1>4, <1>9
  <2>2. m <= i
    <3> SUFFICES ASSUME i < m PROVE FALSE
      BY <1>4, <2>1
    <3>1. \A e \in (m - 1)..d : e \in i..(i + 2)
      BY <1>4, <2>1
    <3> QED BY <1>8, <1>9, <3>1
  <2> QED BY <1>4, <1>5, <1>6, <2>1, <2>2
<1>10. InLongRun(s, "US", d) <=> LongRun(d)
  BY <1>9 DEF InLongRun, LongRun
<1> QED BY <1>10 DEF s, d

\* What a window is told of a day, but for long runs, is told by the day alone.
LEMMA DayTells ==
    ASSUME NEW A, NEW n, NEW a \in A, NEW h \in 0..(SeqLen - 1)
    PROVE  LET x == BuildCalendarFeatures(A, n)[a][h]
               d == Day(a + h)
           IN  /\ x.weekday = d % 7 /\ x.weekend = (d % 7 >= 5)
               /\ x.holiday = (d \in Holidays[n]) /\ x.eve = (d + 1 \in Holidays[n])
               /\ x.long = InLongRun(CalendarSpan(A), n, d)
PROOF
<1>1. BuildCalendarFeatures(A, n)[a][h] = DayFeatures(CalendarSpan(A), n, Day(a + h))
  BY DEF BuildCalendarFeatures
<1> QED BY <1>1 DEF DayFeatures

LEMMA AnchorsOf ==
    /\ \A c \in Configs : LET A == {w.anchor : w \in Loaded[c].windows}
                          IN  IsFiniteSet(A) /\ A \subseteq Int
    /\ \A f : f.anchor_date \in Int /\ f.n_weeks \in Nat =>
                 IsFiniteSet(Anchors(f)) /\ Anchors(f) \subseteq Int
PROOF
<1>1. ASSUME NEW c \in Configs
      PROVE  LET A == {w.anchor : w \in Loaded[c].windows} IN IsFiniteSet(A) /\ A \subseteq Int
  <2> DEFINE G == Config[c].data.groups
             at == [g \in G |-> g.anchor]
             N == {g.anchor : g \in G}
             A == {w.anchor : w \in Loaded[c].windows}
  <2>1. IsFiniteSet(G) /\ \A g \in G : g.anchor \in Int
    BY TrainingAssumption
  <2>2. at \in Surjection(G, N)
    BY DEF Surjection
  <2>3. IsFiniteSet(N) /\ N \subseteq Int
    BY <2>1, <2>2, FS_Surjection
  <2>4. Loaded[c].windows = Stack(Config[c].data)
    BY DEF Loaded, LoadTrainingWindows
  <2>5. \A w \in Stack(Config[c].data) : \E g \in G : w.anchor = g.anchor
    BY DEF Stack
  <2>6. A \in SUBSET N
    BY <2>4, <2>5
  <2> QED BY <2>3, <2>6, FS_Subset
<1>2. ASSUME NEW f, f.anchor_date \in Int, f.n_weeks \in Nat
      PROVE  IsFiniteSet(Anchors(f)) /\ Anchors(f) \subseteq Int
  <2> DEFINE K == 0..(f.n_weeks - 1)
             at == [k \in K |-> f.anchor_date + k * 7 * DayHours]
  <2>1. IsFiniteSet(K)
    BY <1>2, FS_Interval
  <2>2. at \in Surjection(K, Anchors(f))
    BY DEF Surjection, Anchors
  <2>3. IsFiniteSet(Anchors(f))
    BY <2>1, <2>2, FS_Surjection
  <2>4. \A k \in K : f.anchor_date + k * 7 * DayHours \in Int
    <3>1. DayHours \in Int
      BY TrainingDataAssumption
    <3> QED BY <1>2, <3>1
  <2>5. Anchors(f) \subseteq Int
    BY <2>4 DEF Anchors
  <2> QED BY <2>3, <2>5
<1> QED BY <1>1, <1>2

\* build_calendar_features, called for what was trained on and for what is generated,
\* each with its own table of days: whatever the anchors and holidays, a day within both
\* has the same weekday, for a training told of US holidays the same holiday and eve, and
\* the same long run of days off, but for a run that began before one of the tables.
THEOREM CalendarHolds == Spec => []CalendarAgrees
PROOF
<1>1. HonestInv => CalendarAgrees
  <2> SUFFICES ASSUME HonestInv, NEW key \in DOMAIN out \ {"metadata"},
                      NEW a \in DOMAIN out[key].calendar,
                      NEW b \in {w.anchor : w \in Loaded[gen.files["weights"].v.cfg].windows},
                      NEW h \in 0..(SeqLen - 1), NEW k \in 0..(SeqLen - 1), a + h = b + k
               PROVE  LET name == gen.files["weights"].v.cfg
                          then == {w.anchor : w \in Loaded[name].windows}
                          x == out[key].calendar[a][h]
                          y == BuildCalendarFeatures(then, Config[name].calendar_country)[b][k]
                      IN  /\ x.weekday = y.weekday /\ x.weekend = y.weekend
                          /\ Config[name].calendar_country = "US" =>
                                /\ x.holiday = y.holiday /\ x.eve = y.eve
                                /\ \/ x.long = y.long
                                   \/ \E s \in {CalendarSpan(then),
                                                CalendarSpan(DOMAIN out[key].calendar)} :
                                         BeganBefore(s, Day(a + h))
    BY Zenon DEF CalendarAgrees
  <2> DEFINE name == gen.files["weights"].v.cfg
             A == Anchors(gen.conf)
             B == {w.anchor : w \in Loaded[name].windows}
             country == Config[name].calendar_country
             now == BuildCalendarFeatures(A, "US")
             x == now[a][h]
             y == BuildCalendarFeatures(B, country)[b][k]
             d == Day(a + h)
  <2>1. out[key].calendar # <<>>
    OBVIOUS
  <2>2. out[key].calendar = now /\ gen.conf.anchor_date \in Int /\ gen.conf.n_weeks \in Nat
    BY <2>1 DEF HonestInv, StoredInv
  <2>3. DOMAIN now = A
    BY DEF BuildCalendarFeatures
  <2>4. name \in Configs
    <3>1. "weights" \in DOMAIN gen.files
      BY DEF HonestInv, FetchedInv, Mandatory
    <3>2. "weights" \in DOMAIN bucket /\ gen.files["weights"] = bucket["weights"]
      BY <3>1 DEF HonestInv, FetchedInv
    <3> QED BY <3>2 DEF HonestInv, Honest, WeightsInv
  <2>5. IsFiniteSet(A) /\ A \subseteq Int /\ IsFiniteSet(B) /\ B \subseteq Int
    BY <2>2, <2>4, AnchorsOf
  <2>6. a \in A /\ b \in B /\ Day(b + k) = d
    BY <2>2, <2>3
  <2> HIDE DEF A, B, country
  <2>7. /\ x.weekday = d % 7 /\ x.weekend = (d % 7 >= 5)
        /\ x.holiday = (d \in Holidays["US"]) /\ x.eve = (d + 1 \in Holidays["US"])
        /\ x.long = InLongRun(CalendarSpan(A), "US", d)
    BY <2>6, DayTells
  <2>8. /\ y.weekday = d % 7 /\ y.weekend = (d % 7 >= 5)
        /\ y.holiday = (d \in Holidays[country]) /\ y.eve = (d + 1 \in Holidays[country])
        /\ y.long = InLongRun(CalendarSpan(B), country, d)
    <3>1. LET D == Day(b + k)
          IN  /\ y.weekday = D % 7 /\ y.weekend = (D % 7 >= 5)
              /\ y.holiday = (D \in Holidays[country]) /\ y.eve = (D + 1 \in Holidays[country])
              /\ y.long = InLongRun(CalendarSpan(B), country, D)
      BY <2>6, DayTells
    <3> HIDE DEF y
    <3> QED BY <2>6, <3>1
  <2> HIDE DEF x, y, now
  <2>9. country = "US" => \/ x.long = y.long
                          \/ \E s \in {CalendarSpan(B), CalendarSpan(A)} : BeganBefore(s, d)
    <3> SUFFICES ASSUME country = "US", ~BeganBefore(CalendarSpan(A), d),
                        ~BeganBefore(CalendarSpan(B), d)
                 PROVE  x.long = y.long
      OBVIOUS
    <3>1. InLongRun(CalendarSpan(A), "US", d) <=> LongRun(d)
      BY <2>5, <2>6, SpanTells
    <3>2. InLongRun(CalendarSpan(B), "US", d) <=> LongRun(d)
      <4>1. ~BeganBefore(CalendarSpan(B), Day(b + k))
        BY <2>6
      <4>2. InLongRun(CalendarSpan(B), "US", Day(b + k)) <=> LongRun(Day(b + k))
        BY <2>5, <2>6, <4>1, SpanTells
      <4> QED BY <2>6, <4>2
    <3>3. x.long \in BOOLEAN /\ y.long \in BOOLEAN
      BY <2>7, <2>8 DEF InLongRun
    <3> QED BY <2>7, <2>8, <3>1, <3>2, <3>3
  <2>10. country = "US" => x.holiday = y.holiday /\ x.eve = y.eve
    BY <2>7, <2>8
  <2>11. x.weekday = y.weekday /\ x.weekend = y.weekend
    BY <2>7, <2>8
  <2>12. out[key].calendar[a][h] = x /\ DOMAIN out[key].calendar = A
    BY <2>2, <2>3 DEF x
  <2> QED BY <2>9, <2>10, <2>11, <2>12 DEF B, country, y
<1> QED BY <1>1, HonestAlways, PTL

-----------------------------------------------------------------------------
(* The gaps of a column.                                                   *)

\* The members of S up to n, and how many they are.
UpTo(S, n)  == {i \in S : i <= n}
Count(S, n) == Cardinality(UpTo(S, n))

LEMMA CountIs ==
    ASSUME NEW S, IsFiniteSet(S), S \subseteq Int, NEW n \in Int
    PROVE  /\ Count(S, n) \in Nat
           /\ n \in S    => Count(S, n) = Count(S, n - 1) + 1
           /\ n \notin S => Count(S, n) = Count(S, n - 1)
PROOF
<1>1. IsFiniteSet(UpTo(S, n)) /\ IsFiniteSet(UpTo(S, n - 1))
  BY FS_Subset DEF UpTo
<1> \A i \in S : i \in Int /\ (i <= n <=> i <= n - 1 \/ i = n)
  OBVIOUS
<1>2. n \in S => UpTo(S, n) = UpTo(S, n - 1) \cup {n} /\ n \notin UpTo(S, n - 1)
  <2>1. ~(n <= n - 1) /\ n <= n
    OBVIOUS
  <2> QED BY <2>1, Zenon DEF UpTo
<1>3. n \notin S => UpTo(S, n) = UpTo(S, n - 1)
  BY DEF UpTo
<1>4. n \in S => Count(S, n) = Count(S, n - 1) + 1
  BY <1>1, <1>2, FS_AddElement DEF Count
<1> QED BY <1>1, <1>3, <1>4, FS_CardinalityType DEF Count

LEMMA CountGrows ==
    ASSUME NEW S, IsFiniteSet(S), S \subseteq Int, NEW m \in Int, NEW n \in Int, m <= n
    PROVE  /\ Count(S, m) <= Count(S, n)
           /\ Count(S, m) = Count(S, n) => \A i \in S : ~(m < i /\ i <= n)
PROOF
<1> \A i \in S : i \in Int
  OBVIOUS
<1>1. \A k \in Int : IsFiniteSet(UpTo(S, k))
  BY FS_Subset DEF UpTo
<1>2. \A j, k \in Int : j <= k => Count(S, j) <= Count(S, k)
  <2> TAKE j, k \in Int
  <2> HAVE j <= k
  <2>1. \A i \in S : i <= j => i <= k
    OBVIOUS
  <2>2. UpTo(S, j) \subseteq UpTo(S, k)
    BY <2>1, Zenon DEF UpTo
  <2> QED BY <1>1, <2>2, FS_Subset DEF Count
<1>3. ASSUME NEW i \in S, m < i, i <= n PROVE Count(S, m) # Count(S, n)
  <2>1. i \in Int /\ i - 1 \in Int /\ m <= i - 1
    BY <1>3
  <2>2. Count(S, m) <= Count(S, i - 1) /\ Count(S, i) <= Count(S, n)
    BY <1>2, <1>3, <2>1
  <2>3. Count(S, i) = Count(S, i - 1) + 1
    BY <2>1, <1>3, CountIs
  <2>4. \A k \in Int : Count(S, k) \in Nat
    BY CountIs
  <2> QED BY <2>1, <2>2, <2>3, <2>4
<1> QED BY <1>2, <1>3

\* np.where: the n-th member of S is the one with n members up to it.
LEMMA AscendingIs ==
    ASSUME NEW S, IsFiniteSet(S), S \subseteq Nat \ {0}
    PROVE  /\ Cardinality(S) \in Nat
           /\ Ascending(S) \in [1..Cardinality(S) -> S]
           /\ Len(Ascending(S)) = Cardinality(S)
           /\ \A n \in 1..Cardinality(S) : Count(S, Ascending(S)[n]) = n
           /\ \A i \in S : Count(S, i) \in 1..Cardinality(S) /\ Ascending(S)[Count(S, i)] = i
PROOF
<1> DEFINE K == Cardinality(S)
<1>0. S \subseteq Int /\ \A i \in S : i \in Nat /\ i >= 1
  OBVIOUS
<1>1. K \in Nat
  BY FS_CardinalityType
<1>2. \A n \in Int : Count(S, n) \in Nat
  BY <1>0, CountIs
<1>3. \A i \in S : Count(S, i) \in 1..K
  <2> TAKE i \in S
  <2>1. i \in Int /\ i - 1 \in Int
    BY <1>0
  <2>2. Count(S, i) = Count(S, i - 1) + 1 /\ Count(S, i - 1) \in Nat
    BY <1>0, <2>1, CountIs
  <2>3. UpTo(S, i) \subseteq S
    BY DEF UpTo
  <2>4. Count(S, i) <= K
    BY <2>3, FS_Subset DEF Count
  <2> QED BY <1>1, <1>2, <2>1, <2>2, <2>4
<1>4. \A i, j \in S : Count(S, i) = Count(S, j) => i = j
  <2>1. ASSUME NEW i \in S, NEW j \in S, i < j PROVE Count(S, i) # Count(S, j)
    <3>1. i \in Int /\ j \in Int /\ i <= j /\ i < j /\ j <= j
      BY <1>0, <2>1
    <3> QED BY <1>0, <3>1, CountGrows, Zenon
  <2> QED BY <1>0, <2>1
<1>5. ASSUME NEW n \in 1..K PROVE \E i \in S : Count(S, i) = n
  <2> DEFINE T == {m \in Nat : Count(S, m) >= n}
  <2>1. S # {}
    BY <1>1, <1>5, FS_EmptySet
  <2>2. Max(S) \in S /\ \A y \in S : Max(S) >= y
    BY <1>0, <2>1, FirstAndLast
  <2>3. UpTo(S, Max(S)) = S
    BY <2>2 DEF UpTo
  <2>4. Max(S) \in T
    <3>1. Max(S) \in Nat /\ Count(S, Max(S)) = K
      BY <1>0, <2>2, <2>3 DEF Count
    <3> QED BY <1>1, <1>5, <3>1
  <2>5. PICK i \in T : \A m \in T : i <= m
    <3> HIDE DEF T
    <3>1. T \subseteq Nat
      BY DEF T
    <3> QED BY <2>4, <3>1, LeastNat
  <2>6. Count(S, 0) = 0
    <3>1. \A j \in S : ~(j <= 0)
      BY <1>0
    <3>2. UpTo(S, 0) = {}
      BY <3>1, Zenon DEF UpTo
    <3> QED BY <3>2, FS_EmptySet DEF Count
  <2>7. i \in Nat /\ i # 0 /\ i - 1 \in Nat
    BY <2>5, <2>6
  <2>8. Count(S, i - 1) < n /\ Count(S, i) >= n
    BY <1>1, <1>2, <2>5, <2>7
  <2>9. i \in S /\ Count(S, i) = n
    <3>1. i \in Int /\ i - 1 \in Int
      BY <2>7
    <3>2. /\ i \in S    => Count(S, i) = Count(S, i - 1) + 1
          /\ i \notin S => Count(S, i) = Count(S, i - 1)
      BY <1>0, <3>1, CountIs
    <3>3. Count(S, i) \in Nat /\ Count(S, i - 1) \in Nat /\ n \in Nat
      BY <1>1, <1>2, <1>5, <3>1
    <3> QED BY <2>8, <3>2, <3>3
  <2> QED BY <2>9
<1>6. \A n \in 1..K : Ascending(S)[n] \in S /\ Count(S, Ascending(S)[n]) = n
  BY <1>5 DEF Ascending, Count, UpTo
<1>7. \A i \in S : Ascending(S)[Count(S, i)] = i
  BY <1>3, <1>4, <1>6
<1>8. DOMAIN Ascending(S) = 1..K /\ Ascending(S) = [n \in 1..K |-> Ascending(S)[n]]
  <2> DEFINE at(n) == CHOOSE i \in S : Cardinality({j \in S : j <= i}) = n
             f == [n \in 1..K |-> at(n)]
  <2>1. Ascending(S) = f
    BY Zenon DEF Ascending
  <2> HIDE DEF at, K
  <2>2. DOMAIN f = 1..K /\ f = [n \in 1..K |-> f[n]]
    OBVIOUS
  <2> HIDE DEF f
  <2> QED BY <2>1, <2>2, Zenon
<1>9. Ascending(S) \in [1..K -> S]
  BY <1>6, <1>8
<1>10. Len(Ascending(S)) = K
  BY <1>1, <1>9
<1> QED BY <1>1, <1>3, <1>6, <1>7, <1>9, <1>10

LEMMA CountBlank ==
    ASSUME NEW S, S \subseteq Int, NEW m \in Int, NEW n \in Int, m <= n,
           \A i \in S : ~(m < i /\ i <= n)
    PROVE  Count(S, m) = Count(S, n)
PROOF
<1>1. \A i \in S : i <= m <=> i <= n
  OBVIOUS
<1>2. UpTo(S, m) = UpTo(S, n)
  BY <1>1, Zenon DEF UpTo
<1> QED BY <1>2 DEF Count

LEMMA CountRun ==
    ASSUME NEW S, IsFiniteSet(S), S \subseteq Int, NEW m \in Int, NEW n \in Int, m <= n,
           m..n \subseteq S
    PROVE  Count(S, n) = Count(S, m - 1) + (n - m + 1)
PROOF
<1>1. IsFiniteSet(UpTo(S, m - 1)) /\ Cardinality(UpTo(S, m - 1)) \in Nat
  BY FS_Subset, FS_CardinalityType DEF UpTo
<1>2. IsFiniteSet(m..n) /\ Cardinality(m..n) = n - m + 1
  BY FS_Interval
<1>3. \A i \in S : i <= n <=> i <= m - 1 \/ i \in m..n
  OBVIOUS
<1>4. UpTo(S, n) = UpTo(S, m - 1) \cup (m..n)
  BY <1>3 DEF UpTo
<1>5. UpTo(S, m - 1) \cap (m..n) = {}
  BY DEF UpTo
<1>6. Cardinality({}) = 0
  BY FS_EmptySet
<1>7. Cardinality(UpTo(S, n)) =
          Cardinality(UpTo(S, m - 1)) + Cardinality(m..n) - Cardinality(UpTo(S, m - 1) \cap (m..n))
  BY <1>1, <1>2, <1>4, FS_Union
<1>8. Cardinality(UpTo(S, m - 1) \cap (m..n)) = 0
  BY <1>5, <1>6, Zenon
<1>9. Count(S, n) = Count(S, m - 1) + (n - m + 1) - 0
  BY <1>2, <1>7, <1>8, Zenon DEF Count
<1>10. Count(S, m - 1) \in Nat
  BY <1>1 DEF Count
<1> QED BY <1>9, <1>10

StartsOf(H) == {i \in H : i - 1 \notin H}
EndsOf(H)   == {i + 1 : i \in {j \in H : j + 1 \notin H}}
RunsOf(H)   == {r \in H \X H : /\ r[1] <= r[2] /\ r[1]..r[2] \subseteq H
                               /\ r[1] - 1 \notin H /\ r[2] + 1 \notin H}

LEMMA EdgesAre ==
    ASSUME NEW L \in Nat, NEW H, H \subseteq 1..L
    PROVE  /\ IsFiniteSet(H) /\ H \subseteq Int
           /\ IsFiniteSet(StartsOf(H)) /\ StartsOf(H) \subseteq Nat \ {0}
           /\ IsFiniteSet(EndsOf(H)) /\ EndsOf(H) \subseteq Nat \ {0}
           /\ \A n \in Nat : n \in StartsOf(H) <=> n \in H /\ n - 1 \notin H
           /\ \A n \in Nat : n \in EndsOf(H) <=> n - 1 \in H /\ n \notin H
           /\ EndsOf(H) \subseteq 1..(L + 1)
PROOF
<1>0. \A i \in H : i \in Nat /\ 1 <= i /\ i <= L
  OBVIOUS
<1>1. IsFiniteSet(H) /\ IsFiniteSet(StartsOf(H))
  <2>1. IsFiniteSet(1..L)
    BY FS_Interval
  <2>2. IsFiniteSet(H)
    BY <2>1, FS_Subset
  <2>3. StartsOf(H) \subseteq H
    BY DEF StartsOf
  <2> QED BY <2>2, <2>3, FS_Subset
<1>2. EndsOf(H) \subseteq 1..(L + 1)
  BY <1>0 DEF EndsOf
<1>3. IsFiniteSet(EndsOf(H))
  <2>1. IsFiniteSet(1..(L + 1))
    BY FS_Interval
  <2> QED BY <1>2, <2>1, FS_Subset
<1>4. \A n \in Nat : n \in EndsOf(H) <=> n - 1 \in H /\ n \notin H
  <2> TAKE n \in Nat
  <2>1. ASSUME n \in EndsOf(H) PROVE n - 1 \in H /\ n \notin H
    <3>1. PICK i \in H : n = i + 1 /\ i + 1 \notin H
      BY <2>1 DEF EndsOf
    <3>2. n - 1 = i
      BY <1>0, <3>1
    <3> QED BY <3>1, <3>2
  <2>2. ASSUME n - 1 \in H, n \notin H PROVE n \in EndsOf(H)
    <3>1. (n - 1) + 1 = n
      OBVIOUS
    <3> QED BY <2>2, <3>1 DEF EndsOf
  <2> QED BY <2>1, <2>2
<1>5. \A n \in Nat : n \in StartsOf(H) <=> n \in H /\ n - 1 \notin H
  BY DEF StartsOf
<1>6. H \subseteq Int /\ StartsOf(H) \subseteq Nat \ {0}
  <2>1. \A i \in H : i \in Int /\ i \in Nat \ {0}
    BY <1>0
  <2> QED BY <2>1, Zenon DEF StartsOf
<1>7. EndsOf(H) \subseteq Nat \ {0}
  BY <1>2
<1> QED BY <1>1, <1>2, <1>3, <1>4, <1>5, <1>6, <1>7

\* Up to any reading, one gap more has begun than ended if the reading is missing, and as
\* many otherwise.
LEMMA Balance ==
    ASSUME NEW L \in Nat, NEW H, H \subseteq 1..L
    PROVE  \A n \in Nat :
              Count(StartsOf(H), n) = Count(EndsOf(H), n) + (IF n \in H THEN 1 ELSE 0)
PROOF
<1> DEFINE A == StartsOf(H)
           E == EndsOf(H)
           P(n) == Count(A, n) = Count(E, n) + (IF n \in H THEN 1 ELSE 0)
           T == {n \in Nat : ~P(n)}
<1>1. /\ IsFiniteSet(A) /\ A \subseteq Nat \ {0} /\ IsFiniteSet(E) /\ E \subseteq Nat \ {0}
      /\ \A n \in Nat : n \in A <=> n \in H /\ n - 1 \notin H
      /\ \A n \in Nat : n \in E <=> n - 1 \in H /\ n \notin H
  BY EdgesAre
<1> HIDE DEF A, E
<1>2. A \subseteq Int /\ E \subseteq Int
  BY <1>1
<1>3. P(0)
  <2>1. ASSUME NEW S, S \subseteq Nat \ {0} PROVE UpTo(S, 0) = {}
    <3>1. \A i \in S : ~(i <= 0)
      BY <2>1
    <3> QED BY <3>1, Zenon DEF UpTo
  <2>2. Count(A, 0) = 0 /\ Count(E, 0) = 0
    BY <1>1, <2>1, FS_EmptySet DEF Count
  <2> QED BY <2>2
<1>4. ASSUME NEW n \in Nat, n # 0, P(n - 1) PROVE P(n)
  <2>1. n \in Int /\ n - 1 \in Int
    OBVIOUS
  <2>2. /\ n \in A    => Count(A, n) = Count(A, n - 1) + 1
        /\ n \notin A => Count(A, n) = Count(A, n - 1)
        /\ Count(A, n) \in Nat /\ Count(A, n - 1) \in Nat
    BY <1>1, <1>2, <2>1, CountIs
  <2>3. /\ n \in E    => Count(E, n) = Count(E, n - 1) + 1
        /\ n \notin E => Count(E, n) = Count(E, n - 1)
        /\ Count(E, n) \in Nat /\ Count(E, n - 1) \in Nat
    BY <1>1, <1>2, <2>1, CountIs
  <2>4. (n \in A <=> n \in H /\ n - 1 \notin H) /\ (n \in E <=> n - 1 \in H /\ n \notin H)
    BY <1>1
  <2> QED BY <1>4, <2>2, <2>3, <2>4
<1>5. T = {}
  <2> SUFFICES ASSUME T # {} PROVE FALSE
    OBVIOUS
  <2> HIDE DEF P
  <2>1. PICK n \in T : \A m \in T : n <= m
    <3>1. T \subseteq Nat
      OBVIOUS
    <3> HIDE DEF T
    <3> QED BY <3>1, LeastNat
  <2>2. n \in Nat /\ ~P(n)
    OBVIOUS
  <2>3. n # 0
    BY <1>3, <2>2
  <2>4. n - 1 \in Nat /\ n - 1 \notin T
    BY <2>1, <2>2, <2>3
  <2> QED BY <1>4, <2>2, <2>3, <2>4
<1> QED BY <1>5 DEF A, E

\* The k-th gap begins at the k-th start and ends before the k-th end (zip).
LEMMA Matched ==
    ASSUME NEW L \in Nat, NEW H, H \subseteq 1..L
    PROVE  LET a == Ascending(StartsOf(H))
               e == Ascending(EndsOf(H))
               K == Cardinality(StartsOf(H))
           IN  /\ Cardinality(EndsOf(H)) = K
               /\ \A k \in 1..K : a[k] < e[k] /\ <<a[k], e[k] - 1>> \in RunsOf(H)
               /\ \A r \in RunsOf(H) : \E k \in 1..K : r = <<a[k], e[k] - 1>>
PROOF
<1> DEFINE A == StartsOf(H)
           E == EndsOf(H)
           a == Ascending(A)
           e == Ascending(E)
           K == Cardinality(A)
<1>1. /\ IsFiniteSet(A) /\ A \subseteq Nat \ {0} /\ IsFiniteSet(E) /\ E \subseteq Nat \ {0}
      /\ \A n \in Nat : n \in A <=> n \in H /\ n - 1 \notin H
      /\ \A n \in Nat : n \in E <=> n - 1 \in H /\ n \notin H
      /\ E \subseteq 1..(L + 1)
  BY EdgesAre
<1>2. \A n \in Nat : Count(A, n) = Count(E, n) + (IF n \in H THEN 1 ELSE 0)
  BY Balance
<1>3. A \subseteq H
  BY DEF StartsOf
<1> HIDE DEF A, E
<1>4. A \subseteq Int /\ E \subseteq Int /\ \A i \in H : i \in Nat /\ 1 <= i /\ i <= L
  BY <1>1
<1>5. \A n \in Nat : Count(A, n) \in Nat /\ Count(E, n) \in Nat
  <2> TAKE n \in Nat
  <2>1. n \in Int
    OBVIOUS
  <2> QED BY <1>1, <1>4, <2>1, CountIs, Zenon
<1>6. \A m, n \in Nat : m <= n =>
         /\ Count(A, m) <= Count(A, n)
         /\ Count(A, m) = Count(A, n) => \A i \in A : ~(m < i /\ i <= n)
  <2> TAKE m, n \in Nat
  <2>1. m \in Int /\ n \in Int
    OBVIOUS
  <2> QED BY <1>1, <1>4, <2>1, CountGrows, Zenon
<1>7. \A m, n \in Nat : m <= n =>
         /\ Count(E, m) <= Count(E, n)
         /\ Count(E, m) = Count(E, n) => \A i \in E : ~(m < i /\ i <= n)
  <2> TAKE m, n \in Nat
  <2>1. m \in Int /\ n \in Int
    OBVIOUS
  <2> QED BY <1>1, <1>4, <2>1, CountGrows, Zenon
<1>8. Cardinality(E) = K
  <2>1. \A i \in A : i <= L + 1
    BY <1>3, <1>4
  <2>2. \A i \in E : i <= L + 1
    BY <1>1
  <2>3. UpTo(A, L + 1) = A /\ UpTo(E, L + 1) = E
    BY <2>1, <2>2, Zenon DEF UpTo
  <2>4. L + 1 \in Nat /\ L + 1 \notin H
    BY <1>4
  <2>5. Count(A, L + 1) = Count(E, L + 1) + 0 /\ Count(E, L + 1) \in Nat
    BY <1>2, <1>5, <2>4
  <2> QED BY <2>3, <2>5 DEF Count
<1>9. /\ K \in Nat
      /\ \A k \in 1..K : a[k] \in A /\ Count(A, a[k]) = k
      /\ \A i \in A : Count(A, i) \in 1..K /\ a[Count(A, i)] = i
  <2>1. a \in [1..K -> A]
    BY <1>1, AscendingIs, Zenon
  <2>2. /\ K \in Nat /\ \A k \in 1..K : Count(A, a[k]) = k
        /\ \A i \in A : Count(A, i) \in 1..K /\ a[Count(A, i)] = i
    BY <1>1, AscendingIs, Zenon
  <2> QED BY <2>1, <2>2
<1>10. /\ \A k \in 1..K : e[k] \in E /\ Count(E, e[k]) = k
       /\ \A i \in E : Count(E, i) \in 1..K /\ e[Count(E, i)] = i
  <2>1. e \in [1..Cardinality(E) -> E]
    BY <1>1, AscendingIs, Zenon
  <2>2. /\ \A k \in 1..Cardinality(E) : Count(E, e[k]) = k
        /\ \A i \in E : Count(E, i) \in 1..Cardinality(E) /\ e[Count(E, i)] = i
    BY <1>1, AscendingIs, Zenon
  <2> QED BY <1>8, <2>1, <2>2
<1> HIDE DEF a, e, K
<1>11. ASSUME NEW k \in 1..K PROVE a[k] < e[k] /\ <<a[k], e[k] - 1>> \in RunsOf(H)
  <2>1. /\ a[k] \in A /\ Count(A, a[k]) = k /\ a[k] \in Nat /\ a[k] \in H /\ a[k] - 1 \notin H
    BY <1>1, <1>3, <1>9
  <2>2. /\ e[k] \in E /\ Count(E, e[k]) = k /\ e[k] \in Nat /\ e[k] - 1 \in H /\ e[k] \notin H
    BY <1>1, <1>10
  <2>3. k \in Nat /\ Count(A, e[k]) = k
    BY <1>2, <1>9, <2>2
  <2>4. a[k] < e[k]
    <3>1. a[k] # e[k]
      BY <2>1, <2>2
    <3>2. ~(e[k] < a[k])
      BY <1>6, <2>1, <2>2, <2>3
    <3> QED BY <2>1, <2>2, <3>1, <3>2
  <2>5. ASSUME NEW n \in a[k]..(e[k] - 1) PROVE n \in H
    <3>1. n \in Nat /\ a[k] <= n /\ n <= e[k] /\ n < e[k]
      BY <2>1, <2>2
    <3>2. Count(A, n) = k
      <4>1. Count(A, a[k]) <= Count(A, n) /\ Count(A, n) <= Count(A, e[k])
        BY <1>6, <2>1, <2>2, <3>1
      <4> QED BY <1>5, <2>1, <2>3, <3>1, <4>1
    <3>3. Count(E, n) # k
      BY <1>7, <2>2, <3>1
    <3> QED BY <1>2, <1>5, <3>1, <3>2, <3>3
  <2>6. (e[k] - 1) + 1 = e[k] /\ a[k] <= e[k] - 1
    BY <2>1, <2>2, <2>4
  <2> QED BY <2>1, <2>2, <2>4, <2>5, <2>6 DEF RunsOf
<1>12. ASSUME NEW r \in RunsOf(H) PROVE \E k \in 1..K : r = <<a[k], e[k] - 1>>
  <2> DEFINE p == r[1]
             q == r[2]
  <2>1. /\ r = <<p, q>> /\ p \in H /\ q \in H /\ p <= q /\ p..q \subseteq H
        /\ p - 1 \notin H /\ q + 1 \notin H
    BY DEF RunsOf
  <2> HIDE DEF p, q
  <2>2. p \in Nat /\ q \in Nat /\ q + 1 \in Nat /\ (q + 1) - 1 = q
    BY <1>4, <2>1
  <2>3. p \in A /\ q + 1 \in E
    BY <1>1, <2>1, <2>2
  <2>4. \A i \in A : ~(p < i /\ i <= q + 1)
    <3> SUFFICES ASSUME NEW i \in A, p < i, i <= q + 1 PROVE FALSE
      OBVIOUS
    <3>1. i \in H /\ i \in Nat /\ i - 1 \notin H
      BY <1>1, <1>3
    <3>2. i # q + 1
      BY <2>1, <3>1
    <3>3. i - 1 \in p..q
      BY <2>2, <3>1, <3>2
    <3> QED BY <2>1, <3>1, <3>3
  <2>5. Count(A, p) = Count(A, q + 1)
    <3>1. p \in Int /\ q + 1 \in Int /\ p <= q + 1
      BY <2>1, <2>2
    <3> QED BY <1>4, <2>4, <3>1, CountBlank
  <2>6. Count(A, q + 1) = Count(E, q + 1)
    BY <1>2, <1>5, <2>1, <2>2
  <2>7. a[Count(A, p)] = p /\ e[Count(A, p)] = q + 1 /\ Count(A, p) \in 1..K
    BY <1>9, <1>10, <2>3, <2>5, <2>6
  <2> QED BY <2>1, <2>2, <2>7
<1> QED BY <1>8, <1>11, <1>12 DEF a, e, K, A, E

LEMMA TotalIs ==
    ASSUME NEW gaps, Len(gaps) \in Nat, NEW g, g = [n \in 0..Len(gaps) |-> g[n]],
           g[0] = 0, \A n \in 1..Len(gaps) : g[n] = g[n - 1] + gaps[n]
    PROVE  Total(gaps) = g[Len(gaps)]
PROOF
<1> DEFINE K == Len(gaps)
           F(f) == [n \in 0..K |-> IF n = 0 THEN 0 ELSE f[n - 1] + gaps[n]]
           u == CHOOSE f : f = F(f)
           T == {n \in 0..K : u[n] # g[n]}
<1>1. g = F(g)
  <2>1. \A n \in 0..K : g[n] = IF n = 0 THEN 0 ELSE g[n - 1] + gaps[n]
    <3> TAKE n \in 0..K
    <3>1. n = 0 \/ n \in 1..K
      OBVIOUS
    <3> QED BY <3>1
  <2> QED BY <2>1
<1>2. u = F(u)
  BY <1>1
<1>3. Total(gaps) = u[K]
  BY DEF Total
<1> HIDE DEF u
<1>4. \A n \in 0..K : u[n] = IF n = 0 THEN 0 ELSE u[n - 1] + gaps[n]
  BY <1>2
<1>5. T = {}
  <2> SUFFICES ASSUME T # {} PROVE FALSE
    OBVIOUS
  <2>1. T \subseteq Nat
    OBVIOUS
  <2>2. PICK n \in T : \A m \in T : n <= m
    <3> HIDE DEF T
    <3> QED BY <2>1, LeastNat
  <2>3. n \in 0..K /\ u[n] # g[n]
    BY <2>2
  <2>4. n # 0
    BY <1>4, <2>3
  <2>5. n \in 1..K /\ n - 1 \in 0..K /\ ~(n <= n - 1)
    BY <2>3, <2>4
  <2>6. u[n - 1] = g[n - 1]
    BY <2>2, <2>5
  <2> QED BY <1>4, <2>3, <2>4, <2>5, <2>6
<1> QED BY <1>3, <1>5

\* The gaps have as many readings together as are missing.
LEMMA GapsAddUp ==
    ASSUME NEW L \in Nat, NEW H, H \subseteq 1..L
    PROVE  LET a == Ascending(StartsOf(H))
               e == Ascending(EndsOf(H))
           IN  Total([k \in 1..Cardinality(StartsOf(H)) |-> e[k] - a[k]]) = Cardinality(H)
PROOF
<1> DEFINE A == StartsOf(H)
           E == EndsOf(H)
           a == Ascending(A)
           e == Ascending(E)
           K == Cardinality(A)
           gaps == [k \in 1..K |-> e[k] - a[k]]
           g == [k \in 0..K |-> IF k = 0 THEN 0 ELSE Count(H, e[k] - 1)]
<1>1. /\ IsFiniteSet(H) /\ H \subseteq Int
      /\ IsFiniteSet(A) /\ A \subseteq Nat \ {0} /\ IsFiniteSet(E) /\ E \subseteq Nat \ {0}
  BY EdgesAre
<1>2. \A n \in Nat : Count(A, n) = Count(E, n) + (IF n \in H THEN 1 ELSE 0)
  BY Balance
<1>3. /\ Cardinality(E) = K
      /\ \A k \in 1..K : a[k] < e[k] /\ <<a[k], e[k] - 1>> \in RunsOf(H)
  BY Matched
<1> HIDE DEF A, E
<1>4. A \subseteq Int /\ E \subseteq Int /\ \A i \in H : i \in Nat /\ 1 <= i
  BY <1>1
<1>5. \A n \in Nat : Count(A, n) \in Nat /\ Count(E, n) \in Nat
  <2> TAKE n \in Nat
  <2>1. n \in Int
    OBVIOUS
  <2> QED BY <1>1, <1>4, <2>1, CountIs, Zenon
<1>6. \A m, n \in Nat : m <= n =>
         /\ Count(A, m) <= Count(A, n)
         /\ Count(A, m) = Count(A, n) => \A i \in A : ~(m < i /\ i <= n)
  <2> TAKE m, n \in Nat
  <2>1. m \in Int /\ n \in Int
    OBVIOUS
  <2> QED BY <1>1, <1>4, <2>1, CountGrows, Zenon
<1>7. \A m, n \in Nat : m <= n => Count(E, m) <= Count(E, n)
  <2> TAKE m, n \in Nat
  <2>1. m \in Int /\ n \in Int
    OBVIOUS
  <2> QED BY <1>1, <1>4, <2>1, CountGrows, Zenon
<1>8. K \in Nat /\ \A k \in 1..K : a[k] \in Nat /\ a[k] \in A /\ Count(A, a[k]) = k
  <2>1. a \in [1..K -> A]
    BY <1>1, AscendingIs, Zenon
  <2>2. K \in Nat /\ \A k \in 1..K : Count(A, a[k]) = k
    BY <1>1, AscendingIs, Zenon
  <2> QED BY <1>1, <2>1, <2>2
<1>9. \A k \in 1..K : e[k] \in Nat /\ e[k] # 0 /\ Count(E, e[k]) = k
  <2>1. e \in [1..Cardinality(E) -> E]
    BY <1>1, AscendingIs, Zenon
  <2>2. \A k \in 1..Cardinality(E) : Count(E, e[k]) = k
    BY <1>1, AscendingIs, Zenon
  <2> QED BY <1>1, <1>3, <2>1, <2>2
<1> HIDE DEF a, e, K
<1>10. DOMAIN gaps = 1..K /\ Len(gaps) = K
  BY <1>8
<1>11. ASSUME NEW k \in 1..K PROVE g[k] = g[k - 1] + gaps[k]
  <2>1. /\ k \in Nat /\ k # 0 /\ k - 1 \in 0..K /\ a[k] < e[k] /\ <<a[k], e[k] - 1>> \in RunsOf(H)
        /\ a[k] \in Nat /\ e[k] \in Nat /\ Count(A, a[k]) = k /\ a[k] \in A
    BY <1>3, <1>8, <1>9
  <2>2. Count(H, e[k] - 1) = Count(H, a[k] - 1) + (e[k] - a[k])
    <3>1. a[k]..(e[k] - 1) \subseteq H
      BY <2>1 DEF RunsOf
    <3>2. a[k] \in Int /\ e[k] - 1 \in Int /\ a[k] <= e[k] - 1 /\ (e[k] - 1) - a[k] + 1 = e[k] - a[k]
      BY <2>1
    <3>3. Count(H, e[k] - 1) = Count(H, a[k] - 1) + ((e[k] - 1) - a[k] + 1)
      BY <1>1, <3>1, <3>2, CountRun, Zenon
    <3> QED BY <3>2, <3>3, Zenon
  <2>3. ASSUME NEW n \in Nat, n < a[k] PROVE Count(A, n) < k /\ (Count(E, n) >= k - 1 => n \notin H)
    <3>1. Count(A, n) <= k /\ Count(A, n) # k
      BY <1>6, <2>1, <2>3
    <3> QED BY <1>2, <1>5, <2>1, <2>3, <3>1
  <2>4. CASE k = 1
    <3>1. \A i \in H : ~(i <= a[k] - 1)
      <4> SUFFICES ASSUME NEW i \in H, i <= a[k] - 1 PROVE FALSE
        OBVIOUS
      <4>1. i \in Nat /\ i < a[k] /\ Count(E, i) >= k - 1
        BY <1>4, <1>5, <2>1, <2>4
      <4> QED BY <2>3, <4>1
    <3>2. UpTo(H, a[k] - 1) = {}
      BY <3>1, Zenon DEF UpTo
    <3>3. Count(H, a[k] - 1) = 0
      BY <3>2, FS_EmptySet DEF Count
    <3>4. g[k] = Count(H, e[k] - 1) /\ g[k - 1] = 0 /\ gaps[k] = e[k] - a[k]
      BY <1>8, <2>1, <2>4
    <3> QED BY <2>2, <3>3, <3>4
  <2>5. CASE k # 1
    <3>1. k - 1 \in 1..K
      BY <2>1, <2>5
    <3>2. e[k - 1] \in Nat /\ e[k - 1] # 0 /\ Count(E, e[k - 1]) = k - 1 /\ e[k - 1] - 1 \in H
      BY <1>3, <1>9, <3>1 DEF RunsOf
    <3>3. e[k - 1] <= a[k]
      <4>1. Count(E, a[k]) <= k /\ (a[k] \in H)
        BY <1>2, <1>5, <2>1 DEF RunsOf
      <4>2. Count(E, a[k]) = k - 1
        BY <1>2, <1>5, <2>1, <4>1
      <4>3. e[k - 1] # 0 /\ (e[k - 1] > a[k] => Count(A, e[k - 1]) >= k)
        BY <1>6, <2>1, <3>2
      <4>4. e[k - 1] \notin H
        <5>1. (e[k - 1] - 1) + 1 = e[k - 1]
          BY <3>2
        <5> QED BY <1>3, <3>1, <5>1 DEF RunsOf
      <4>5. Count(A, e[k - 1]) = k - 1
        BY <1>2, <1>5, <3>2, <4>4, <2>1
      <4> QED BY <2>1, <3>2, <4>3, <4>5
    <3>4. \A i \in H : ~(e[k - 1] - 1 < i /\ i <= a[k] - 1)
      <4> SUFFICES ASSUME NEW i \in H, e[k - 1] - 1 < i, i <= a[k] - 1 PROVE FALSE
        OBVIOUS
      <4>1. i \in Nat /\ i < a[k] /\ e[k - 1] <= i
        BY <1>4, <2>1, <3>2
      <4>2. Count(E, i) >= k - 1
        BY <1>7, <3>2, <4>1
      <4> QED BY <2>3, <4>1, <4>2
    <3>5. Count(H, e[k - 1] - 1) = Count(H, a[k] - 1)
      <4>1. e[k - 1] - 1 \in Int /\ a[k] - 1 \in Int /\ e[k - 1] - 1 <= a[k] - 1
        BY <2>1, <3>2, <3>3
      <4> QED BY <1>1, <3>4, <4>1, CountBlank, Zenon
    <3>6. g[k] = Count(H, e[k] - 1) /\ g[k - 1] = Count(H, e[k - 1] - 1) /\ gaps[k] = e[k] - a[k]
      BY <2>1, <3>1
    <3> QED BY <2>2, <3>5, <3>6
  <2> QED BY <2>4, <2>5
<1>12. Total(gaps) = g[K]
  <2>1. g = [n \in 0..K |-> g[n]] /\ g[0] = 0
    BY <1>8
  <2> HIDE DEF g, gaps
  <2> QED BY <1>8, <1>10, <1>11, <2>1, TotalIs
<1>13. g[K] = Cardinality(H)
  <2>1. CASE K = 0
    <3>1. \A n \in Nat : Count(A, n) = 0
      <4>1. A = {}
        BY <1>1, <2>1, FS_EmptySet DEF K
      <4>2. \A n \in Nat : UpTo(A, n) = {}
        BY <4>1 DEF UpTo
      <4> QED BY <4>2, FS_EmptySet DEF Count
    <3>2. H = {}
      BY <1>2, <1>4, <1>5, <3>1
    <3> QED BY <2>1, <3>2, FS_EmptySet
  <2>2. CASE K # 0
    <3>1. K \in 1..K /\ e[K] \in Nat /\ Count(E, e[K]) = K
      BY <1>8, <1>9, <2>2
    <3>2. \A n \in Nat : Count(A, n) <= K
      <4>1. \A n \in Nat : UpTo(A, n) \subseteq A
        BY DEF UpTo
      <4> QED BY <1>1, <4>1, FS_Subset DEF Count, K
    <3>3. \A i \in H : i <= e[K] - 1
      <4> SUFFICES ASSUME NEW i \in H, ~(i <= e[K] - 1) PROVE FALSE
        OBVIOUS
      <4>1. i \in Nat /\ e[K] <= i
        BY <1>4, <3>1
      <4>2. Count(E, i) >= K /\ Count(A, i) <= K
        BY <1>7, <3>1, <3>2, <4>1
      <4> QED BY <1>2, <1>5, <1>8, <4>1, <4>2
    <3>4. UpTo(H, e[K] - 1) = H
      BY <3>3, Zenon DEF UpTo
    <3> QED BY <2>2, <3>1, <3>4 DEF Count
  <2> QED BY <2>1, <2>2
<1> QED BY <1>12, <1>13 DEF a, e, K, A, E

\* missing_gap_lengths and missing_summary: what is told of a column's gaps are its runs of
\* missing readings.
LEMMA SummaryIs ==
    ASSUME NEW x, x \in Seq(Range(x))
    PROVE  LET hole == DOMAIN x \ Present(x)
               told == MissingSummary(x)
           IN  /\ told.n_gaps = Cardinality(RunsOf(hole))
               /\ told.total_gap = Cardinality(hole) /\ told.missing = Cardinality(hole)
               /\ told.max_gap = Max({r[2] - r[1] + 1 : r \in RunsOf(hole)} \cup {0})
PROOF
<1> DEFINE H == DOMAIN x \ Present(x)
           L == Len(x)
           A == StartsOf(H)
           E == EndsOf(H)
           a == Ascending(A)
           e == Ascending(E)
           K == Cardinality(A)
           gaps == [k \in 1..K |-> e[k] - a[k]]
           M == {r[2] - r[1] + 1 : r \in RunsOf(H)}
<1>1. L \in Nat /\ DOMAIN x = 1..L /\ H \subseteq 1..L
  OBVIOUS
<1>2. GapStarts(x) = A
  <2>1. \A i \in H : (i = 1 \/ i - 1 \in Present(x)) <=> i - 1 \notin H
    BY <1>1 DEF Present
  <2> QED BY <2>1, Zenon DEF GapStarts, StartsOf
<1>3. GapEnds(x) = E
  <2>1. \A i \in H : (i = Len(x) \/ i + 1 \in Present(x)) <=> i + 1 \notin H
    BY <1>1 DEF Present
  <2>2. {i \in H : i = Len(x) \/ i + 1 \in Present(x)} = {i \in H : i + 1 \notin H}
    BY <2>1
  <2> QED BY <2>2, Zenon DEF GapEnds, EndsOf
<1>4. /\ IsFiniteSet(A) /\ A \subseteq Nat \ {0} /\ IsFiniteSet(E) /\ E \subseteq Nat \ {0}
  BY <1>1, EdgesAre
<1>5. /\ Cardinality(E) = K
      /\ \A k \in 1..K : a[k] < e[k] /\ <<a[k], e[k] - 1>> \in RunsOf(H)
      /\ \A r \in RunsOf(H) : \E k \in 1..K : r = <<a[k], e[k] - 1>>
  BY <1>1, Matched, Zenon
<1>6. Total(gaps) = Cardinality(H)
  BY <1>1, GapsAddUp, Zenon
<1>7. /\ K \in Nat /\ Len(a) = K /\ a \in [1..K -> A]
      /\ \A k \in 1..K : Count(A, a[k]) = k
  BY <1>4, AscendingIs, Zenon
<1>8. Len(e) = K /\ e \in [1..K -> E]
  BY <1>4, <1>5, AscendingIs, Zenon
<1> HIDE DEF A, E, H, L
<1>9. \A k \in 1..K : a[k] \in Nat /\ e[k] \in Nat /\ e[k] - a[k] \in Nat \ {0}
  <2>1. \A k \in 1..K : a[k] \in Nat /\ e[k] \in Nat
    BY <1>4, <1>7, <1>8
  <2>2. \A i, j \in Nat : i < j => j - i \in Nat \ {0}
    OBVIOUS
  <2> QED BY <1>5, <2>1, <2>2, Zenon
<1> HIDE DEF a, e, K
<1>10. GapLengths(x) = gaps
  <2>1. GapLengths(x) = [k \in 1..Min({Len(a), Len(e)}) |-> e[k] - a[k]]
    BY <1>2, <1>3, Zenon DEF GapLengths, a, e
  <2>2. Min({K, K}) = K
    BY <1>7 DEF Min
  <2> QED BY <1>7, <1>8, <2>1, <2>2
<1>11. DOMAIN gaps = 1..K /\ Len(gaps) = K /\ \A k \in 1..K : gaps[k] = e[k] - a[k]
  BY <1>7
<1>12. Cardinality(RunsOf(H)) = K
  <2> DEFINE run == [k \in 1..K |-> <<a[k], e[k] - 1>>]
  <2>1. \A k, l \in 1..K : run[k] = run[l] => k = l
    BY <1>7
  <2>2. run \in Bijection(1..K, RunsOf(H))
    <3>1. run \in [1..K -> RunsOf(H)]
      BY <1>5
    <3>2. \A r \in RunsOf(H) : \E k \in 1..K : run[k] = r
      BY <1>5
    <3> QED BY <2>1, <3>1, <3>2 DEF Bijection, Injection, Surjection, IsInjective
  <2>3. IsFiniteSet(1..K) /\ Cardinality(1..K) = K
    BY <1>7, FS_Interval
  <2>4. ExistsBijection(1..K, RunsOf(H))
    BY <2>2, Zenon DEF ExistsBijection
  <2>5. Cardinality(RunsOf(H)) = Cardinality(1..K)
    BY ONLY <2>3, <2>4, FS_Bijection
  <2> QED BY <2>3, <2>5
<1>13. M = Range(gaps)
  <2>1. ASSUME NEW k \in 1..K PROVE gaps[k] \in M
    <3> DEFINE r == <<a[k], e[k] - 1>>
    <3>1. r \in RunsOf(H)
      BY <1>5
    <3>2. r[2] - r[1] + 1 = gaps[k]
      BY <1>9, <1>11
    <3> QED BY <3>1, <3>2
  <2>2. ASSUME NEW r \in RunsOf(H) PROVE \E k \in 1..K : gaps[k] = r[2] - r[1] + 1
    <3>1. PICK k \in 1..K : r = <<a[k], e[k] - 1>>
      BY <1>5
    <3>2. r[2] - r[1] + 1 = gaps[k]
      BY <1>9, <1>11, <3>1
    <3> QED BY <3>2
  <2> QED BY <1>11, <2>1, <2>2 DEF Range
<1>14. (IF gaps = <<>> THEN 0 ELSE Max(Range(gaps))) = Max(M \cup {0})
  <2>1. IsFiniteSet(M) /\ \A y \in M : y \in Nat \ {0}
    <3> DEFINE len == [k \in 1..K |-> gaps[k]]
    <3>1. len \in Surjection(1..K, M)
      BY <1>11, <1>13 DEF Surjection, Range
    <3>2. IsFiniteSet(1..K)
      BY <1>7, FS_Interval
    <3>3. IsFiniteSet(M)
      BY <3>1, <3>2, FS_Surjection
    <3>4. \A y \in M : y \in Nat \ {0}
      BY <1>9, <1>11, <1>13 DEF Range
    <3> QED BY <3>3, <3>4
  <2> HIDE DEF M
  <2>2. CASE gaps = <<>>
    <3>1. M = {}
      BY <1>13, <2>2 DEF Range
    <3>2. Max({0}) = 0
      BY DEF Max
    <3> QED BY <2>2, <3>1, <3>2
  <2>3. CASE gaps # <<>>
    <3>1. M # {}
      <4>1. K # 0
        BY <1>11, <2>3
      <4>2. 1 \in 1..K
        BY <1>7, <4>1
      <4> QED BY <1>11, <1>13, <4>2 DEF Range
    <3>2. Max(M) \in M /\ \A y \in M : Max(M) >= y
      BY <2>1, <3>1, FirstAndLast
    <3>3. /\ Max(M) \in M \cup {0} /\ Max(M) \in Nat
          /\ \A y \in M \cup {0} : y \in Nat /\ Max(M) >= y
      BY <2>1, <3>2
    <3>4. \A y \in M \cup {0} : (\A z \in M \cup {0} : y >= z) => y = Max(M)
      BY <3>3
    <3>5. Max(M \cup {0}) = Max(M)
      BY <3>3, <3>4 DEF Max
    <3> QED BY <1>13, <2>3, <3>5
  <2> QED BY <2>2, <2>3
<1> HIDE DEF M, gaps
<1>15. MissingSummary(x) =
          [missing |-> Cardinality(H), n_gaps |-> Len(gaps), total_gap |-> Total(gaps),
           max_gap |-> IF gaps = <<>> THEN 0 ELSE Max(Range(gaps))]
  BY <1>10, Zenon DEF MissingSummary, H
<1>16. /\ MissingSummary(x).missing = Cardinality(H) /\ MissingSummary(x).n_gaps = Len(gaps)
       /\ MissingSummary(x).total_gap = Total(gaps)
       /\ MissingSummary(x).max_gap = IF gaps = <<>> THEN 0 ELSE Max(Range(gaps))
  BY <1>15
<1> QED BY <1>6, <1>11, <1>12, <1>14, <1>16 DEF H, M

ReportInv ==
    report # None =>
        \E R \in RealSamples, raised \in SUBSET RealKpis :
            /\ report.synth \in SynthSamples
            /\ report.single = ValidateSingle(R, report.synth, raised)

\* A column without a reading has no metric.
LEMMA NothingToCompare ==
    ASSUME NEW r, NEW s, Present(s) = {}
    PROVE  ComputeSingleMetrics(r, s) = {}
PROOF
<1>1. Cardinality(Present(s)) = 0
  BY FS_EmptySet
<1>2. ~Wasserstein(r, s) /\ ~Mmd(r, s) /\ ~SpectrumDistance(r, s) /\ ~JensenShannon(r, s)
  BY <1>1 DEF Wasserstein, Mmd, Both, SpectrumDistance, LombScargle, JensenShannon, KdeCurves
<1>3. ~AcfDistance(r, s) /\ ~HourlyProfileRmse(r, s)
  BY DEF AcfDistance, Acf, HourlyProfileRmse, HourlyProfile
<1> QED BY <1>2, <1>3, Zenon DEF ComputeSingleMetrics, Where

LEMMA ReportTold ==
    ASSUME RunDataSimilarity
    PROVE  ReportInv'
PROOF
<1>1. PICK R \in RealSamples, S \in SynthSamples, raised \in SUBSET ValidKpis :
         \E multi \in {ValidateMulti(R, S, ValidKpis), {}} :
            report' = [synth |-> S, multi |-> multi,
                       single |-> ValidateSingle(R, S, ValidKpis \ raised)]
  BY Zenon DEF RunDataSimilarity
<1>2. report'.synth = S /\ report'.single = ValidateSingle(R, S, ValidKpis \ raised)
  BY <1>1
<1>3. ValidKpis \ raised \in SUBSET RealKpis
  BY DEF ValidKpis
<1>4. report'.single = ValidateSingle(R, report'.synth, ValidKpis \ raised)
  BY <1>2
<1> QED BY <1>2, <1>3, <1>4, Zenon DEF ReportInv

\* run_data_similarity: whatever the columns, what the summary says of the gaps of one is
\* true, and where a column has no reading there is no metric.
THEOREM SummaryHolds == Spec => []SummaryIsHonest
PROOF
<1>1. Init => ReportInv
  BY DEF Init, ReportInv
<1>2. ReportInv /\ [Next]_vars => ReportInv'
  <2> SUFFICES ASSUME ReportInv, [Next]_vars PROVE ReportInv'
    OBVIOUS
  <2>1. report' = report \/ RunDataSimilarity
    BY DEF Next, SimilarityFails, vars
  <2>2. CASE report' = report
    BY <2>2 DEF ReportInv
  <2> QED BY <2>1, <2>2, ReportTold
<1>3. ReportInv => SummaryIsHonest
  <2> SUFFICES ASSUME ReportInv, report # None, NEW k \in DOMAIN report.single
               PROVE  LET x    == report.synth[k]
                          hole == DOMAIN x \ Present(x)
                          told == report.single[k].synth
                      IN  /\ told.n_gaps = Cardinality(RunsOf(hole))
                          /\ told.total_gap = told.missing /\ told.missing = Cardinality(hole)
                          /\ told.max_gap = Max({r[2] - r[1] + 1 : r \in RunsOf(hole)} \cup {0})
                          /\ Present(x) = {} => report.single[k].metrics = {}
    BY Zenon DEF SummaryIsHonest, RunsOf
  <2>1. PICK R \in RealSamples, K \in SUBSET RealKpis :
           /\ report.synth \in SynthSamples
           /\ report.single = ValidateSingle(R, report.synth, K)
    BY DEF ReportInv
  <2>2. k \in K /\ k \in RealKpis
    BY <2>1 DEF ValidateSingle
  <2>3. /\ report.single[k].synth = MissingSummary(report.synth[k])
        /\ report.single[k].metrics = ComputeSingleMetrics(R[k], report.synth[k])
    BY <2>1, <2>2 DEF ValidateSingle
  <2>4. report.synth[k] \in Seq(Range(report.synth[k]))
    BY <2>1, <2>2, SimilarityAssumption
  <2>5. LET hole == DOMAIN report.synth[k] \ Present(report.synth[k])
            told == MissingSummary(report.synth[k])
        IN  /\ told.n_gaps = Cardinality(RunsOf(hole))
            /\ told.total_gap = Cardinality(hole) /\ told.missing = Cardinality(hole)
            /\ told.max_gap = Max({r[2] - r[1] + 1 : r \in RunsOf(hole)} \cup {0})
    BY <2>4, SummaryIs, Zenon
  <2>6. Present(report.synth[k]) = {} => report.single[k].metrics = {}
    BY <2>3, NothingToCompare, Zenon
  <2> QED BY <2>3, <2>5, <2>6, Zenon
<1> QED BY <1>1, <1>2, <1>3, PTL DEF Spec
=============================================================================
