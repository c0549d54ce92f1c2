----------------------------- MODULE Generation -----------------------------
(* From a run directory to generated data: the files of a training are put *)
(* into the object store, the generate DAG reads them back, rebuilds the   *)
(* network, and stores one object per cell and then the metadata.  A task  *)
(* may fail or die anywhere and is tried again once.  Betas of the noise   *)
(* schedule are in units of 1e-4.                                          *)
EXTENDS Training

CONSTANTS
    Confs,          \* [cell_id ("" for all), anchor_date, n_weeks, kpi_list] of a DAG run
    Retries,        \* 1 in the code
    NoCell,         \* ""
    ObjectName      \* cell -> what its object is called: "/" becomes "_"

ASSUME GenerationAssumption ==
    /\ Retries \in Nat
    /\ \A f \in Confs : f.n_weeks \in Nat /\ f.anchor_date \in Int \cup {None}
    \* The metadata has a name of its own.
    /\ \A c \in Configs : \A g \in Config[c].data.groups : ObjectName[g.cell] # "metadata"

VARIABLES
    bucket,         \* the model's objects: file name -> content
    gen,            \* the DAG run, or NoRun
    out             \* what it has stored under its prefix: object -> content

generationVars == <<bucket, gen, out>>

Mandatory == {"weights", "config_encoder", "cell_config_map"}
Optional  == {"arch_params", "kpi_columns"}

\* Somebody puts a model's files into the bucket and registers them; create_trained_model
\* looks for the mandatory ones only.
Publish ==
    /\ job = NoJob /\ bucket = <<>> /\ Mandatory \subseteq DOMAIN dir
    /\ \E extra \in SUBSET (Optional \cap DOMAIN dir) :
           bucket' = [f \in Mandatory \cup extra |-> dir[f]]
    /\ UNCHANGED <<gen, out>>

-----------------------------------------------------------------------------
(* load_trained_model.                                                     *)

\* What the loader takes where arch_params.json has no such key.
Defaults(version) ==
    CASE version = "gan" ->
           [latent_dim |-> 64, hidden_dim |-> 256, n_layers |-> 2, use_attention |-> TRUE,
            n_heads |-> 4, gen_use_pe |-> TRUE, critic_use_pe |-> TRUE,
            kpi_proj_activation |-> "relu", per_step_noise_dim |-> 0,
            use_minibatch_stddev |-> FALSE, use_first_diff |-> FALSE,
            output_activation |-> "sigmoid"]
      [] version = "diffusion" ->
           [num_timesteps |-> 1000, beta_schedule |-> "linear", beta_start |-> 1, beta_end |-> 200,
            output_clip |-> TRUE, width |-> 256, n_blocks |-> 12,
            dilation_cycle |-> <<1, 2, 4, 8, 16, 32, 64>>, time_embed_dim |-> 128,
            cond_embed_dim |-> 128, cond_dim |-> 0, cell_vocab_size |-> 0, cell_embed_dim |-> 16]
      [] OTHER ->
           [global_latent_dim |-> 64, local_latent_dim |-> 0, hidden_dim |-> 256, n_layers |-> 2,
            use_attention |-> TRUE, n_heads |-> 4, output_activation |-> "sigmoid"]

\* _resolve_input_dims: the KPIs count, if they are there.
FeatDim(files) ==
    IF "kpi_columns" \in DOMAIN files THEN Len(files["kpi_columns"].v)
                                      ELSE files["arch_params"].v.feat_dim

\* What arch_params.json does not say, the loader takes from its own defaults.
Filled(p, defaults) ==
    [k \in DOMAIN p \cup DOMAIN defaults |-> IF k \in DOMAIN p THEN p[k] ELSE defaults[k]]

LoadTrainedModel(files) ==
    LET a == files["arch_params"].v
        d == [seq_len |-> a.seq_len, feat_dim |-> FeatDim(files),
              y_dim |-> YDim(files["config_encoder"].v)]
    IN  Build(Filled(a.p, Defaults(a.p.arch_version)), d, a.tile_z)

\* Without arch_params.json there is no seq_len; load_weights compares shapes.
Loads(files) ==
    /\ "arch_params" \in DOMAIN files
    /\ LoadTrainedModel(files).weights = Trained[files["weights"].v.cfg].weights

-----------------------------------------------------------------------------
(* The tasks of the DAG.                                                   *)

NoRun == [conf |-> None, entry |-> None, phase |-> "none", attempt |-> 0, cause |-> None,
          files |-> <<>>, labels |-> <<>>, filter |-> <<>>, todo |-> {}, done |-> {}]

Running(phase) == gen.phase = phase

\* A failed attempt starts over, once; what it stored stays.
Again(task, cause) ==
    gen' = [gen EXCEPT !.cause = cause, !.attempt = @ + 1,
                       !.phase = IF gen.attempt <= Retries THEN task ELSE "failed"]

\* A DAG run goes through the package's main; a script may call the function itself.
Launch(conf, entry) ==
    /\ gen = NoRun /\ bucket # <<>>
    /\ gen' = [conf |-> conf, entry |-> entry, phase |-> "conf", attempt |-> 1, cause |-> None,
               files |-> <<>>, labels |-> <<>>, filter |-> <<>>, todo |-> {}, done |-> {}]
    /\ UNCHANGED <<bucket, out>>

\* prepare_conf: finalize_generate_dag_args wants an anchor and a number of weeks.
PrepareConf ==
    /\ Running("conf")
    /\ IF gen.conf.anchor_date # None /\ gen.conf.n_weeks # 0
       THEN gen' = [gen EXCEPT !.phase = "submitted", !.attempt = 1]
       ELSE Again("conf", "conf")
    /\ UNCHANGED <<bucket, out>>

\* The flags generate's parser requires, those it knows, and the DAG's own.
RequiredFlags == {"run-dir-path", "weights-path", "output-path", "cell-id", "anchor-date",
                  "n-weeks"}
GenerateFlags == RequiredFlags \cup
    {"holiday", "batch-size", "seed", "cell-configs", "seq-len", "n-dim", "global-latent-dim",
     "local-latent-dim", "hidden-dim", "n-layers", "use-attention", "n-heads",
     "free-bits-global", "free-bits-local", "output-activation", "kpi-columns-path"}
DagFlags      == {"conf-json"}

Accepts(flags) == RequiredFlags \subseteq flags /\ flags \subseteq GenerateFlags

\* main gives up on flags its parser does not know.
Main ==
    /\ Running("submitted") /\ gen.entry = "main" /\ ~Accepts(DagFlags)
    /\ Again("submitted", "flags")
    /\ UNCHANGED <<bucket, out>>

\* The cells to generate for, looked up in the map or all of it.
Targets(conf, map) == IF conf.cell_id = NoCell THEN DOMAIN map ELSE {conf.cell_id}

\* run_generation_from_conf up to the loop.  An optional file whose download fails,
\* for whatever reason, counts as absent; then the user's list names the columns.
Fetch ==
    /\ Running("submitted") /\ (gen.entry = "main" => Accepts(DagFlags))
    /\ \E lost \in SUBSET (Optional \cap DOMAIN bucket) :
        LET files == [f \in DOMAIN bucket \ lost |-> bucket[f]]
            named == "kpi_columns" \in DOMAIN files
            wish  == gen.conf.kpi_list
        IN  IF (named \/ wish # <<>>) /\ Loads(files)
            THEN gen' = [gen EXCEPT !.phase = "cells", !.files = files, !.done = {},
                                    !.labels = IF named THEN files["kpi_columns"].v ELSE wish,
                                    !.filter = IF named THEN wish ELSE <<>>,
                                    !.todo = Targets(gen.conf, files["cell_config_map"].v.map)]
            ELSE Again("submitted", "files")
    /\ UNCHANGED <<bucket, out>>

Anchors(conf) == {conf.anchor_date + k * 7 * DayHours : k \in 0..(conf.n_weeks - 1)}

\* _cell_id_to_idx: 0 for a cell the encoder does not know.
CellIdToIdx(encoder, c) == IF c \in DOMAIN encoder THEN encoder[c] ELSE 0

\* Mutant: the selection picks by position.
ColumnedByPosition(labels, trained, filter) ==
    IF filter = <<>> THEN {[label |-> labels[i], is |-> trained[i]] : i \in DOMAIN labels}
    ELSE {[label |-> filter[i], is |-> trained[i]] : i \in DOMAIN filter}

\* Each column under its label, with the KPI it is: generate_windows labels what the
\* network puts out, in order; then the selection picks by label.
Columned(labels, trained, filter) ==
    LET all == [i \in DOMAIN labels |-> [label |-> labels[i], is |-> trained[i]]]
    IN  IF filter = <<>> THEN Range(all) ELSE {c \in Range(all) : c.label \in Range(filter)}

\* generate_windows: fails for a cell that is not in the map, or when there are not as
\* many labels as columns.
GenerateWindows(conf, files, labels, filter, c) ==
    LET w == files["weights"].v
    IN  [cell    |-> c,
         rows    |-> conf.n_weeks * SeqLen,
         columns |-> Columned(labels, Loaded[w.cfg].kpis, filter),
         cell_idx |-> IF files["arch_params"].v.p.arch_version = "diffusion"
                      THEN CellIdToIdx(files["cell_config_map"].v.cell_encoder, c) ELSE 0,
         calendar |-> IF files["arch_params"].v.p.arch_version = "diffusion"
                         /\ files["arch_params"].v.p.cond_dim > 0
                      THEN BuildCalendarFeatures(Anchors(conf), "US") ELSE <<>>]

\* generate is passed the calendar and the cell index of a network that has them.
CanGenerate(c) ==
    LET p == gen.files["arch_params"].v.p
    IN  /\ c \in DOMAIN gen.files["cell_config_map"].v.map
        /\ CASE p.arch_version = "gan"       -> GeneratesGAN(FALSE, FALSE)
             [] p.arch_version = "diffusion" ->
                    GeneratesDiffusion(p, p.cond_dim > 0, p.cell_vocab_size > 0)
             [] OTHER                        -> GeneratesVAE(FALSE, FALSE)
        /\ Len(gen.labels) = FeatDim(gen.files)

\* What the metadata says of a cell.
Listed(w) == [cell |-> w.cell, key |-> ObjectName[w.cell], rows |-> w.rows]

\* Mutant: a cell that cannot be generated is listed all the same.
GenerateCellMutant ==
    /\ Running("cells") /\ gen.todo # {}
    /\ LET c == CHOOSE x \in gen.todo : TRUE
           w == GenerateWindows(gen.conf, gen.files, gen.labels, gen.filter, c)
       IN  /\ out' = IF CanGenerate(c) THEN With(out, ObjectName[c], w) ELSE out
           /\ gen' = [gen EXCEPT !.todo = @ \ {c}, !.done = @ \cup {Listed(w)}]
    /\ UNCHANGED bucket

\* One turn of the loop: the cell's windows are generated and stored, over those of a
\* cell whose object has the same name.  Cells are taken in the order of their names;
\* any fixed order does here.
GenerateCell ==
    /\ Running("cells") /\ gen.todo # {}
    /\ LET c == CHOOSE x \in gen.todo : TRUE
           w == GenerateWindows(gen.conf, gen.files, gen.labels, gen.filter, c)
       IN  IF CanGenerate(c)
           THEN /\ out' = With(out, ObjectName[c], w)
                /\ gen' = [gen EXCEPT !.todo = @ \ {c}, !.done = @ \cup {Listed(w)}]
           ELSE Again("submitted", "cell") /\ UNCHANGED out
    /\ UNCHANGED bucket

WriteMetadata ==
    /\ Running("cells") /\ gen.todo = {}
    /\ out' = With(out, "metadata", gen.done)
    /\ gen' = [gen EXCEPT !.phase = "similarity", !.attempt = 1]
    /\ UNCHANGED bucket

\* The store refuses a write, the process dies, two hours have passed.
TaskDies ==
    /\ Running("submitted") \/ Running("cells")
    /\ Again("submitted", "died")
    /\ UNCHANGED <<bucket, out>>

-----------------------------------------------------------------------------
GenerationInit == bucket = <<>> /\ gen = NoRun /\ out = <<>>

GenerationNext ==
    \/ Publish
    \/ \E conf \in Confs, entry \in {"main", "function"} : Launch(conf, entry)
    \/ PrepareConf
    \/ Main
    \/ Fetch
    \/ GenerateCell
    \/ WriteMetadata
    \/ TaskDies

-----------------------------------------------------------------------------
OfOneTraining(files) == \A f, g \in DOMAIN files : files[f].n = files[g].n

\* The files of one training load, and give the network that was trained: its shapes,
\* and what a weights file does not hold, activations, dilations, the noise schedule.
Reloadable ==
    OfOneTraining(bucket) /\ "arch_params" \in DOMAIN bucket =>
        LoadTrainedModel(bucket) = Trained[bucket["weights"].v.cfg]

\* The metadata is written last and names exactly what there is, through failed
\* attempts: it lists every cell asked for and every object stored, and the object a cell
\* is listed with has the rows it says and is the cell's own, unless another cell's
\* object has the same name.
MetadataNamesOutputs ==
    "metadata" \in DOMAIN out =>
        LET listed == out["metadata"]
        IN  /\ {o.cell : o \in listed} = Targets(gen.conf, bucket["cell_config_map"].v.map)
            /\ {o.key : o \in listed} = DOMAIN out \ {"metadata"}
            /\ \A o \in listed :
                  /\ out[o.key].rows = o.rows
                  /\ \/ out[o.key].cell = o.cell
                     \/ \E twin \in listed : twin # o /\ twin.key = o.key
                                            /\ out[o.key].cell = twin.cell

\* A stored column holds the KPI it is named for, and the columns are those the user
\* selected of the trained ones, or all.  The user's list is taken at its word when
\* kpi_columns.npy is not found, or was not, so it counts only if it was there.
ColumnsAreTrue ==
    "kpi_columns" \in DOMAIN gen.files /\ OfOneTraining(gen.files) =>
        LET kpis == Range(gen.files["kpi_columns"].v)
            wish == gen.conf.kpi_list
        IN  \A o \in gen.done :
               /\ \A c \in out[o.key].columns : c.label = c.is
               /\ {c.label : c \in out[o.key].columns} =
                     IF wish = <<>> THEN kpis ELSE Range(wish) \cap kpis

\* The run of days off that a day is in began before the table of days did.
BeganBefore(span, d) == \A e \in (Min(span) - 1)..d : OffDay("US", e)

\* A generated window is told of each of its days what a training window over the same
\* day was told: the day of the week always; holidays if the training was told of those
\* of the US, which generation takes for granted; and then whether the weekend is a long
\* one, unless its run of days off began before one of the two tables.
CalendarAgrees ==
    \A key \in DOMAIN out \ {"metadata"} :
        LET name  == gen.files["weights"].v.cfg
            then  == {w.anchor : w \in Loaded[name].windows}
            told  == BuildCalendarFeatures(then, Config[name].calendar_country)
            now   == out[key].calendar
        IN  \A a \in DOMAIN now, b \in then : \A h, k \in 0..(SeqLen - 1) :
               LET x == now[a][h]
                   y == told[b][k]
                   d == Day(a + h)
               IN  a + h = b + k =>
                     /\ x.weekday = y.weekday /\ x.weekend = y.weekend
                     /\ Config[name].calendar_country = "US" =>
                           /\ x.holiday = y.holiday /\ x.eve = y.eve
                           /\ \/ x.long = y.long
                              \/ \E s \in {CalendarSpan(then), CalendarSpan(DOMAIN now)} :
                                    BeganBefore(s, d)
=============================================================================
