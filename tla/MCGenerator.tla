----------------------------- MODULE MCGenerator -----------------------------
(* A small generator: trainings of each family, with every                  *)
(* hyper-parameter off the loader's default; two cells of one               *)
(* configuration and one of another.  A day is one hour long.               *)
EXTENDS Similarity

MCColumns     == <<"cell_id", "config_a", "k1", "k2", "k3", "window_anchor">>
MCConfigNames == {"config_a"}
MCMetaNames   == {"cell_id", "window_anchor"}

\* Day 0 is a Monday.  Days off begin on the last day of the week of anchor 3.
MCHolidays == [US |-> {9, 10, 11}]

\* Two cells share an object.
MCObjectName == [x \in {"p/1", "p_1", "c", "d"} |-> IF x = "p/1" THEN "p_1" ELSE x]

\* The last group of "p_1" lacks rows, that of "d" has a hole; k2 hardly varies.
Data == [columns |-> Range(MCColumns),
         groups  |-> {[cell |-> "p/1", anchor |-> 3, rows |-> 7, holes |-> FALSE],
                      [cell |-> "p_1", anchor |-> 3, rows |-> 7, holes |-> FALSE],
                      [cell |-> "p_1", anchor |-> 10, rows |-> 3, holes |-> FALSE],
                      [cell |-> "c", anchor |-> 10, rows |-> 7, holes |-> FALSE],
                      [cell |-> "d", anchor |-> 3, rows |-> 7, holes |-> TRUE]},
         config  |-> [x \in DOMAIN MCObjectName |-> CASE x \in {"p/1", "p_1"} -> <<"u">>
                                                     [] x = "c"             -> <<"v">>
                                                     [] x = "d"             -> <<"w">>],
         flat    |-> {"k2"}]

NoRamp == [cyclical |-> FALSE, delay |-> 0, cycle |-> 1, ratio |-> 0, cycles |-> 1, anneal |-> 1]

Off == [backend |-> "torch", data |-> Data, drop_constant_kpis |-> FALSE, use_calendar |-> FALSE,
        calendar_country |-> "US", use_cell_embedding |-> FALSE, held |-> 0, use_ema |-> FALSE,
        epochs |-> 3, patience |-> 1, kl |-> NoRamp]

V6 == [Off EXCEPT
         !.epochs = 4, !.kl = [@ EXCEPT !.delay = 1, !.anneal = 2]]
      @@ [p |-> [arch_version |-> "v6", global_latent_dim |-> 6, local_latent_dim |-> 3,
                 hidden_dim |-> 20, n_layers |-> 3, use_attention |-> FALSE, n_heads |-> 2,
                 output_activation |-> "linear"]]

V7 == [Off EXCEPT
         !.drop_constant_kpis = TRUE, !.backend = "tensorflow", !.epochs = 6, !.patience = 2,
         !.kl = [@ EXCEPT !.cyclical = TRUE, !.delay = 1, !.cycle = 2, !.ratio = 50,
                          !.cycles = 2]]
      @@ [p |-> [arch_version |-> "v7", global_latent_dim |-> 6, local_latent_dim |-> 3,
                 hidden_dim |-> 20, n_layers |-> 3, use_attention |-> TRUE, n_heads |-> 2,
                 output_activation |-> "linear"]]

GAN == [Off EXCEPT !.epochs = 2]
       @@ [p |-> [arch_version |-> "gan", latent_dim |-> 6, hidden_dim |-> 20, n_layers |-> 1,
                  use_attention |-> FALSE, n_heads |-> 2, gen_use_pe |-> FALSE,
                  critic_use_pe |-> FALSE, kpi_proj_activation |-> "linear",
                  per_step_noise_dim |-> 2, use_minibatch_stddev |-> TRUE,
                  use_first_diff |-> TRUE, output_activation |-> "linear"]]

DDPM == [Off EXCEPT
           !.use_calendar = TRUE, !.use_cell_embedding = TRUE, !.use_ema = TRUE, !.held = 90,
           !.epochs = 2]
        @@ [p |-> [arch_version |-> "diffusion", num_timesteps |-> 10, beta_schedule |-> "linear",
                   beta_start |-> 2, beta_end |-> 100, output_clip |-> FALSE, width |-> 16,
                   n_blocks |-> 3, dilation_cycle |-> <<1, 3>>, time_embed_dim |-> 8,
                   cond_embed_dim |-> 8, cond_dim |-> 0, cell_vocab_size |-> 0,
                   cell_embed_dim |-> 5]]

\* Over before its best weights are looked for.
Short == [V6 EXCEPT !.epochs = 2]

MCConfig == [v6 |-> V6, short |-> Short, v7 |-> V7, gan |-> GAN, ddpm |-> DDPM]

MCConfs == {[cell_id |-> "", anchor_date |-> 3, n_weeks |-> 1, kpi_list |-> <<"k3", "k1">>],
            [cell_id |-> "p_1", anchor_date |-> 3, n_weeks |-> 2, kpi_list |-> <<>>],
            [cell_id |-> "p_1", anchor_date |-> 3, n_weeks |-> 0, kpi_list |-> <<>>]}

MCRealKpis == {"k1", "k3", "k9"}
MCRealSamples ==
    {[k1 |-> <<1, 2, 1, 2, 1>>, k3 |-> <<Missing, 2, Missing, Missing, 1>>, k9 |-> <<1, 1>>]}

\* Gaps at the start, at the end, everywhere, nowhere.
MCSynthSamples ==
    {[k1 |-> <<2, 2, Missing, 1, 1, 2>>, k2 |-> <<1, 1>>, k3 |-> x, k9 |-> <<2>>] :
        x \in {<<Missing, 1, Missing, 2, 2, Missing>>, <<1, 2, 2, Missing, Missing>>,
               <<Missing, Missing, Missing>>, <<1, 1, 1, 1, 1>>}}
=============================================================================
