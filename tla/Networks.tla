----------------------------- MODULE Networks -------------------------------
(* The networks of the generator as their constructors lay them out: the   *)
(* set of named weights with their shapes, which is what a weights file    *)
(* can be told apart by, and what else the output depends on, which a      *)
(* weights file does not hold.  p is a record of hyper-parameters under    *)
(* the source's names, d the dimensions [seq_len, feat_dim, y_dim].        *)
(* Biases and normalisations follow the layer they belong to.              *)
EXTENDS Integers, FiniteSets, Sequences

CONSTANT MinUnits   \* min_units

ASSUME MinUnitsAssumption == MinUnits \in Nat \ {0}

PE == 4             \* HourlyPositionalEncoding: two sines, two cosines

AtLeast(n, m) == IF n > m THEN n ELSE m

Where(b, S) == IF b THEN S ELSE {}
Plus(b, n)  == IF b THEN n ELSE 0

Funnel(p)    == [i \in 1..p.n_layers |-> AtLeast(p.hidden_dim \div i, MinUnits)]
Narrowest(p) == Funnel(p)[p.n_layers]

\* A stack of LSTMs over `in` channels; a bidirectional one hands on twice its units.
Recurrent(name, p, in, twice) ==
    {<<name, i, IF i = 1 THEN in ELSE twice * Funnel(p)[i - 1], Funnel(p)[i]>> :
        i \in 1..p.n_layers}

\* MultiHeadAttention over the output of a bidirectional stack.
Attention(p) ==
    Where(p.use_attention,
          {<<"attention", 2 * Narrowest(p), p.n_heads,
             AtLeast((2 * Narrowest(p)) \div p.n_heads, 1)>>})

\* The state the decoder or generator starts in, from the latent vector.
InitialState(p, latent) == {<<"h0", latent, Funnel(p)[1]>>, <<"c0", latent, Funnel(p)[1]>>}

\* CrossKPICorrelation: one square matrix over the KPIs, no bias.
CrossKPI(d) == {<<"kpi_mix", d.feat_dim, d.feat_dim>>}

-----------------------------------------------------------------------------
(* cVAE_LSTMv6Architecture and cVAE_LSTMv7Architecture.                    *)

\* y, repeated at every hour.
Conditioning(d) == d.y_dim

EncoderV6(p, d) ==
    LET G == p.global_latent_dim
        L == p.local_latent_dim
        h == 2 * Narrowest(p)
    IN  Recurrent("encoder", p, d.feat_dim + PE, 2)
        \cup Attention(p)
        \cup {<<"h_global", h, 2 * G>>, <<"z_g_mean", 2 * G, G>>, <<"z_g_log_var", 2 * G, G>>}
        \cup Where(L > 0, {<<"z_l_mean", h, L>>, <<"z_l_log_var", h, L>>})

\* Written out once more in v7, to the same layers.
EncoderV7(p, d) == EncoderV6(p, d)

\* v6 adds the positional encoding to what conditions the decoder.
DecoderV6(p, d, tile) ==
    LET in == Conditioning(d) + p.local_latent_dim + PE + Plus(tile, p.global_latent_dim)
    IN  InitialState(p, p.global_latent_dim)
        \cup Recurrent("decoder", p, in, 1)
        \cup {<<"output", Narrowest(p), d.feat_dim>>}

\* v7 has no positional encoding here, and mixes the KPIs of an hour.
DecoderV7(p, d, tile) ==
    LET in == Conditioning(d) + p.local_latent_dim + Plus(tile, p.global_latent_dim)
    IN  InitialState(p, p.global_latent_dim)
        \cup Recurrent("decoder", p, in, 1)
        \cup {<<"kpi_proj", Narrowest(p), d.feat_dim>>}
        \cup CrossKPI(d)

BuildV6(p, d, tile) ==
    [weights |-> EncoderV6(p, d) \cup DecoderV6(p, d, tile),
     forward |-> <<"v6", d.seq_len, tile, p.output_activation>>]

BuildV7(p, d, tile) ==
    [weights |-> EncoderV7(p, d) \cup DecoderV7(p, d, tile),
     forward |-> <<"v7", d.seq_len, tile, p.output_activation>>]

-----------------------------------------------------------------------------
(* TimeGANGenerator and TimeGANCritic; both are saved.                     *)

\* The width of the channels behind each of the layers without weights.
PerStepNoiseInjection(p, width) == width + p.per_step_noise_dim
FirstDifference(p, width)       == IF p.use_first_diff THEN 2 * width ELSE width
MinibatchStddev(p, width)       == width + Plus(p.use_minibatch_stddev, 1)

GeneratorNet(p, d) ==
    LET in == PerStepNoiseInjection(p, Conditioning(d) + Plus(p.gen_use_pe, PE) + p.latent_dim)
    IN  InitialState(p, p.latent_dim)
        \cup Recurrent("generator", p, in, 1)
        \cup {<<"gen_kpi_proj", Narrowest(p), d.feat_dim>>}
        \cup CrossKPI(d)

\* The critic also sees the differences, and one scalar on the batch's spread.
CriticNet(p, d) ==
    LET in == FirstDifference(p, d.feat_dim) + Conditioning(d) + Plus(p.critic_use_pe, PE)
    IN  Recurrent("critic", p, in, 2)
        \cup Attention(p)
        \cup {<<"critic_dense", MinibatchStddev(p, 2 * Narrowest(p)), Narrowest(p)>>,
              <<"critic_score", Narrowest(p), 1>>}

BuildGAN(p, d) ==
    [weights |-> GeneratorNet(p, d) \cup CriticNet(p, d),
     forward |-> <<"gan", d.seq_len, p.kpi_proj_activation, p.output_activation>>]

-----------------------------------------------------------------------------
(* The denoiser of ConditionalDDPM.                                        *)

\* What every residual block is told: time, configuration and the cell.
CondWidth(p) == (IF p.cell_vocab_size > 0 THEN 3 ELSE 2) * p.cond_embed_dim

\* SinusoidalTimeEmbedding: as wide as asked for, odd or even.
TimeEmbedding(p) == p.time_embed_dim

ResBlock(p, i) ==
    {<<"conv1", i, p.width, p.width>>, <<"conv2", i, p.width, p.width>>,
     <<"film_scale", i, CondWidth(p), p.width>>, <<"film_shift", i, CondWidth(p), p.width>>}

Denoiser(p, d) ==
    LET C    == p.cond_embed_dim
        cell == p.cell_vocab_size > 0
        in   == d.feat_dim + Conditioning(d) + p.cond_dim + Plus(cell, p.cell_embed_dim) + PE
    IN  {<<"t_mlp1", TimeEmbedding(p), C>>, <<"t_mlp2", C, C>>, <<"y_mlp", d.y_dim, C>>,
         <<"in_proj", in, p.width>>, <<"eps_out", p.width, d.feat_dim>>}
        \cup Where(cell, {<<"cell_embedding", p.cell_vocab_size, p.cell_embed_dim>>,
                          <<"cell_mlp", p.cell_embed_dim, C>>})
        \cup UNION {ResBlock(p, i) : i \in 1..p.n_blocks}

\* The dilation of each block, and the noise schedule the sampler walks back.
Dilations(p) == [i \in 1..p.n_blocks |-> p.dilation_cycle[((i - 1) % Len(p.dilation_cycle)) + 1]]

\* The bounds of beta matter to the linear schedule only.
BetaSchedule(p) ==
    <<p.beta_schedule, p.num_timesteps>>
    \o (IF p.beta_schedule = "linear" THEN <<p.beta_start, p.beta_end>> ELSE <<>>)

\* _generate_loop: the way back through the schedule, each step clipped or not.
Sampler(p) == <<BetaSchedule(p), p.output_clip>>

BuildDiffusion(p, d) ==
    [weights |-> Denoiser(p, d),
     forward |-> <<"diffusion", d.seq_len, Dilations(p), Sampler(p)>>]

\* The inputs of the denoiser, in order.
DenoiserInputs(p) ==
    <<"x", "t", "y">> \o (IF p.cond_dim > 0 THEN <<"c">> ELSE <<>>)
                      \o (IF p.cell_vocab_size > 0 THEN <<"cell_idx">> ELSE <<>>)

-----------------------------------------------------------------------------
(* The train steps.  Each says for which backend it applies the gradients  *)
(* of its loss.                                                            *)

\* Under jax the losses are computed, and nothing is done with them.
StepV6(backend) == backend \in {"tensorflow", "torch"}

\* With a term of its own, v7 has its own steps, of which that is true too.
StepV7(backend) == backend \in {"tensorflow", "torch"}

\* The critic at every step, the generator at one in n_critic; elsewhere it raises.
StepGAN(backend) == backend = "torch"

\* _split_inputs: what fit was given, by position, is taken for these.
SplitInputs(p) ==
    <<"x">> \o (IF p.cond_dim > 0 THEN <<"c">> ELSE <<>>)
            \o (IF p.cell_vocab_size > 0 THEN <<"cell_idx">> ELSE <<>>)

\* jax raises.
StepDiffusion(backend) == backend \in {"tensorflow", "torch"}

\* EMACallback clones torch tensors: with another backend it raises at the start.
Averages(backend) == backend = "torch"

-----------------------------------------------------------------------------
(* generate: which inputs beside y each family can do without.             *)

\* The decoder draws z and is given y; v6 and v7 alike.
GeneratesVAE(calendar, cell_idx) == ~calendar /\ ~cell_idx

GeneratesGAN(calendar, cell_idx) == ~calendar /\ ~cell_idx

\* What the denoiser was trained with must be passed.
GeneratesDiffusion(p, calendar, cell_idx) ==
    /\ p.cond_dim > 0 => calendar
    /\ p.cell_vocab_size > 0 => cell_idx
=============================================================================
