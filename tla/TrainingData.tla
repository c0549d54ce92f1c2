---------------------------- MODULE TrainingData ----------------------------
(***************************************************************************)
(* What the loaders of the generator make of a data set of windows: which  *)
(* windows and KPIs are kept, how the conditioning is laid out, which      *)
(* cells are held out, what the calendar says of a day.  Numbers are       *)
(* abstracted: a window is the cell and the hour it starts at, a KPI is    *)
(* near-constant or not, a sine and cosine are the day they stand for.     *)
(***************************************************************************)
EXTENDS Integers, FiniteSets, FiniteSetsExt, SequencesExt

CONSTANTS
    Columns,       \* every column name, in sorted order
    ConfigNames,   \* those with CELL_CONFIG_PREFIX
    MetaNames,     \* _META_COLS
    SeqLen,        \* SEQ_LEN
    DayHours,      \* 24 in the code
    Holidays       \* what the holidays library knows: [Countries -> days]

CONTEXT_DIM == 5
CALENDAR_DIM == 6

Countries == DOMAIN Holidays

ASSUME TrainingDataAssumption ==
    /\ IsInjective(Columns)
    /\ ConfigNames \subseteq Range(Columns)
    /\ MetaNames \subseteq Range(Columns) \ ConfigNames
    /\ SeqLen \in Nat \ {0} /\ DayHours \in Nat \ {0}
    /\ \A c \in Countries : Holidays[c] \subseteq Int

-----------------------------------------------------------------------------
(* A data set: the columns of its schema, the rows of each group of (cell, *)
(* anchor), the configuration of each cell, the KPIs that hardly vary.     *)
(*   [columns, groups: [cell, anchor, rows, holes], config, flat]          *)

DetectConfigCols(columns) == SelectSeq(Columns, LAMBDA c : c \in columns \cap ConfigNames)

FeatCols(columns) ==
    SelectSeq(Columns, LAMBDA c : c \in columns \ (ConfigNames \cup MetaNames))

\* _stack_hourly_parquet_to_windows: a window has all its hours and no hole.
Stack(ds) == {[cell |-> g.cell, anchor |-> g.anchor] :
                 g \in {w \in ds.groups : w.rows = SeqLen /\ ~w.holes}}

LoadFails(ds) ==
    \/ DetectConfigCols(ds.columns) = <<>>
    \/ FeatCols(ds.columns) = <<>>
    \/ Stack(ds) = {}

\* config_encoder.categories_: per config column, the values seen.
Categories(ds, cells) ==
    [i \in DOMAIN DetectConfigCols(ds.columns) |-> {ds.config[c][i] : c \in cells}]

\* build_conditioning_vector: one-hot configs, holiday, four seasonal values.
YDim(cats) == FoldFunction(LAMBDA s, n : Cardinality(s) + n, 0, cats) + CONTEXT_DIM

\* cell_encoder: known cells are 1..n_cells-1 in sorted order.  The order of
\* cells is immaterial here: any numbering from 1 that tells them apart.
CellIndex(cells) == CHOOSE f \in [cells -> 1..Cardinality(cells)] :
                       \A c, d \in cells : f[c] = f[d] => c = d

LoadTrainingWindows(ds, dropFlat, calendar) ==
    LET windows == Stack(ds)
        cells   == {w.cell : w \in windows}
        kpis    == FeatCols(ds.columns)
    IN  [windows  |-> windows,
         config   |-> [c \in cells |-> ds.config[c]],
         kpis     |-> IF dropFlat THEN SelectSeq(kpis, LAMBDA k : k \notin ds.flat) ELSE kpis,
         cats     |-> Categories(ds, cells),
         cond_dim |-> IF calendar THEN CALENDAR_DIM ELSE 0,
         encoder  |-> CellIndex(cells),
         n_cells  |-> Cardinality(cells) + 1]

CellsOf(data) == {w.cell : w \in data.windows}

-----------------------------------------------------------------------------
(* split_holdout_cells and apply_cell_holdout.  A fraction is in percent.  *)

\* Python's round of n * f / 100: halves go to the even neighbour.
RoundHalfEven(n, f) ==
    LET q == (n * f) \div 100
        r == (n * f) % 100
    IN  IF r > 50 \/ (r = 50 /\ q % 2 = 1) THEN q + 1 ELSE q

\* Mutant: a whole configuration may be held out.
HoldoutUncapped(n, f) == IF n < 2 THEN 0 ELSE Max({1, RoundHalfEven(n, f)})

\* How many of the n cells of one configuration are held out.
HoldoutSize(n, f) ==
    IF n < 2 THEN 0
    ELSE Min({Max({1, RoundHalfEven(n, f)}), n - 1})

SameConfig(config, v) == {c \in DOMAIN config : config[c] = v}

\* The seed decides among these.
HoldoutChoices(config, f) ==
    {H \in SUBSET DOMAIN config :
        \A v \in {config[c] : c \in DOMAIN config} :
            Cardinality(H \cap SameConfig(config, v))
                = HoldoutSize(Cardinality(SameConfig(config, v)), f)}

\* Only what is indexed by a window is split; the encoders stay those of all cells.
KeepCells(data, cells) ==
    [data EXCEPT !.windows = {w \in @ : w.cell \in cells}]

\* apply_cell_holdout returns the cells held out, {} when it is a no-op.
HeldOutChoices(data, f) ==
    IF f <= 0 THEN {{}} ELSE HoldoutChoices(data.config, f)

-----------------------------------------------------------------------------
(* build_calendar_features.  Day 0 is a Monday; an anchor is an hour.      *)

Day(t) == t \div DayHours

OffDay(country, d) == d % 7 >= 5 \/ d \in Holidays[country]

\* Mutant: the table ends with the last window.
CalendarSpanShort(anchors) == Day(Min(anchors))..(Day(Max(anchors)) + SeqLen \div DayHours)

\* The lookup table of days covers no day before the first anchor's.
CalendarSpan(anchors) == Day(Min(anchors))..(Day(Max(anchors)) + SeqLen \div DayHours + 3)

\* Membership in a run of three off-days or more, as far as the table goes.
InLongRun(span, country, d) ==
    \E i \in (d - 2)..d : \A e \in i..(i + 2) : e \in span /\ OffDay(country, e)

DayFeatures(span, country, d) ==
    [weekday |-> d % 7, weekend |-> d % 7 >= 5,
     holiday |-> d \in Holidays[country], eve |-> d + 1 \in Holidays[country],
     long    |-> InLongRun(span, country, d)]

BuildCalendarFeatures(anchors, country) ==
    LET span == CalendarSpan(anchors)
    IN  [a \in anchors |-> [h \in 0..(SeqLen - 1) |-> DayFeatures(span, country, Day(a + h))]]
=============================================================================
