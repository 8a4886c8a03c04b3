-------------------------------- MODULE Sketch --------------------------------
(***************************************************************************)
(* The bit vectors of FREQ, COUNTMIN and HEAVY, and the queries on their   *)
(* totals (hash.h, hash.cpp, and the last part of countMin_op, heavy_op).  *)
(*                                                                         *)
(* A vector has a row of w cells for each of the d hashes of each layer    *)
(* and, but for COUNTMIN, one exact row. A submission sets one cell of     *)
(* each row. FREQ has the exact row alone, COUNTMIN one layer; in HEAVY    *)
(* the exact row counts the values' prefixes and each layer extends them   *)
(* by a bit. cfg is [type, num_bits, w, d, L, t, hashes]; the threshold t, *)
(* a double in the code, is a fraction <<numerator, denominator>>.         *)
(***************************************************************************)
EXTENDS AggregateOps

SketchOps == {"FREQ_OP", "COUNTMIN_OP", "HEAVY_OP"}

\* w_bits: enough for w - 1, and at least one.
W_bits(w) == CHOOSE b \in 1 .. w : w - 1 < 2 ^ b /\ (b = 1 \/ 2 ^ (b - 1) <= w - 1)

\* The hashes a HashStore of l_bits-bit inputs may draw, and how layer k's is
\* constructed.
Family(l_bits, w) ==
    [l_bits : {l_bits}, w : {w}, c0 : 0 .. w - 1, c1 : 0 .. 2 ^ l_bits - 1]

LayerFamily(cfg, k) == Family(cfg.num_bits - k, cfg.w)

Eval(h, x) ==
    ((((x * h.c1) % 2 ^ h.l_bits) \div 2 ^ (h.l_bits - W_bits(h.w))) + h.c0) % h.w

Layers(cfg) == CASE cfg.type = "FREQ_OP" -> 0
                 [] cfg.type = "COUNTMIN_OP" -> 1
                 [] cfg.type = "HEAVY_OP" -> cfg.L

HasExactRow(cfg) == cfg.type # "COUNTMIN_OP"
ExactStart(cfg) == Layers(cfg) * cfg.d * cfg.w
ExactSize(cfg) == 2 ^ (cfg.num_bits - Layers(cfg))

\* Row r holds the cells the r-th sum of the batch check adds up.
Rows(cfg) ==
    [r \in 1 .. Layers(cfg) * cfg.d |-> (r - 1) * cfg.w .. r * cfg.w - 1] \o
    (IF HasExactRow(cfg)
     THEN <<ExactStart(cfg) .. ExactStart(cfg) + ExactSize(cfg) - 1>> ELSE <<>>)

Cells(cfg) == UNION {Rows(cfg)[r] : r \in DOMAIN Rows(cfg)}

\* The cell of layer k's row j for x, a value or the prefix the layer is about.
Cell(cfg, k, j, x) == (k * cfg.d + j) * cfg.w + Eval(cfg.hashes[k][j], x)

PrefixOffByOne(cfg, k, val) == val \div 2 ^ (Layers(cfg) - k)
\* What layer k hashes of a value: all but its last Layers - 1 - k bits.
Prefix(cfg, k, val) == val \div 2 ^ (Layers(cfg) - 1 - k)

\* The cells a client sets for its value.
Hot(cfg, val) ==
    {Cell(cfg, k, j, Prefix(cfg, k, val)) : k \in 0 .. Layers(cfg) - 1,
                                            j \in 0 .. cfg.d - 1}
    \cup (IF HasExactRow(cfg) THEN {ExactStart(cfg) + (val \div 2 ^ Layers(cfg))} ELSE {})
-----------------------------------------------------------------------------
(* Queries on the totals of num_inputs submissions. *)

AtLeast(cfg, count, num_inputs) == count * cfg.t[2] >= num_inputs * cfg.t[1]

\* The smallest count among x's cells of a layer, and never above num_inputs.
Estimate(cfg, totals, num_inputs, k, x) ==
    Min({num_inputs} \cup {totals[Cell(cfg, k, j, x)] : j \in 0 .. cfg.d - 1})

\* countMin_op tries the values up to 255.
CountMinHeavy(cfg, totals, num_inputs) ==
    {x \in 0 .. 2 ^ cfg.num_bits - 1 :
        x < 256 /\ AtLeast(cfg, Estimate(cfg, totals, num_inputs, 0, x), num_inputs)}

\* heavy_op: from the heavy prefixes down, one bit per layer.
TreeHeavy(cfg, totals, num_inputs) ==
    LET reached[k \in 0 .. cfg.L] ==
          IF k = 0
          THEN {x \in 0 .. ExactSize(cfg) - 1 :
                   AtLeast(cfg, totals[ExactStart(cfg) + x], num_inputs)}
          ELSE {y \in {2 * x : x \in reached[k - 1]} \cup {2 * x + 1 : x \in reached[k - 1]} :
                   AtLeast(cfg, Estimate(cfg, totals, num_inputs, k - 1, y), num_inputs)}
    IN reached[cfg.L]

\* What server 0 prints: the frequencies, or the values found heavy.
Queried(cfg, totals, num_inputs) ==
    CASE cfg.type = "FREQ_OP"     -> totals
      [] cfg.type = "COUNTMIN_OP" -> CountMinHeavy(cfg, totals, num_inputs)
      [] cfg.type = "HEAVY_OP"    -> TreeHeavy(cfg, totals, num_inputs)
=============================================================================
