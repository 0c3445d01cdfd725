------------------------- MODULE MCAttemptResponse -------------------------
(* Every way to own and bound the contexts of a returned or discarded      *)
(* response; and, for a response without a body, configurations and        *)
(* Retry-After values around the limits of six bit durations and floats of *)
(* three significant bits.                                                 *)
EXTENDS AttemptResponse

\* Durations of Width bits; floats of Mantissa significant bits, rounding to nearest and
\* ties to even, that end at 2^Exponent.
Width == 6
Mantissa == 3
Exponent == 8
MCMaxDuration == 2^(Width - 1) - 1
MCInfinity == 2^Exponent

\* The spacing of floats at x, and every x rounded to one of them.
Spacing(x) ==
    LET exponents == {e \in 0..Exponent : x < 2^(Mantissa + e)}
    IN  2^(CHOOSE e \in exponents : \A f \in exponents : e <= f)
Nearest == [x \in 0..MCInfinity |->
    LET unit == Spacing(x)
        below == x \div unit
        rest == 2 * (x % unit)
    IN  IF rest > unit \/ (rest = unit /\ below % 2 = 1) THEN (below + 1) * unit ELSE below * unit]
MCRounded(x) == Nearest[x]
MCPow(base, exponent) == IF exponent = 0 THEN 1 ELSE Float(base^exponent)

MCFinalPlans == {p \in FinalPlan : p.owned \subseteq p.deadlines}

Config(backoff, multiplier, maxBackoff, jitter, maxRetryAfter) ==
    [backoff |-> backoff, multiplier |-> multiplier, maxBackoff |-> maxBackoff, jitter |-> jitter,
     respect |-> maxRetryAfter > 0, maxRetryAfter |-> maxRetryAfter]
Header(kind, value) == [kind |-> kind, value |-> value]

Discards ==
    {p \in [owned : SUBSET {"total", "attempt"}, deadlines : SUBSET Contexts, body : {TRUE},
            linked : BOOLEAN, drainable : BOOLEAN, rejected : {TRUE}, retryNumber : {1},
            cfg : {Config(1, 1, 0, 0, 0), Config(0, 1, 0, 0, 0)}, headers : {<<>>}] :
        p.owned \subseteq p.deadlines}

DelaysOf(configs, headers) ==
    [owned : {{}}, deadlines : {{}}, body : {FALSE}, linked : {TRUE}, drainable : {TRUE},
     rejected : BOOLEAN, retryNumber : 1..4, cfg : configs, headers : headers]
Delays ==
    DelaysOf({Config(b, m, mb, j, 0) : b \in {1, 5, 31}, m \in {0, 1, 3}, mb \in {0, 29, 30}, j \in {0, 3}},
             {<<Header("seconds", 3)>>})
    \union
    DelaysOf({Config(b, 2, mb, 3, ra) : b \in {1, 5}, mb \in {0, 6}, ra \in {6, 31}},
             {<<>>, <<Header("seconds", 3)>>, <<Header("seconds", 9), Header("date", 31)>>,
              <<Header("malformed", 0), Header("seconds", 7)>>, <<Header("date", 32)>>,
              <<Header("date", 0 - 1), Header("seconds", 2)>>})

MCRetryPlans == Discards \union Delays
=============================================================================
