----------------------------- MODULE RetryDelay ----------------------------
(***************************************************************************)
(* How long Client.do waits before the next attempt (httpclient/retry.go   *)
(* and the Retry-After branch of do.go).  Delays are computed in floating  *)
(* point and converted back to a signed 64 bit duration.  Both formats are *)
(* parameters.  Of the floats it is assumed that rounding to them is       *)
(* monotone and leaves floats alone, that MaxDuration + 1, a power of two, *)
(* is one of them, and that an infinity lies beyond.  MaxDuration itself   *)
(* need not be a float: with 63 and 53 significant bits it is not.         *)
(***************************************************************************)
EXTENDS Integers, Sequences

CONSTANTS
    MaxDuration,    \* the largest time.Duration, 2^63 - 1
    Infinity,       \* where the floats end
    Rounded(_),     \* the float64 of an integer up to Infinity
    Pow(_, _),      \* math.Pow of a whole multiplier
    Second          \* time.Second in ticks

ASSUME RetryDelayAssumption ==
    /\ MaxDuration \in Nat /\ Infinity \in Nat /\ Second \in Nat \ {0}
    /\ MaxDuration + 1 < Infinity
    /\ \A x \in 0..Infinity : Rounded(x) \in 0..Infinity
    /\ \A x, y \in 0..Infinity : x <= y => Rounded(x) <= Rounded(y)
    /\ \A x \in 0..Infinity : Rounded(Rounded(x)) = Rounded(x)
    /\ Rounded(0) = 0 /\ Rounded(MaxDuration + 1) = MaxDuration + 1

MinDuration == 0 - MaxDuration - 1

Float(x) == IF x >= Infinity THEN Infinity ELSE IF x < 0 THEN 0 - Rounded(0 - x) ELSE Rounded(x)

\* time.Duration(f) on amd64: out of range gives the smallest integer.
Convert(f) == IF f <= MaxDuration THEN f ELSE MinDuration

\* A product of durations wraps around.
Wrapped(x) == ((x - MinDuration) % (2 * (MaxDuration + 1))) + MinDuration

-----------------------------------------------------------------------------
\* The delay fields of a valid RetryConfig (validateRetryConfig).
Durations == 0..MaxDuration
RetryConfig == [backoff : Durations, multiplier : Nat, maxBackoff : Durations, jitter : Durations,
                respect : BOOLEAN, maxRetryAfter : Durations]
ValidRetry(cfg) == cfg.respect <=> cfg.maxRetryAfter > 0

\* The common end of baseRetryDelay and retryDelay.
ClampedTooLate(cfg, delay) ==
    IF delay <= 0 THEN 0
    ELSE IF cfg.maxBackoff > 0 /\ delay >= Float(cfg.maxBackoff) THEN cfg.maxBackoff
    ELSE IF delay > Float(MaxDuration) THEN MaxDuration
    ELSE Convert(delay)
Clamped(cfg, delay) ==
    IF delay <= 0 THEN 0
    ELSE IF cfg.maxBackoff > 0 /\ delay >= Float(cfg.maxBackoff) THEN cfg.maxBackoff
    ELSE IF delay >= Float(MaxDuration) THEN MaxDuration
    ELSE Convert(delay)

BaseRetryDelay(cfg, retryNumber) ==
    IF retryNumber <= 0 \/ cfg.backoff <= 0 THEN 0
    ELSE Clamped(cfg, Float(Float(cfg.backoff) * Pow(cfg.multiplier, retryNumber - 1)))

\* The random offset is anything up to the jitter either way.
Offsets(cfg) == (0 - Float(cfg.jitter))..Float(cfg.jitter)
PolicyDelay(cfg, retryNumber, offset) ==
    LET base == BaseRetryDelay(cfg, retryNumber)
    IN  IF base <= 0 THEN 0
        ELSE IF cfg.jitter <= 0 THEN base
        ELSE Clamped(cfg, Float(Float(base) + offset))

-----------------------------------------------------------------------------
(***************************************************************************)
(* Retry-After.  A header value is malformed, a number of seconds or a     *)
(* date, given by its distance from the arrival of the response.           *)
(***************************************************************************)
HeaderValue == [kind : {"seconds"}, value : Nat] \union [kind : {"malformed", "date"}, value : Int]

\* parseRetryAfter: whether it is usable, and the delay.
Usable(header) ==
    \/ header.kind = "seconds" /\ header.value <= MaxDuration \div Second
    \/ header.kind = "date" /\ header.value <= MaxDuration
ParsedRetryAfter(header) ==
    CASE header.kind = "seconds" -> Wrapped(header.value * Second)
      [] header.kind = "date" /\ header.value <= 0 -> 0
      [] OTHER -> header.value

\* retryAfterDelay: the first usable value, if there is one.
FirstUsable(headers, i) == Usable(headers[i]) /\ \A j \in 1..i - 1 : ~Usable(headers[j])
RetryAfterDelay(headers) ==
    {ParsedRetryAfter(headers[i]) : i \in {i \in DOMAIN headers : FirstUsable(headers, i)}}

SmallerOf(a, b) == IF a < b THEN a ELSE b
LargerOf(a, b) == IF a > b THEN a ELSE b

\* The delay of do.go: the policy's, or a longer one that the server asked for.
SelectedDelay(cfg, policyDelay, rejected, headers) ==
    IF rejected /\ cfg.respect /\ RetryAfterDelay(headers) /= {}
    THEN LET serverDelay == CHOOSE d \in RetryAfterDelay(headers) : TRUE
         IN  LargerOf(policyDelay, SmallerOf(serverDelay, cfg.maxRetryAfter))
    ELSE policyDelay
=============================================================================
