---------------------------- MODULE QueryOptions ----------------------------
(***************************************************************************)
(* The option surface of a query as pure operators: src/options.rs,        *)
(* QueryClient::merge_options (src/client.rs), retry_delay                 *)
(* (src/retryer.rs) and delay_for (src/executor.rs).  Durations are        *)
(* counted in base delays of one second.                                   *)
(***************************************************************************)
EXTENDS Integers, Sequences

CONSTANTS
  Bits,      \* width of the backoff multiplier: u32 and u64 in the code
  None       \* Option::None

BASE_RETRY_DELAY == 1
MAX_RETRY_DELAY == 30

\* RetryConfig::default
DefaultRetry == [max_retries |-> 3, base_delay |-> BASE_RETRY_DELAY, exponential_backoff |-> TRUE,
                 max_delay |-> MAX_RETRY_DELAY]

\* QueryOptions::default.  enabled_fn is what the function answers, if there is one.
DefaultOptions ==
  [stale_time |-> 0, stale_time_static |-> FALSE, gc_time |-> 300, retry |-> DefaultRetry,
   enabled |-> TRUE, enabled_fn |-> None,
   refetch_on_window_focus |-> "Enabled", refetch_on_reconnect |-> "Enabled", refetch_on_mount |-> "Enabled",
   refetch_interval |-> 0, refetch_interval_in_background |-> FALSE, structural_sharing |-> TRUE,
   network_mode |-> "Online", retry_on_mount |-> TRUE, throw_on_error |-> FALSE,
   notify_on_change_props |-> None, meta |-> {}]
Fields == DOMAIN DefaultOptions

\* The builder methods: each sets its field, and stale_time takes static back.
With(o, field, v) ==
  [f \in Fields |-> CASE f = field -> v
                      [] f = "stale_time_static" /\ field = "stale_time" -> FALSE
                      [] OTHER -> o[f]]

\* merge_options: a field that the caller left at its crate default comes from the
\* client's defaults.
merge_options(defaults, provided) ==
  [f \in Fields |-> IF provided[f] = DefaultOptions[f] THEN defaults[f] ELSE provided[f]]

is_enabled(o) == o.enabled /\ (IF o.enabled_fn = None THEN TRUE ELSE o.enabled_fn)

allows_refetch(trigger, stale) ==
  CASE trigger = "Enabled" -> stale
    [] trigger = "Disabled" -> FALSE
    [] trigger = "Always" -> TRUE

is_stale_by_time(o, age) == ~o.stale_time_static /\ o.stale_time # 0 /\ age > o.stale_time

-----------------------------------------------------------------------------

\* 2.saturating_pow(n)
Pow(n) == IF n >= Bits THEN 2 ^ Bits - 1 ELSE 2 ^ n

Least(a, b) == IF a < b THEN a ELSE b

delay_for_attempt(c, attempt) ==
  Least(IF c.exponential_backoff THEN c.base_delay * Pow(attempt) ELSE c.base_delay, c.max_delay)

\* The shared curve of the retryer.
retry_delay(attempt) == Least(BASE_RETRY_DELAY * Pow(attempt), MAX_RETRY_DELAY)

SharedCurve(c) == c.exponential_backoff /\ c.base_delay = BASE_RETRY_DELAY

\* delay_for of the executor: a configuration of the default shape takes the shared
\* curve, whatever its own cap.
delay_for(c, attempt) == IF SharedCurve(c) THEN retry_delay(attempt) ELSE delay_for_attempt(c, attempt)

should_retry(c, attempt) == attempt < c.max_retries

=============================================================================
