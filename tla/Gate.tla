-------------------------------- MODULE Gate --------------------------------
(***************************************************************************)
(* The two-phase gate of gate.py: select() judges a candidate's in-sample  *)
(* walk-forward aggregate against the incumbent's, confirm() its holdout,  *)
(* and accept() runs both.                                                 *)
(*                                                                         *)
(* A metric is an integer (hundredths, say), or NaN, or, for the ratio a   *)
(* run optimises, Inf.  A report is a record of the metrics the gate       *)
(* reads; a limits record holds what _resolve_select_config and confirm()  *)
(* take from the candidate's configuration.                                *)
(*                                                                         *)
(* An operator named Slip... is the definition after it with a plausible   *)
(* mistake; no specification uses one.                                     *)
(***************************************************************************)
EXTENDS Integers, Sequences

CONSTANTS
  NaN,     \* a float that is not a number
  Inf,     \* an infinite ratio
  None,    \* Python's None
  Target   \* the target metric of the run

Ratio  == Int \cup {NaN, Inf}
Metric == Int \cup {NaN}

Report == [sharpe : Ratio, sortino : Ratio, information_ratio : Ratio \cup {None},
           observed : Int, ret : Metric, dd : Metric, turnover : Metric,
           regime : BOOLEAN, pbo : Metric \cup {None}, dsr : Metric,
           hdd : Metric, hturnover : Metric, hdsr : Metric]

Limits == [dd : Nat, turnover : Nat, pbo : Nat \cup {None}, minImprovement : Nat,
           minReturn : 0 .. 100, requireDsr : BOOLEAN, tradeoff : Nat,
           floor : Int \cup {None}, compare : {"deflated", "raw"}, tolerance : Nat,
           epsilon : Nat, holdoutTolerance : Nat]

ASSUME ValuesAssumption ==
  /\ NaN \notin Int /\ Inf \notin Int /\ None \notin Int
  /\ NaN # Inf /\ NaN # None /\ Inf # None /\ None \notin Report
  /\ Target \in {"sharpe", "sortino", "information_ratio"}

-----------------------------------------------------------------------------
(* Metrics *)

\* math.isnan(x) or x > limit
Exceeds(x, limit) == x \in {NaN, Inf} \/ (x \in Int /\ x > limit)

InSampleMetric(r) == IF r[Target] \in Int THEN r[Target] ELSE 0

CompareMetric(r, compare) ==
  IF compare = "deflated" /\ Target = "sharpe"
    THEN IF r.dsr = NaN THEN 0 ELSE r.dsr
    ELSE InSampleMetric(r)

Clamp(x, top) == IF x < 0 THEN 0 ELSE IF x > top THEN top ELSE x

\* max(0, min(1, base_dsr / base_raw)) as a fraction: min(1, NaN) is 1.
TradeoffScale(base, compare) ==
  CASE compare # "deflated"  -> [num |-> 1, den |-> 1]
    [] compare = "deflated" /\ base.observed <= 0 -> [num |-> 0, den |-> 1]
    [] compare = "deflated" /\ base.observed > 0 /\ base.dsr = NaN
                             -> [num |-> 1, den |-> 1]
    [] OTHER -> [num |-> Clamp(base.dsr, base.observed), den |-> base.observed]

-----------------------------------------------------------------------------
(* The single checks: each says what fails *)

SlipTradeoffReversed(r, base, c) ==
  LET scale == TradeoffScale(base, c.compare)
      hurdle == CompareMetric(base, c.compare) + c.minImprovement - c.tolerance
      allowance == IF c.tradeoff > 0
                     THEN c.tradeoff * (base.ret - r.ret) * scale.num ELSE 0
  IN  CompareMetric(r, c.compare) * scale.den <= hurdle * scale.den - allowance

\* candidate_val <= required_metric, both sides times the scale's denominator
MissesHurdle(r, base, c) ==
  LET scale == TradeoffScale(base, c.compare)
      hurdle == CompareMetric(base, c.compare) + c.minImprovement - c.tolerance
      allowance == IF c.tradeoff > 0
                     THEN c.tradeoff * (r.ret - base.ret) * scale.num ELSE 0
  IN  CompareMetric(r, c.compare) * scale.den <= hurdle * scale.den - allowance

NoImprovement(r, base, c) ==
  \/ c.tradeoff > 0 /\ NaN \in {r.ret, base.ret}
  \/ ~ (c.tradeoff > 0 /\ NaN \in {r.ret, base.ret}) /\ MissesHurdle(r, base, c)

\* minReturn is in per cent.
ReturnTooLow(r, base, c) ==
  \/ r.ret = NaN
  \/ /\ r.ret # NaN /\ base.ret # NaN /\ base.ret > 0
     /\ r.ret * 100 < base.ret * c.minReturn

Degrades(x, base, slack) ==
  \/ x = NaN
  \/ x # NaN /\ base # NaN /\ x < base - slack

-----------------------------------------------------------------------------
(* The gates *)

Check(gate, failed) == [gate |-> gate, failed |-> failed]

HardChecks(r, c) ==
  << Check("max_drawdown", Exceeds(r.dd, c.dd)),
     Check("regimes", ~ r.regime),
     Check("turnover", Exceeds(r.turnover, c.turnover)),
     Check("pbo", c.pbo # None /\ r.pbo # None /\ Exceeds(r.pbo, c.pbo)) >>

SlipDsrOnlyWithFloor(r, base, c) ==
  << Check("metric_floor", c.floor # None /\ InSampleMetric(r) <= c.floor),
     Check("target_metric_improvement", base # None /\ NoImprovement(r, base, c)),
     Check("min_return_ratio", base # None /\ ReturnTooLow(r, base, c)),
     Check("dsr_non_degradation",
           c.floor # None /\ base # None /\ Degrades(r.dsr, base.dsr, c.epsilon)) >>

SoftChecks(r, base, c) ==
  << Check("metric_floor", c.floor # None /\ InSampleMetric(r) <= c.floor),
     Check("target_metric_improvement", base # None /\ NoImprovement(r, base, c)),
     Check("min_return_ratio", base # None /\ ReturnTooLow(r, base, c)),
     Check("dsr_non_degradation",
           c.requireDsr /\ base # None /\ Degrades(r.dsr, base.dsr, c.epsilon)) >>

SelectChecks(r, base, c) == HardChecks(r, c) \o SoftChecks(r, base, c)

ConfirmChecks(r, base, c) ==
  << Check("max_drawdown", Exceeds(r.hdd, c.dd)),
     Check("turnover", Exceeds(r.hturnover, c.turnover)),
     Check("holdout_dsr_non_degradation",
           \/ r.hdsr = NaN
           \/ base # None /\ Degrades(r.hdsr, base.hdsr,
                                      c.epsilon + c.holdoutTolerance)) >>

Failing(checks) == {i \in DOMAIN checks : checks[i].failed}

Passes(checks) == Failing(checks) = {}

\* failed_gate: the checks are made in order and the first failure returns.
FailedGate(checks) ==
  checks[CHOOSE i \in Failing(checks) : \A j \in Failing(checks) : i <= j].gate

Select(r, base, c) == Passes(SelectChecks(r, base, c))

Confirm(r, base, c) == Passes(ConfirmChecks(r, base, c))

\* The standalone evaluation, and every evaluation of a run, calls it without
\* a baseline.
Accept(r, base, c) == Select(r, base, c) /\ Confirm(r, base, c)
=============================================================================
