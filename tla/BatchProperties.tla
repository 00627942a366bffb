-------------------------- MODULE BatchProperties --------------------------
(***************************************************************************)
(* What an iteration promises of the batch it hands to the gates.          *)
(***************************************************************************)
EXTENDS CandidateBatch

EditType == [code : Codes, config : Configs, cost : Nat]

Stages == {"raw", "llm_error", "ok", "validation", "exploit_no_change",
           "identical_behavior", "eval_error"}

IsCandidate(c) ==
  /\ c.edit \in EditType /\ c.code \in Codes /\ c.config \in Configs
  /\ c.valid \in BOOLEAN /\ c.stage \in Stages /\ c.jittered \in BOOLEAN
  /\ c.valid <=> c.stage = "ok"

(* The types; a candidate is valid exactly as long as no stage rejected    *)
(* it, only a valid one has a report, and the cache keeps to its size with *)
(* one entry per key.                                                      *)
TypeOK ==
  /\ mode \in {"explore", "exploit"} /\ noAccept \in 0 .. MaxIterations
  /\ current \in Codes \X Configs
  /\ \A i \in DOMAIN tried : tried[i] \in Configs
  /\ k \in 0 .. MaxIterations /\ rounds \in 0 .. MaxRepairs
  /\ fixing \in EditType /\ iterCost \in Nat
  /\ \A i \in DOMAIN batch : IsCandidate(batch[i])
  /\ \A i \in Evaluated : batch[i].valid
  /\ at \in Nat /\ (batch # << >> => at \in DOMAIN batch)
  /\ passed \subseteq Codes \X Configs
  /\ Len(cache) <= CacheSize
  /\ \A i, j \in DOMAIN cache : cache[i].key = cache[j].key => i = j
  /\ \A i \in DOMAIN worker : worker[i] \in {"out", "queued", "missed", "done"}

(* What is backtested is what preflight passed and what a commit would     *)
(* write: neither codemod, nor a repair round, nor jitter leaves code,     *)
(* configuration and edit of a candidate apart or unchecked.               *)
EvaluatedWasValidated ==
  \A i \in Evaluated :
    /\ Files(batch[i]) \in passed
    /\ Files(batch[i]) = <<batch[i].edit.code, batch[i].edit.config>>

(* The cache is invisible: the report a candidate is judged by was         *)
(* computed for its own code, comments aside, and configuration, and no    *)
(* earlier deflation has changed it, whether another thread of this batch  *)
(* or an earlier iteration computed it.                                    *)
CacheTransparent ==
  pc \in {"evaluate", "select"} =>
    \A i \in Evaluated :
      LET r == batch[i].report
      IN  /\ Plain[r.of[1]] = Plain[batch[i].code] /\ r.of[2] = batch[i].config
          /\ r.object \notin dirty
          /\ \A j \in Evaluated : batch[j].report.object = r.object => j = i

CostOf(c) == IF c.stage = "validation" THEN 1 ELSE c.calls

\* The calls of the model that a batch is charged, each by its candidate
Charged == UNION {{i} \X (1 .. CostOf(batch[i])) : i \in DOMAIN batch}

(* An iteration's cost holds every edit of a candidate that passed         *)
(* preflight, its repair rounds included, each once; of a candidate that   *)
(* stayed invalid it holds the first edit only.                            *)
CostAccounted ==
  pc \in {"diversity", "behaviour", "submit", "evaluate", "select"} =>
    iterCost = Cardinality(Charged)

\* stages that a candidate with a configuration in the pool may come to
WentOn == {"ok", "identical_behavior", "eval_error"}

\* The pool candidate i was compared with
PoolBefore(i) ==
  Recent \cup {batch[j].config : j \in {l \in 1 .. i - 1 : batch[l].stage \in WentOn}}

(* A jittered candidate stands apart from the recent configurations and    *)
(* from every candidate before it in its batch that went on, those that    *)
(* were jittered themselves included, as similar as they are among each    *)
(* other.                                                                  *)
JitteredStandsApart ==
  pc \in {"diversity", "behaviour", "submit", "evaluate", "select"} =>
    \A i \in DOMAIN batch : batch[i].jittered =>
      \A f \in PoolBefore(i) : Alike(batch[i].config, f, PoolBefore(i)) < Threshold

(* A backtest is spent on the incumbent's own files, in either mode and    *)
(* whatever commits came before, only if comparing the behaviour took too  *)
(* long, or if the similarity does not find the configuration like itself. *)
NoNoOpBacktested ==
  \A i \in Evaluated : Files(batch[i]) = current =>
    IF mode = "explore" THEN current \in Slow
    ELSE Alike(current[2], current[2], {current[2]}) < 999

\* What the lessons s render to from the n-th on, each character by its lesson
Characters(s, n) == UNION {{i} \X (1 .. LessonSize[s[i]]) : i \in n .. Len(s)}

(* The lessons every prompt is built from are the longest run of the       *)
(* newest stored lessons that fits, or the newest alone; none is stored    *)
(* twice, and none is missing because a prompt was built from an old text. *)
LessonsCurrent ==
  /\ \A i, j \in DOMAIN store : store[i] = store[j] => i = j
  /\ store # << >> =>
       \E n \in 1 .. Len(store) :
         /\ lessonsText = SubSeq(store, n, Len(store))
         /\ n < Len(store) => Cardinality(Characters(store, n)) <= MaxLessons
         /\ n > 1 => Cardinality(Characters(store, n - 1)) > MaxLessons

(* Every batch comes to its gates, or the run to an end, whatever the      *)
(* model answers and however often a repair fails.                         *)
BatchSettles == pc = "process" ~> pc \in {"select", "raised"}

(* Only candidates that behave as the incumbent does are rejected for it.  *)
(* orchestrator.py:801 says of the guard: "Reject candidates whose weights *)
(* are identical to the incumbent on synthetic prices."                    *)
OnlyIdenticalRejected ==
  \A i \in DOMAIN batch :
    batch[i].stage = "identical_behavior" => Weights[Files(batch[i])] = Weights[current]
=============================================================================
