------------------------------ MODULE Lessons ------------------------------
(***************************************************************************)
(* The lesson store of lessons/store.py for one strategy: lessons are      *)
(* added once, and the prompt gets the newest that fit.                    *)
(*                                                                         *)
(* A lesson is identified by its type and body; its size is that of the    *)
(* block it is rendered to.  An edit's lessons are those within the first  *)
(* MAX_INGEST_CHARS of its text.                                           *)
(***************************************************************************)
EXTENDS Integers, Sequences, SequencesExt

CONSTANTS
  Lesson,       \* lessons the model or the importance analysis may send
  LessonSize,
  MaxLessons    \* MAX_LESSONS_CHARS, in the unit of LessonSize

ASSUME LessonAssumption ==
  /\ LessonSize \in [Lesson -> Nat \ {0}]
  /\ MaxLessons \in Nat

\* store_lesson: UNIQUE(strategy, type, body_hash)
Stored(store, lesson) ==
  IF \E i \in DOMAIN store : store[i] = lesson THEN store ELSE Append(store, lesson)

\* ingest_markdown
Ingested(store, lessons) == FoldLeft(Stored, store, lessons)

SlipTakeAnyThatFits(lesson, taken) ==
  IF taken.size + LessonSize[lesson] > MaxLessons THEN taken
  ELSE [taken EXCEPT !.blocks = <<lesson>> \o @, !.size = @ + LessonSize[lesson]]

\* One round of the loop over the rows, newest first; full is its break.
Take(lesson, taken) ==
  IF taken.full \/ taken.size + LessonSize[lesson] > MaxLessons
    THEN [taken EXCEPT !.full = TRUE]
    ELSE [taken EXCEPT !.blocks = <<lesson>> \o @, !.size = @ + LessonSize[lesson]]

\* get_filtered_markdown without a stage, the only way the run calls it: the
\* newest lesson is told in any case, cut short when it does not fit.
LessonsTold(store) ==
  LET taken == FoldRight(Take, store, [blocks |-> << >>, size |-> 0, full |-> FALSE])
  IN  IF store # << >> /\ taken.blocks = << >> THEN <<Last(store)>> ELSE taken.blocks
=============================================================================
