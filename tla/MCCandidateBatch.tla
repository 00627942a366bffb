-------------------------- MODULE MCCandidateBatch --------------------------
(***************************************************************************)
(* The instance TLC checks: six codes and five configurations, of which    *)
(* the edits combine those that reach a different step each.               *)
(***************************************************************************)
EXTENDS BatchProperties

CONSTANTS base, commented, other, deprecated, broken, failing,
          home, near, apart, moved, bare, heavy, bug, idea, tip

MCCodemod == [c \in Codes |-> IF c = deprecated THEN other ELSE c]
MCPlain   == [c \in Codes |-> IF c = commented THEN base ELSE c]
MCValid   == {f \in Codes \X Configs :
                f[1] \notin {deprecated, broken} /\ f # <<other, moved>>}
MCSlow    == {<<failing, near>>}

\* home and near differ in a number of unknown range, so they are at its two ends
\* unless another configuration widens it; bare has only such a number, and no
\* list of names.
MCSimilarity == [p \in Configs \X Configs \X SUBSET Configs |->
  CASE p[1] = bare /\ p[2] = bare -> IF p[3] = {bare} THEN 500 ELSE 850
    [] p[1] = p[2] /\ p[1] # bare -> 1000
    [] {p[1], p[2]} = {home, near} /\ ~ (p[3] \subseteq {home, near}) -> 980
    [] OTHER -> 500]

MCJitters == [f \in Configs |-> IF f \in {home, near} THEN {apart, moved} ELSE {}]
MCWeights == [f \in Codes \X Configs |-> <<MCPlain[f[1]], f[2]>>]
MCOutcome == [f \in Codes \X Configs |->
  CASE f[1] = failing -> "error" [] f = <<other, apart>> -> "prescreened"
    [] OTHER -> "report"]
MCSizes   == [l \in Lesson |-> CASE l = heavy -> 5 [] l = bug -> 2 [] OTHER -> 1]

Answer(kind, code, config, lessons) ==
  [kind |-> kind, code |-> code, config |-> config, lessons |-> lessons]

plainEdit  == Answer("edit", other, home, <<bug>>)
oldEdit    == Answer("edit", deprecated, near, <<idea, bug>>)
tuneEdit   == Answer("edit", base, apart, << >>)
wordEdit   == Answer("edit", commented, home, <<heavy>>)
badEdit    == Answer("edit", broken, near, <<heavy, tip>>)
crashEdit  == Answer("edit", failing, near, << >>)
bareEdit   == Answer("edit", other, bare, << >>)
noAnswer   == Answer("unusable", base, home, << >>)
refusal    == Answer("refused", base, home, << >>)

MCAnswers == {plainEdit, oldEdit, tuneEdit, wordEdit, badEdit, crashEdit, bareEdit,
              noAnswer, refusal}

MCBatches ==
  { <<plainEdit, plainEdit>>, <<oldEdit, badEdit>>, <<badEdit, noAnswer>>,
    <<tuneEdit, crashEdit>>, <<wordEdit, plainEdit>>, <<wordEdit, tuneEdit>>,
    <<bareEdit, plainEdit>>, <<plainEdit, oldEdit>>, <<noAnswer, refusal>> }
=============================================================================
