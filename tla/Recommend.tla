----------------------------- MODULE Recommend -----------------------------
(***************************************************************************)
(* ejecutar_pipeline (src/chains/recommend_pipeline.py): the families that *)
(* pass the structured filter (src/tools/structured_filter.py) and that    *)
(* canirun.ai (src/compatibility/provider.py) does not call incompatible   *)
(* are scored (src/ranking/scorer.py) and the best topN returned.          *)
(*                                                                         *)
(* A family is what the filter and the scorer look at.  Sub-scores are in  *)
(* hundredths and weights in percent, so a total is in units of 0.0001,    *)
(* to which the code rounds it; quotients that the hundredths do not hold  *)
(* are cut.  Of canirun.ai's numbers 0 stands for all that the scorer      *)
(* takes as missing: absent, null, zero or negative.                       *)
(***************************************************************************)
EXTENDS Integers, FiniteSets, SequencesExt

CONSTANTS
  Pool,         \* families that a catalogue may list
  MaxFamilies,  \* bound: families in a catalogue
  Replies,      \* what canirun.ai may answer
  Criteria,     \* search criteria
  TopNs         \* the numbers asked for

NoTask == "none"
NoAnswer == [compatible |-> "unknown", vram |-> 0, tps |-> 0]
Unasked  == [compatible |-> "unasked", vram |-> 0, tps |-> 0]

\* What is looked at of a family, of an answer of canirun.ai and of a request.
FamiliaModelo ==
  [tag : STRING, licence : STRING, languages : SUBSET STRING, mapped : BOOLEAN]
CompatibilityResult ==
  [compatible : {"yes", "no", "unknown"}, vram : Nat, tps : Nat]
CriteriosBusqueda ==
  [task : {NoTask, "chat", "codigo", "razonamiento"}, commercial : BOOLEAN,
   languages : SUBSET STRING]

ASSUME InputAssumption ==
  /\ Pool \subseteq FamiliaModelo
  /\ MaxFamilies \in Nat
  /\ Replies \subseteq CompatibilityResult
  /\ Criteria \subseteq CriteriosBusqueda
  /\ TopNs \subseteq Int

VARIABLES
  criteria,    \* the criteria of the call
  topN,        \* how many it asks for
  stage,       \* where it stands, or how it ended
  models,      \* the catalogue
  replies,     \* history: of each family handled so far, what was answered
  candidates,  \* elegibles: positions in the catalogue, with the answer
  ranked,      \* the scored ones in order: positions, with the score
  answer       \* what the call returned

vars == <<criteria, topN, stage, models, replies, candidates, ranked, answer>>

Stages == {"asked", "filtering", "ranking", "answered", "refused", "no_seed",
           "score_rejected"}

-----------------------------------------------------------------------------
(* The structured filter.                                                  *)

\* _tarea_match: the tags that serve a task, its own name among them.
TagsOf(task) ==
  {task} \cup CASE task = "chat"         -> {"text-generation", "conversational"}
                [] task = "codigo"       -> {"code", "text-generation"}
                [] task = "razonamiento" -> {"text-generation"}

\* licencia.lower().replace(" ", "-"), of the spelling that the seed uses.
Normalised(licence) == IF licence = "apache 2.0" THEN "apache-2.0" ELSE licence

IsCommercial(licence) ==
  Normalised(licence) \in
     {"apache-2.0", "mit", "bsd-2-clause", "bsd-3-clause", "isc", "mpl-2.0"}

\* What the filter asks of a family before it asks canirun.ai.  A family
\* that declares no languages is taken to speak all.
Matches(f) ==
  /\ criteria.task # NoTask => f.tag \in TagsOf(criteria.task)
  /\ criteria.commercial => IsCommercial(f.licence)
  /\ f.languages # {} => criteria.languages \subseteq f.languages

-----------------------------------------------------------------------------
(* The scorer.                                                             *)

\* A slip to catch: the cap is forgotten.
UncappedShare(x, y) == (100 * x) \div y

\* min(x / y, 1).
Share(x, y) == IF x >= y THEN 100 ELSE (100 * x) \div y

\* A slip to catch: the share itself is the score.
FitInverted(r) ==
  IF r.vram = 0 THEN 50 ELSE Share(r.vram, IF r.tps > 1 THEN r.tps ELSE 1)

\* ajuste_vram: what is required against tokens_per_second or 1, at least 1.
Fit(r) ==
  IF r.vram = 0 THEN 50 ELSE 100 - Share(r.vram, IF r.tps > 1 THEN r.tps ELSE 1)

Evidence(f) == IF f.tag = "code" THEN 100 ELSE 30

Documentation(f) ==
  50 + (IF f.licence # "" THEN 30 ELSE 0)
     + (IF Cardinality(f.languages) > 3 THEN 20 ELSE 0)

Size(r) == IF r.vram = 0 THEN 50 ELSE 100 - Share(r.vram, 32)

LicenceScore(f) ==
  IF f.licence \in {"mit", "apache-2.0", "bsd-2-clause", "bsd-3-clause", "isc"} THEN 100
  ELSE IF f.licence # "" THEN 50 ELSE 0

\* PESOS, and the weighted sum.
Total(f, r) ==
  35 * Fit(r) + 25 * Evidence(f) + 15 * Documentation(f) + 15 * Size(r)
    + 10 * LicenceScore(f)

Scores == 0 .. 10000

\* The field constraint ge=0, le=1 of SubPuntuacion.valor.
ValidScores(f, r) ==
  {Fit(r), Evidence(f), Documentation(f), Size(r), LicenceScore(f)} \subseteq 0 .. 100

-----------------------------------------------------------------------------
(* The pipeline.                                                           *)

Init ==
  /\ criteria \in Criteria
  /\ topN \in TopNs
  /\ stage = "asked"
  /\ models = <<>>
  /\ replies = <<>>
  /\ candidates = <<>>
  /\ ranked = <<>>
  /\ answer = <<>>

\* A negative number is an error; for zero nothing is loaded or asked.
Refuse ==
  /\ stage = "asked"
  /\ topN <= 0
  /\ stage' = IF topN < 0 THEN "refused" ELSE "answered"
  /\ UNCHANGED <<criteria, topN, models, replies, candidates, ranked, answer>>

\* The families given, or those of the seed file.
LoadFamilies ==
  /\ stage = "asked"
  /\ topN > 0
  /\ \E n \in 0 .. MaxFamilies : models' \in [1 .. n -> Pool]
  /\ stage' = "filtering"
  /\ UNCHANGED <<criteria, topN, replies, candidates, ranked, answer>>

\* load_seed finds no file, or an entry that is no family: the call raises.
SeedFails ==
  /\ stage = "asked"
  /\ topN > 0
  /\ stage' = "no_seed"
  /\ UNCHANGED <<criteria, topN, models, replies, candidates, ranked, answer>>

At     == Len(replies) + 1
Family == models[At]

\* The turn of the next family.
NextFamily ==
  /\ stage = "filtering"
  /\ At <= Len(models)
  /\ UNCHANGED <<criteria, topN, stage, models, ranked, answer>>

Skip ==
  /\ NextFamily
  /\ ~Matches(Family)
  /\ replies' = Append(replies, Unasked)
  /\ UNCHANGED candidates

\* CanIRunProvider.check: no mapping, an HTTP error, a timeout or an answer
\* that does not parse are all "unknown" with no numbers; never an exception.
Check(f) == IF f.mapped THEN Replies \cup {NoAnswer} ELSE {NoAnswer}

\* A slip to catch: only families that are known to fit are kept.
KnownToFit(r) == r.compatible = "yes"

\* The filter drops a family only if compatible is False.
Kept(r) == r.compatible # "no"

Ask ==
  /\ NextFamily
  /\ Matches(Family)
  /\ \E r \in Check(Family) :
        /\ replies' = Append(replies, r)
        /\ candidates' = IF Kept(r)
                         THEN Append(candidates, [at |-> At, reply |-> r])
                         ELSE candidates

FilterEnds ==
  /\ stage = "filtering"
  /\ Len(replies) = Len(models)
  /\ stage' = "ranking"
  /\ UNCHANGED <<criteria, topN, models, replies, candidates, ranked, answer>>

Candidate == candidates[Len(ranked) + 1]
Scored    == [at |-> Candidate.at, score |-> Total(models[Candidate.at], Candidate.reply)]

\* A slip to catch: sort in ascending order and reverse, ties included.
StaysAheadStrictly(c, new) == c.score > new.score

\* sorted(..., reverse=True) is stable: of equal scores the earlier is first.
StaysAhead(c, new) == c.score >= new.score

\* The next candidate is scored and takes its place.  The code scores all of
\* them and then sorts; a stable sort is the insertion of each in turn.  A
\* value that SubPuntuacion rejects leaves the pipeline as an exception.
ScoreNext ==
  /\ stage = "ranking"
  /\ Len(ranked) < Len(candidates)
  /\ \E k \in 0 .. Len(ranked) :
        /\ \A i \in 1 .. k : StaysAhead(ranked[i], Scored)
        /\ \A i \in k + 1 .. Len(ranked) : ~StaysAhead(ranked[i], Scored)
        /\ ranked' = [i \in 1 .. Len(ranked) + 1 |->
                        IF i <= k THEN ranked[i]
                        ELSE IF i = k + 1 THEN Scored ELSE ranked[i - 1]]
  /\ stage' = IF ValidScores(models[Candidate.at], Candidate.reply)
              THEN stage ELSE "score_rejected"
  /\ UNCHANGED <<criteria, topN, models, replies, candidates, answer>>

\* ordenados[:top_n].
Return ==
  /\ stage = "ranking"
  /\ Len(ranked) = Len(candidates)
  /\ stage' = "answered"
  /\ answer' = IF topN < Len(ranked) THEN SubSeq(ranked, 1, topN) ELSE ranked
  /\ UNCHANGED <<criteria, topN, models, replies, candidates, ranked>>

Next ==
  \/ Refuse \/ LoadFamilies \/ SeedFails
  \/ Skip \/ Ask \/ FilterEnds
  \/ ScoreNext \/ Return

Spec == Init /\ [][Next]_vars

-----------------------------------------------------------------------------

\* Type invariant: every variable keeps to the values the code gives it.
TypeOK ==
  /\ criteria \in Criteria
  /\ topN \in TopNs
  /\ stage \in Stages
  /\ models \in Seq(Pool)
  /\ replies \in Seq(Replies \cup {NoAnswer, Unasked})
  /\ candidates \in Seq([at : 1 .. Len(models), reply : Replies \cup {NoAnswer}])
  /\ ranked \in Seq([at : 1 .. Len(models), score : Scores])
  /\ answer \in Seq([at : 1 .. Len(models), score : Scores])

\* The families a recommendation may name: they meet the criteria, and
\* canirun.ai did not say no, whether it said yes or could not be asked.
Offered == {i \in 1 .. Len(models) : Matches(models[i]) /\ replies[i].compatible # "no"}

\* Of two families the one that scores higher is ahead, of equals the one
\* that the catalogue lists first.
Score(i)    == Total(models[i], replies[i])
Ahead(i, j) == Score(i) > Score(j) \/ (Score(i) = Score(j) /\ i < j)

\* The answer is the best topN of the families that could be offered, in
\* order, ties in the order of the catalogue; it is shorter than topN only
\* if it names them all.  An unreachable service takes no family away.  So
\* zero is answered by nothing, and no negative number is answered at all.
BestFirst ==
  stage = "answered" =>
    /\ Len(answer) <= topN
    /\ \A i \in DOMAIN answer : answer[i].at \in Offered
    /\ \A i, j \in DOMAIN answer : i < j => Ahead(answer[i].at, answer[j].at)
    /\ \A o \in Offered :
          \/ \E i \in DOMAIN answer : answer[i].at = o
          \/ /\ Len(answer) = topN
             /\ \A i \in DOMAIN answer : Ahead(answer[i].at, o)

\* Whatever canirun.ai estimates, zero and very large numbers included, no
\* sub-score leaves the range that SubPuntuacion accepts: scoring, which no
\* try block guards, never raises.
ScoringNeverFails == stage # "score_rejected"

\* Of two candidates that differ only in the estimate of the memory they
\* need, the lighter scores at least as well.
LighterScoresBetter ==
  \A i, j \in DOMAIN ranked :
     LET a == ranked[i].at
         b == ranked[j].at IN
     /\ models[a] = models[b]
     /\ replies[a].tps = replies[b].tps
     /\ 0 < replies[a].vram /\ replies[a].vram < replies[b].vram
     => ranked[i].score >= ranked[j].score

-----------------------------------------------------------------------------
(* What a comment says and the code does not do.                           *)

\* src/ranking/scorer.py: "VRAM fit (lower vram_required / available = better,
\* capped at 1)": the memory available is the same for all candidates of a
\* request, so the one that needs less fits at least as well.
LighterFitsBetter ==
  \A i, j \in DOMAIN candidates :
     LET r == candidates[i].reply
         s == candidates[j].reply IN
     0 < r.vram /\ r.vram < s.vram => Fit(r) >= Fit(s)

=============================================================================
