-------------------------- MODULE RecommendProofs --------------------------
(***************************************************************************)
(* Theorems about Recommend: for every catalogue, whatever canirun.ai      *)
(* answers, scoring does not fail, the lighter of two alike candidates is  *)
(* not scored lower, and the answer is the best topN of what was offered.  *)
(***************************************************************************)
EXTENDS Recommend, TLAPS

AllReplies == Replies \cup {NoAnswer}

-----------------------------------------------------------------------------
(* The scorer.                                                             *)

LEMMA ShareType ==
  ASSUME NEW x \in Nat, NEW y \in Nat \ {0} PROVE Share(x, y) \in 0 .. 100
BY SMTT(30) DEF Share

\* Of what is shared out, more of it is a larger share.
LEMMA ShareGrows ==
  ASSUME NEW x \in Nat, NEW z \in Nat, x <= z, NEW y \in Nat \ {0}
  PROVE  Share(x, y) <= Share(z, y)
BY SMTT(30) DEF Share

LEMMA ReplyType ==
  ASSUME NEW r \in AllReplies
  PROVE  r.vram \in Nat /\ r.tps \in Nat /\ r.compatible \in {"yes", "no", "unknown"}
BY InputAssumption DEF AllReplies, NoAnswer, CompatibilityResult

LEMMA PartTypes ==
  ASSUME NEW f, NEW r \in AllReplies
  PROVE  /\ Fit(r) \in 0 .. 100 /\ Size(r) \in 0 .. 100
         /\ Evidence(f) \in 0 .. 100 /\ Documentation(f) \in 0 .. 100
         /\ LicenceScore(f) \in 0 .. 100
<1> DEFINE y == IF r.tps > 1 THEN r.tps ELSE 1
<1>1. r.vram \in Nat /\ y \in Nat \ {0} /\ 32 \in Nat \ {0}
  BY ReplyType
<1>2. Fit(r) = IF r.vram = 0 THEN 50 ELSE 100 - Share(r.vram, y)
  BY DEF Fit
<1> HIDE DEF y
<1>3. Share(r.vram, y) \in 0 .. 100 /\ Share(r.vram, 32) \in 0 .. 100
  BY <1>1, ShareType
<1>4. Fit(r) \in 0 .. 100
  BY <1>2, <1>3
<1>5. Size(r) \in 0 .. 100
  BY <1>3 DEF Size
<1>6. Evidence(f) \in 0 .. 100
  BY DEF Evidence
<1>7. Documentation(f) \in 0 .. 100
  <2> DEFINE a == IF f.licence # "" THEN 30 ELSE 0
             b == IF Cardinality(f.languages) > 3 THEN 20 ELSE 0
  <2>1. a \in {0, 30} /\ b \in {0, 20} /\ Documentation(f) = 50 + a + b
    BY Zenon DEF Documentation
  <2> HIDE DEF a, b
  <2> QED BY <2>1
<1>8. LicenceScore(f) \in 0 .. 100
  BY DEF LicenceScore
<1> QED
  BY <1>4, <1>5, <1>6, <1>7, <1>8

LEMMA ScoresAreNumbers == Scores \subseteq Int
BY DEF Scores

LEMMA ScoreType ==
  ASSUME NEW f, NEW r \in AllReplies
  PROVE  ValidScores(f, r) /\ Total(f, r) \in Scores
<1>1. /\ Fit(r) \in 0 .. 100 /\ Size(r) \in 0 .. 100
      /\ Evidence(f) \in 0 .. 100 /\ Documentation(f) \in 0 .. 100
      /\ LicenceScore(f) \in 0 .. 100
  BY PartTypes
<1>2. ValidScores(f, r)
  BY <1>1 DEF ValidScores
<1>3. Total(f, r) \in Scores
  <2> DEFINE a == Fit(r)
             b == Evidence(f)
             c == Documentation(f)
             d == Size(r)
             e == LicenceScore(f)
  <2>1. Total(f, r) = 35 * a + 25 * b + 15 * c + 15 * d + 10 * e
    BY DEF Total
  <2>2. a \in 0 .. 100 /\ b \in 0 .. 100 /\ c \in 0 .. 100 /\ d \in 0 .. 100 /\ e \in 0 .. 100
    BY <1>1
  <2> HIDE DEF a, b, c, d, e
  <2>3. /\ 35 * a \in 0 .. 3500 /\ 25 * b \in 0 .. 2500 /\ 15 * c \in 0 .. 1500
        /\ 15 * d \in 0 .. 1500 /\ 10 * e \in 0 .. 1000
    BY <2>2
  <2> DEFINE A == 35 * a
             B == 25 * b
             C == 15 * c
             D == 15 * d
             E == 10 * e
  <2>4. Total(f, r) = A + B + C + D + E
    BY <2>1
  <2>5. A \in 0 .. 3500 /\ B \in 0 .. 2500 /\ C \in 0 .. 1500 /\ D \in 0 .. 1500
        /\ E \in 0 .. 1000
    BY <2>3
  <2> HIDE DEF A, B, C, D, E
  <2> QED BY <2>4, <2>5 DEF Scores
<1> QED BY <1>2, <1>3

\* With the same speed, less memory required means no lower a score.
LEMMA LighterTotal ==
  ASSUME NEW f, NEW r \in AllReplies, NEW s \in AllReplies,
         r.tps = s.tps, 0 < r.vram, r.vram < s.vram
  PROVE  Total(f, r) >= Total(f, s)
<1> DEFINE y == IF r.tps > 1 THEN r.tps ELSE 1
<1>1. /\ r.vram \in Nat /\ s.vram \in Nat /\ r.vram <= s.vram
      /\ y \in Nat \ {0} /\ 32 \in Nat \ {0}
  BY ReplyType
<1>2. Fit(r) = 100 - Share(r.vram, y) /\ Fit(s) = 100 - Share(s.vram, y)
  BY <1>1 DEF Fit
<1> HIDE DEF y
<1>3. /\ Share(r.vram, y) <= Share(s.vram, y)
      /\ Share(r.vram, 32) <= Share(s.vram, 32)
  BY <1>1, ShareGrows
<1>4. Share(r.vram, y) \in 0 .. 100 /\ Share(s.vram, y) \in 0 .. 100
      /\ Share(r.vram, 32) \in 0 .. 100 /\ Share(s.vram, 32) \in 0 .. 100
  BY <1>1, ShareType
<1>5. Fit(r) >= Fit(s)
  BY <1>2, <1>3, <1>4
<1>6. Size(r) >= Size(s)
  BY <1>1, <1>3, <1>4 DEF Size
<1>7. /\ Fit(r) \in 0 .. 100 /\ Fit(s) \in 0 .. 100
      /\ Size(r) \in 0 .. 100 /\ Size(s) \in 0 .. 100
      /\ Evidence(f) \in 0 .. 100 /\ Documentation(f) \in 0 .. 100
      /\ LicenceScore(f) \in 0 .. 100
  BY PartTypes
<1>8. Total(f, r) >= Total(f, s)
  <2> DEFINE a  == Fit(r)
             aa == Fit(s)
             d  == Size(r)
             dd == Size(s)
             b  == Evidence(f)
             c  == Documentation(f)
             e  == LicenceScore(f)
  <2>1. /\ Total(f, r) = 35 * a + 25 * b + 15 * c + 15 * d + 10 * e
        /\ Total(f, s) = 35 * aa + 25 * b + 15 * c + 15 * dd + 10 * e
    BY DEF Total
  <2>2. /\ a \in 0 .. 100 /\ aa \in 0 .. 100 /\ d \in 0 .. 100 /\ dd \in 0 .. 100
        /\ b \in 0 .. 100 /\ c \in 0 .. 100 /\ e \in 0 .. 100
    BY <1>7
  <2>3. a >= aa /\ d >= dd
    BY <1>5, <1>6
  <2> HIDE DEF a, aa, b, c, d, dd, e
  <2> QED BY <2>1, <2>2, <2>3
<1> QED
  BY <1>8

-----------------------------------------------------------------------------
(* The inductive invariant.                                                *)

\* The candidates are the families offered so far, in catalogue order.
CandidatesInv ==
  /\ \A i \in DOMAIN candidates :
        LET c == candidates[i] IN
        /\ c.at \in 1 .. Len(replies)
        /\ Matches(models[c.at])
        /\ c.reply = replies[c.at] /\ c.reply.compatible # "no"
  /\ \A i, j \in DOMAIN candidates : i < j => candidates[i].at < candidates[j].at
  /\ \A o \in 1 .. Len(replies) :
        Matches(models[o]) /\ replies[o].compatible # "no"
           => \E i \in DOMAIN candidates : candidates[i].at = o

\* The ranked ones are the candidates scored so far, in the order promised.
RankedInv ==
  /\ Len(ranked) <= Len(candidates)
  /\ \A i \in DOMAIN ranked :
        /\ \E n \in 1 .. Len(ranked) : ranked[i].at = candidates[n].at
        /\ ranked[i].score = Score(ranked[i].at)
  /\ \A n \in 1 .. Len(ranked) : \E i \in DOMAIN ranked : ranked[i].at = candidates[n].at
  /\ \A i, j \in DOMAIN ranked : i < j => Ahead(ranked[i].at, ranked[j].at)

\* What each stage has left behind it.
StageInv ==
  /\ stage = "asked" => replies = <<>> /\ candidates = <<>> /\ models = <<>>
  /\ stage \in {"asked", "filtering"} => ranked = <<>>
  /\ stage = "filtering" => Len(replies) <= Len(models)
  /\ stage = "ranking" => Len(replies) = Len(models)
  /\ stage \in {"filtering", "ranking"} => topN > 0
  /\ stage = "answered" => topN >= 0
  /\ stage = "answered" /\ topN = 0 => answer = <<>> /\ models = <<>>
  /\ stage = "answered" /\ topN > 0 =>
        /\ Len(replies) = Len(models)
        /\ Len(ranked) = Len(candidates)
        /\ answer = IF topN < Len(ranked) THEN SubSeq(ranked, 1, topN) ELSE ranked

PipelineInv ==
  /\ TypeOK
  /\ ScoringNeverFails
  /\ CandidatesInv
  /\ RankedInv
  /\ StageInv

LEMMA PipelineInit == Init => PipelineInv
BY DEF Init, PipelineInv, TypeOK, ScoringNeverFails, CandidatesInv, RankedInv,
       StageInv, Stages

\* A family of the catalogue, once it has been handled, has an answer.
LEMMA OfferedCandidates ==
  ASSUME PipelineInv, NEW i \in DOMAIN candidates
  PROVE  /\ candidates[i].at \in 1 .. Len(models)
         /\ candidates[i].reply \in AllReplies
         /\ models[candidates[i].at] \in Pool
<1> DEFINE C == [at : 1 .. Len(models), reply : AllReplies]
<1>1. candidates \in Seq(C)
  BY DEF PipelineInv, TypeOK, AllReplies
<1>2. candidates[i] \in C
  <2> HIDE DEF C
  <2> QED BY <1>1
<1>3. models \in Seq(Pool)
  BY DEF PipelineInv, TypeOK
<1> QED BY <1>2, <1>3

\* Skip and Ask: what both leave alone.
LEMMA TurnKeeps ==
  ASSUME PipelineInv, NextFamily, NEW r \in AllReplies \cup {Unasked},
         replies' = Append(replies, r)
  PROVE  /\ Len(replies') = Len(replies) + 1
         /\ \A i \in 1 .. Len(replies) : replies'[i] = replies[i]
         /\ replies'[At] = r
         /\ replies' \in Seq(AllReplies \cup {Unasked})
         /\ StageInv' /\ ScoringNeverFails'
         /\ \A f : Matches(f)' = Matches(f)
<1>1. replies \in Seq(AllReplies \cup {Unasked}) /\ models \in Seq(Pool)
  BY DEF PipelineInv, TypeOK, AllReplies
<1>2. /\ Len(replies') = Len(replies) + 1
      /\ \A i \in 1 .. Len(replies) : replies'[i] = replies[i]
      /\ replies'[At] = r
      /\ replies' \in Seq(AllReplies \cup {Unasked})
  BY <1>1 DEF At
<1>3. UNCHANGED <<criteria, topN, stage, models, ranked, answer>>
      /\ stage = "filtering" /\ ranked = <<>> /\ At <= Len(models)
  BY DEF NextFamily, PipelineInv, StageInv
<1> QED BY <1>2, <1>3 DEF PipelineInv, StageInv, ScoringNeverFails, Matches, At

\* The steps before the filter and those that end it leave nothing ranked.
LEMMA StartsKeep ==
  ASSUME PipelineInv, Refuse \/ LoadFamilies \/ SeedFails PROVE PipelineInv'
<1>1. /\ stage = "asked" /\ replies = <<>> /\ candidates = <<>> /\ models = <<>>
      /\ ranked = <<>> /\ answer \in Seq([at : 1 .. 0, score : Scores])
  BY DEF Refuse, LoadFamilies, SeedFails, PipelineInv, StageInv, TypeOK
<1>2. /\ UNCHANGED <<criteria, topN, replies, candidates, ranked, answer>>
      /\ stage' \in {"refused", "answered", "filtering", "no_seed"}
      /\ stage' = "answered" => topN = 0 /\ models' = models
      /\ stage' = "filtering" => topN > 0
      /\ topN \in Int
  BY InputAssumption DEF Refuse, LoadFamilies, SeedFails, PipelineInv, TypeOK
<1>3. models' \in Seq(Pool)
  BY <1>1 DEF Refuse, LoadFamilies, SeedFails, PipelineInv, TypeOK
<1>4. answer = <<>>
  BY <1>1 DEF PipelineInv
<1>5. TypeOK'
  BY <1>1, <1>2, <1>3, <1>4 DEF PipelineInv, TypeOK, Stages
<1>6. CandidatesInv' /\ RankedInv'
  BY <1>1, <1>2 DEF CandidatesInv, RankedInv
<1>7. ScoringNeverFails' /\ StageInv'
  BY <1>1, <1>2, <1>3, <1>4 DEF ScoringNeverFails, StageInv
<1> QED BY <1>5, <1>6, <1>7 DEF PipelineInv

LEMMA SkipKeeps == ASSUME PipelineInv, Skip PROVE PipelineInv'
<1>1. /\ UNCHANGED <<criteria, topN, stage, models, candidates, ranked, answer>>
      /\ ranked = <<>> /\ ~Matches(models[At]) /\ At = Len(replies) + 1
  BY DEF Skip, NextFamily, PipelineInv, StageInv, Family, At
<1>2. /\ Len(replies') = Len(replies) + 1
      /\ \A i \in 1 .. Len(replies) : replies'[i] = replies[i]
      /\ replies' \in Seq(AllReplies \cup {Unasked})
      /\ StageInv' /\ ScoringNeverFails'
      /\ \A f : Matches(f)' = Matches(f)
  BY TurnKeeps DEF Skip
<1>3. TypeOK'
  BY <1>1, <1>2 DEF PipelineInv, TypeOK, AllReplies
<1>4. Len(replies) \in Nat
  BY DEF PipelineInv, TypeOK
<1>5. CandidatesInv'
  BY <1>1, <1>2, <1>4 DEF PipelineInv, CandidatesInv
<1>6. RankedInv'
  BY <1>1 DEF PipelineInv, RankedInv
<1> QED BY <1>2, <1>3, <1>5, <1>6 DEF PipelineInv

LEMMA AskKeeps == ASSUME PipelineInv, Ask PROVE PipelineInv'
<1>1. /\ UNCHANGED <<criteria, topN, stage, models, ranked, answer>>
      /\ ranked = <<>> /\ Matches(models[At])
      /\ At = Len(replies) + 1 /\ At <= Len(models) /\ Len(replies) \in Nat
      /\ Len(models) \in Nat
  BY DEF Ask, NextFamily, PipelineInv, StageInv, Family, At, TypeOK
<1>2. PICK r \in AllReplies :
        /\ replies' = Append(replies, r)
        /\ candidates' = IF Kept(r) THEN Append(candidates, [at |-> At, reply |-> r])
                         ELSE candidates
  BY DEF Ask, Check, AllReplies
<1>3. /\ Len(replies') = Len(replies) + 1
      /\ \A i \in 1 .. Len(replies) : replies'[i] = replies[i]
      /\ replies'[At] = r
      /\ replies' \in Seq(AllReplies \cup {Unasked})
      /\ StageInv' /\ ScoringNeverFails'
      /\ \A f : Matches(f)' = Matches(f)
  BY <1>2, TurnKeeps DEF Ask
<1> DEFINE C == [at : 1 .. Len(models), reply : AllReplies]
           c == [at |-> At, reply |-> r]
<1>4. candidates \in Seq(C) /\ c \in C
  BY <1>1 DEF PipelineInv, TypeOK, AllReplies
<1>5. /\ candidates' \in Seq(C)
      /\ Len(candidates) \in Nat /\ DOMAIN candidates = 1 .. Len(candidates)
      /\ \A i \in DOMAIN candidates : candidates'[i] = candidates[i]
      /\ \/ /\ Kept(r) /\ Len(candidates') = Len(candidates) + 1
            /\ DOMAIN candidates' = 1 .. Len(candidates) + 1
            /\ candidates'[Len(candidates) + 1] = c
         \/ ~Kept(r) /\ candidates' = candidates
  <2> HIDE DEF C, c
  <2>1. candidates' = IF Kept(r) THEN Append(candidates, c) ELSE candidates
    BY <1>2 DEF c
  <2> QED BY <1>4, <2>1
<1>6. TypeOK'
  BY <1>1, <1>3, <1>5 DEF PipelineInv, TypeOK, AllReplies
<1> HIDE DEF C
<1>7. /\ c.at = At /\ c.reply = r /\ c.reply = replies'[At] /\ Len(replies') = At
      /\ Kept(r) <=> r.compatible # "no"
  BY <1>1, <1>3 DEF Kept
<1> HIDE DEF c
<1>8. \A i \in DOMAIN candidates :
        /\ candidates[i].at \in 1 .. Len(replies)
        /\ Matches(models[candidates[i].at])
        /\ candidates[i].reply = replies[candidates[i].at]
        /\ candidates[i].reply.compatible # "no"
  BY DEF PipelineInv, CandidatesInv
<1>9. \A i, j \in DOMAIN candidates : i < j => candidates[i].at < candidates[j].at
  BY DEF PipelineInv, CandidatesInv
<1>10. \A i \in DOMAIN candidates' :
         \/ i \in DOMAIN candidates /\ candidates'[i] = candidates[i]
         \/ i = Len(candidates) + 1 /\ Kept(r) /\ candidates'[i] = c
  BY <1>5
<1>11. \A i \in DOMAIN candidates' :
         /\ candidates'[i].at \in 1 .. Len(replies')
         /\ Matches(models[candidates'[i].at])
         /\ candidates'[i].reply = replies'[candidates'[i].at]
         /\ candidates'[i].reply.compatible # "no"
  <2> TAKE i \in DOMAIN candidates'
  <2>1. CASE i \in DOMAIN candidates /\ candidates'[i] = candidates[i]
    BY <2>1, <1>8, <1>3, <1>1
  <2>2. CASE Kept(r) /\ candidates'[i] = c
    BY <2>2, <1>7, <1>1
  <2> QED BY <2>1, <2>2, <1>10
<1>12. \A i, j \in DOMAIN candidates' : i < j => candidates'[i].at < candidates'[j].at
  <2> SUFFICES ASSUME NEW i \in DOMAIN candidates', NEW j \in DOMAIN candidates', i < j
               PROVE  candidates'[i].at < candidates'[j].at
    OBVIOUS
  <2>1. i \in DOMAIN candidates /\ candidates'[i] = candidates[i]
    BY <1>5, <1>10
  <2>2. CASE j \in DOMAIN candidates /\ candidates'[j] = candidates[j]
    BY <2>1, <2>2, <1>9
  <2>3. CASE candidates'[j] = c
    BY <2>1, <2>3, <1>8, <1>7, <1>1
  <2> QED BY <2>2, <2>3, <1>10
<1>13. ASSUME NEW o \in 1 .. Len(replies'),
              Matches(models[o]), replies'[o].compatible # "no"
       PROVE  \E i \in DOMAIN candidates' : candidates'[i].at = o
  <2>1. CASE o \in 1 .. Len(replies)
    <3>1. replies[o].compatible # "no"
      BY <2>1, <1>3, <1>13
    <3>2. PICK i \in DOMAIN candidates : candidates[i].at = o
      BY <3>1, <2>1, <1>13 DEF PipelineInv, CandidatesInv
    <3> QED BY <3>2, <1>5
  <2>2. CASE o = At
    <3>1. Kept(r)
      BY <2>2, <1>3, <1>7, <1>13
    <3> QED BY <3>1, <2>2, <1>7, <1>5
  <2> QED BY <2>1, <2>2, <1>1, <1>3
<1>14. CandidatesInv'
  BY <1>1, <1>3, <1>11, <1>12, <1>13 DEF CandidatesInv
<1>15. RankedInv'
  BY <1>1, <1>5 DEF RankedInv
<1> QED BY <1>3, <1>6, <1>14, <1>15 DEF PipelineInv

LEMMA FilterEndsKeeps == ASSUME PipelineInv, FilterEnds PROVE PipelineInv'
<1>1. /\ UNCHANGED <<criteria, topN, models, replies, candidates, ranked, answer>>
      /\ stage = "filtering" /\ stage' = "ranking" /\ Len(replies) = Len(models)
      /\ ranked = <<>> /\ topN > 0
  BY DEF FilterEnds, PipelineInv, StageInv
<1>2. TypeOK' /\ ScoringNeverFails' /\ StageInv'
  BY <1>1 DEF PipelineInv, TypeOK, Stages, ScoringNeverFails, StageInv
<1>3. CandidatesInv'
  BY <1>1 DEF PipelineInv, CandidatesInv, Matches
<1>4. RankedInv'
  BY <1>1 DEF PipelineInv, RankedInv
<1> QED BY <1>2, <1>3, <1>4 DEF PipelineInv

LEMMA ReturnKeeps == ASSUME PipelineInv, Return PROVE PipelineInv'
<1>1. /\ UNCHANGED <<criteria, topN, models, replies, candidates, ranked>>
      /\ stage = "ranking" /\ stage' = "answered" /\ Len(replies) = Len(models)
      /\ Len(ranked) = Len(candidates)
      /\ answer' = IF topN < Len(ranked) THEN SubSeq(ranked, 1, topN) ELSE ranked
      /\ topN \in Int /\ topN > 0
  BY InputAssumption DEF Return, PipelineInv, StageInv, TypeOK
<1> DEFINE R == [at : 1 .. Len(models), score : Scores]
<1>2. ranked \in Seq(R)
  BY DEF PipelineInv, TypeOK
<1>3. answer' \in Seq(R)
  <2> HIDE DEF R
  <2> QED BY <1>1, <1>2
<1>4. TypeOK' /\ ScoringNeverFails' /\ StageInv'
  BY <1>1, <1>3 DEF PipelineInv, TypeOK, Stages, ScoringNeverFails, StageInv
<1>5. CandidatesInv'
  BY <1>1 DEF PipelineInv, CandidatesInv, Matches
<1>6. RankedInv'
  BY <1>1 DEF PipelineInv, RankedInv, Ahead, Score
<1> QED BY <1>4, <1>5, <1>6 DEF PipelineInv

\* What the next candidate is scored with and how.
LEMMA NextScored ==
  ASSUME PipelineInv, Len(ranked) < Len(candidates)
  PROVE  /\ Len(ranked) \in Nat /\ Len(ranked) + 1 \in DOMAIN candidates
         /\ Candidate = candidates[Len(ranked) + 1]
         /\ Candidate.at \in 1 .. Len(models)
         /\ ValidScores(models[Candidate.at], Candidate.reply)
         /\ Scored \in [at : 1 .. Len(models), score : Scores]
         /\ Scored.at = Candidate.at
         /\ Scored.score = Score(Candidate.at)
<1>1. Len(ranked) \in Nat /\ Len(ranked) + 1 \in DOMAIN candidates
  <2>1. Len(ranked) \in Nat /\ Len(candidates) \in Nat
        /\ DOMAIN candidates = 1 .. Len(candidates)
    BY DEF PipelineInv, TypeOK
  <2> QED BY <2>1
<1>2. /\ Candidate.at \in 1 .. Len(models) /\ Candidate.reply \in AllReplies
      /\ Candidate.reply = replies[Candidate.at]
  BY <1>1, OfferedCandidates DEF Candidate, PipelineInv, CandidatesInv
<1> DEFINE c == Candidate
           f == models[c.at]
<1>3. ValidScores(f, c.reply) /\ Total(f, c.reply) \in Scores
  <2>1. c.reply \in AllReplies
    BY <1>2
  <2> HIDE DEF c, f
  <2> QED BY <2>1, ScoreType
<1>4. Candidate = candidates[Len(ranked) + 1]
  BY DEF Candidate
<1>5. Scored = [at |-> c.at, score |-> Total(f, c.reply)]
  BY DEF Scored
<1>6. Score(c.at) = Total(f, c.reply)
  BY <1>2 DEF Score
<1> QED BY <1>1, <1>2, <1>3, <1>4, <1>5, <1>6

\* Ranked families have integer scores.
LEMMA RankedScores ==
  ASSUME PipelineInv, NEW i \in DOMAIN ranked
  PROVE  /\ ranked[i].at \in 1 .. Len(models) /\ ranked[i].score \in Scores
         /\ ranked[i].score = Score(ranked[i].at)
<1> DEFINE R == [at : 1 .. Len(models), score : Scores]
<1>1. ranked \in Seq(R)
  BY DEF PipelineInv, TypeOK
<1>2. ranked[i] \in R
  <2> HIDE DEF R
  <2> QED BY <1>1
<1>3. ranked[i].score = Score(ranked[i].at)
  BY DEF PipelineInv, RankedInv
<1> QED BY <1>2, <1>3

LEMMA ScoreNextKeeps == ASSUME PipelineInv, ScoreNext PROVE PipelineInv'
<1> DEFINE R == [at : 1 .. Len(models), score : Scores]
           n == Len(ranked)
           new == Scored
<1>1. /\ UNCHANGED <<criteria, topN, models, replies, candidates, answer>>
      /\ stage = "ranking" /\ n < Len(candidates)
  BY DEF ScoreNext
<1>2. /\ n \in Nat /\ n + 1 \in DOMAIN candidates
      /\ Candidate = candidates[n + 1]
      /\ ValidScores(models[Candidate.at], Candidate.reply)
      /\ new \in R /\ new.at = Candidate.at /\ new.score = Score(new.at)
  BY <1>1, NextScored
<1>3. stage' = stage
  BY <1>2 DEF ScoreNext
<1>4. PICK k \in 0 .. n :
        /\ \A i \in 1 .. k : StaysAhead(ranked[i], new)
        /\ \A i \in k + 1 .. n : ~StaysAhead(ranked[i], new)
        /\ ranked' = [i \in 1 .. n + 1 |->
                        IF i <= k THEN ranked[i]
                        ELSE IF i = k + 1 THEN new ELSE ranked[i - 1]]
  BY DEF ScoreNext
<1>5. ranked \in Seq(R) /\ DOMAIN ranked = 1 .. n
  BY DEF PipelineInv, TypeOK
<1>6. new.at \in 1 .. Len(models) /\ new.score \in Int /\ Len(candidates) \in Nat
      /\ DOMAIN candidates = 1 .. Len(candidates) /\ new.at = candidates[n + 1].at
  <2>1. Len(candidates) \in Nat /\ DOMAIN candidates = 1 .. Len(candidates)
    BY DEF PipelineInv, TypeOK
  <2>2. new.at \in 1 .. Len(models) /\ new.score \in Scores
    <3> HIDE DEF new
    <3> QED BY <1>2
  <2> QED BY <2>1, <2>2, <1>2, ScoresAreNumbers
<1>7. \A i \in 1 .. n :
        /\ ranked[i].at \in 1 .. Len(models) /\ ranked[i].score \in Int
        /\ ranked[i].score = Score(ranked[i].at)
  BY <1>5, RankedScores, ScoresAreNumbers
<1>8. \A i \in 1 .. n : ranked[i].at < new.at
  <2> TAKE i \in 1 .. n
  <2>1. PICK m \in 1 .. n : ranked[i].at = candidates[m].at
    BY <1>5 DEF PipelineInv, RankedInv
  <2> QED BY <2>1, <1>2, <1>6 DEF PipelineInv, CandidatesInv
<1>9. \A i \in 1 .. k : Ahead(ranked[i].at, new.at)
  BY <1>2, <1>4, <1>6, <1>7, <1>8 DEF StaysAhead, Ahead
<1>10. \A i \in k + 1 .. n : Ahead(new.at, ranked[i].at)
  BY <1>2, <1>4, <1>6, <1>7, <1>8 DEF StaysAhead, Ahead
<1>11. \A i, j \in 1 .. n : i < j => Ahead(ranked[i].at, ranked[j].at)
  BY <1>5 DEF PipelineInv, RankedInv
<1> HIDE DEF R, n, new
<1>12. /\ ranked' \in Seq(R) /\ Len(ranked') = n + 1 /\ DOMAIN ranked' = 1 .. n + 1
       /\ \A i \in 1 .. k : ranked'[i] = ranked[i]
       /\ ranked'[k + 1] = new
       /\ \A i \in k + 1 .. n : ranked'[i + 1] = ranked[i]
  <2>1. \A i \in 1 .. n : ranked[i] \in R
    BY <1>5 DEF n
  <2>2. \A i \in 1 .. n + 1 : (IF i <= k THEN ranked[i]
                               ELSE IF i = k + 1 THEN new ELSE ranked[i - 1]) \in R
    BY <2>1, <1>2, <1>4
  <2>3. ranked' \in [1 .. n + 1 -> R]
    BY <2>2, <1>4
  <2>4. n + 1 \in Nat
    BY <1>2
  <2>5. ranked' \in Seq(R) /\ Len(ranked') = n + 1 /\ DOMAIN ranked' = 1 .. n + 1
    BY <2>3, <2>4
  <2>6. /\ \A i \in 1 .. k : ranked'[i] = ranked[i]
        /\ ranked'[k + 1] = new
        /\ \A i \in k + 1 .. n : ranked'[i + 1] = ranked[i]
    BY <1>2, <1>4
  <2> QED BY <2>5, <2>6
<1>13. \A i \in 1 .. n + 1 :
         \/ i \in 1 .. k /\ ranked'[i] = ranked[i]
         \/ i = k + 1 /\ ranked'[i] = new
         \/ i - 1 \in k + 1 .. n /\ ranked'[i] = ranked[i - 1]
  BY <1>2, <1>4
<1>14. \A i \in 1 .. n + 1 :
         /\ \E m \in 1 .. n + 1 : ranked'[i].at = candidates[m].at
         /\ ranked'[i].score = Score(ranked'[i].at)
  <2> TAKE i \in 1 .. n + 1
  <2>1. CASE ranked'[i] = new
    BY <2>1, <1>2, <1>6
  <2>2. ASSUME NEW l \in 1 .. n, ranked'[i] = ranked[l]
        PROVE  /\ \E m \in 1 .. n + 1 : ranked'[i].at = candidates[m].at
               /\ ranked'[i].score = Score(ranked'[i].at)
    <3>1. PICK m \in 1 .. n : ranked[l].at = candidates[m].at
      BY <1>5 DEF PipelineInv, RankedInv, n
    <3> QED BY <3>1, <2>2, <1>2, <1>7
  <2>3. ranked'[i] = new \/ \E l \in 1 .. n : ranked'[i] = ranked[l]
    BY <1>13, <1>2, <1>4
  <2> QED BY <2>1, <2>2, <2>3
<1>15. \A m \in 1 .. n + 1 : \E i \in 1 .. n + 1 : ranked'[i].at = candidates[m].at
  <2> TAKE m \in 1 .. n + 1
  <2>1. CASE m = n + 1
    <3>1. k + 1 \in 1 .. n + 1 /\ ranked'[k + 1].at = candidates[m].at
      BY <2>1, <1>12, <1>6, <1>2, <1>4
    <3> QED BY <3>1
  <2>2. CASE m \in 1 .. n
    <3>1. PICK i \in 1 .. n : ranked[i].at = candidates[m].at
      BY <2>2, <1>5 DEF PipelineInv, RankedInv, n
    <3>2. CASE i \in 1 .. k
      BY <3>1, <3>2, <1>12, <1>2
    <3>3. CASE i \in k + 1 .. n
      <4>1. i + 1 \in 1 .. n + 1 /\ ranked'[i + 1].at = candidates[m].at
        BY <3>1, <3>3, <1>12, <1>2, <1>4
      <4> QED BY <4>1
    <3> QED BY <3>2, <3>3, <1>2, <1>4
  <2> QED BY <2>1, <2>2, <1>2
<1>16. ASSUME NEW i \in 1 .. n + 1, NEW j \in 1 .. n + 1, i < j
       PROVE  Ahead(ranked'[i].at, ranked'[j].at)
  <2>1. CASE i \in 1 .. k /\ ranked'[i] = ranked[i]
    <3>1. CASE j \in 1 .. k /\ ranked'[j] = ranked[j]
      BY <2>1, <3>1, <1>11, <1>16, <1>2, <1>4
    <3>2. CASE j = k + 1 /\ ranked'[j] = new
      BY <2>1, <3>2, <1>9
    <3>3. CASE j - 1 \in k + 1 .. n /\ ranked'[j] = ranked[j - 1]
      <4>1. i \in 1 .. n /\ j - 1 \in 1 .. n /\ i < j - 1
        BY <2>1, <3>3, <1>2, <1>4
      <4> QED BY <4>1, <2>1, <3>3, <1>11
    <3> QED BY <3>1, <3>2, <3>3, <1>13
  <2>2. CASE i = k + 1 /\ ranked'[i] = new
    <3>1. j - 1 \in k + 1 .. n /\ ranked'[j] = ranked[j - 1]
      BY <2>2, <1>13, <1>16, <1>2, <1>4
    <3> QED BY <2>2, <3>1, <1>10
  <2>3. CASE i - 1 \in k + 1 .. n /\ ranked'[i] = ranked[i - 1]
    <3>1. j - 1 \in k + 1 .. n /\ ranked'[j] = ranked[j - 1]
      BY <2>3, <1>13, <1>16, <1>2, <1>4
    <3>2. i - 1 \in 1 .. n /\ j - 1 \in 1 .. n /\ i - 1 < j - 1
      BY <2>3, <3>1, <1>16, <1>2, <1>4
    <3> QED BY <2>3, <3>1, <3>2, <1>11
  <2> QED BY <2>1, <2>2, <2>3, <1>13
<1>17. \A f, g : Ahead(f, g)' <=> Ahead(f, g)
  BY <1>1 DEF Ahead, Score
<1>18. \A f : Score(f)' = Score(f)
  BY <1>1 DEF Score
<1>19. RankedInv'
  <2>1. Len(ranked') <= Len(candidates')
    BY <1>1, <1>2, <1>6, <1>12
  <2>2. \A i \in DOMAIN ranked' :
          /\ \E m \in 1 .. Len(ranked') : ranked'[i].at = candidates'[m].at
          /\ ranked'[i].score = Score(ranked[i].at)'
    BY <1>1, <1>12, <1>14, <1>18 DEF Score
  <2>3. \A m \in 1 .. Len(ranked') :
           \E i \in DOMAIN ranked' : ranked'[i].at = candidates'[m].at
    BY <1>1, <1>12, <1>15
  <2>4. \A i, j \in DOMAIN ranked' : i < j => Ahead(ranked[i].at, ranked[j].at)'
    BY <1>1, <1>12, <1>16 DEF Ahead, Score
  <2> QED BY <2>1, <2>2, <2>3, <2>4 DEF RankedInv
<1>20. TypeOK'
  BY <1>1, <1>3, <1>12 DEF PipelineInv, TypeOK, R
<1>21. StageInv' /\ ScoringNeverFails'
  BY <1>1, <1>3 DEF PipelineInv, StageInv, ScoringNeverFails
<1>22. CandidatesInv'
  BY <1>1 DEF PipelineInv, CandidatesInv, Matches
<1> QED BY <1>19, <1>20, <1>21, <1>22 DEF PipelineInv

LEMMA PipelineStep == PipelineInv /\ [Next]_vars => PipelineInv'
<1> SUFFICES ASSUME PipelineInv, [Next]_vars PROVE PipelineInv'
  OBVIOUS
<1>1. CASE Refuse \/ LoadFamilies \/ SeedFails
  BY <1>1, StartsKeep
<1>2. CASE Skip
  BY <1>2, SkipKeeps
<1>3. CASE Ask
  BY <1>3, AskKeeps
<1>4. CASE FilterEnds
  BY <1>4, FilterEndsKeeps
<1>5. CASE ScoreNext
  BY <1>5, ScoreNextKeeps
<1>6. CASE Return
  BY <1>6, ReturnKeeps
<1>7. CASE UNCHANGED vars
  <2>1. TypeOK' /\ ScoringNeverFails' /\ StageInv'
    BY <1>7 DEF vars, PipelineInv, TypeOK, ScoringNeverFails, StageInv
  <2>2. CandidatesInv'
    BY <1>7 DEF vars, PipelineInv, CandidatesInv, Matches
  <2>3. RankedInv'
    BY <1>7 DEF vars, PipelineInv, RankedInv, Ahead, Score
  <2> QED BY <2>1, <2>2, <2>3 DEF PipelineInv
<1> QED BY <1>1, <1>2, <1>3, <1>4, <1>5, <1>6, <1>7 DEF Next

LEMMA PipelineAlways == Spec => []PipelineInv
BY PipelineInit, PipelineStep, PTL DEF Spec

-----------------------------------------------------------------------------
(* The theorems.                                                           *)

\* Type correctness: scores stay within the range they are rounded to.
THEOREM TypeCorrect == Spec => []TypeOK
<1>1. PipelineInv => TypeOK
  BY DEF PipelineInv
<1> QED BY <1>1, PipelineAlways, PTL

\* Whatever canirun.ai estimates, no sub-score is rejected by its validator.
THEOREM ScoringSafe == Spec => []ScoringNeverFails
<1>1. PipelineInv => ScoringNeverFails
  BY DEF PipelineInv
<1> QED BY <1>1, PipelineAlways, PTL

\* Of two candidates that differ only in the memory they need, the lighter
\* does not score lower.
THEOREM LighterNotLower == Spec => []LighterScoresBetter
<1>1. ASSUME PipelineInv, NEW i \in DOMAIN ranked, NEW j \in DOMAIN ranked,
             models[ranked[i].at] = models[ranked[j].at],
             replies[ranked[i].at].tps = replies[ranked[j].at].tps,
             0 < replies[ranked[i].at].vram,
             replies[ranked[i].at].vram < replies[ranked[j].at].vram
      PROVE  ranked[i].score >= ranked[j].score
  <2>1. ASSUME NEW l \in DOMAIN ranked
        PROVE  replies[ranked[l].at] \in AllReplies
    <3>1. DOMAIN candidates = 1 .. Len(candidates) /\ Len(candidates) \in Nat
          /\ Len(ranked) \in Nat
      BY <1>1 DEF PipelineInv, TypeOK
    <3>2. Len(ranked) <= Len(candidates)
      BY <1>1 DEF PipelineInv, RankedInv
    <3>3. PICK m \in 1 .. Len(ranked) : ranked[l].at = candidates[m].at
      BY <1>1 DEF PipelineInv, RankedInv
    <3>4. m \in DOMAIN candidates
      BY <3>1, <3>2
    <3> QED BY <1>1, <3>3, <3>4, OfferedCandidates DEF PipelineInv, CandidatesInv
  <2>2. /\ ranked[i].score = Total(models[ranked[i].at], replies[ranked[i].at])
        /\ ranked[j].score = Total(models[ranked[j].at], replies[ranked[j].at])
    BY <1>1, RankedScores DEF Score
  <2> QED BY <1>1, <2>1, <2>2, LighterTotal
<1>2. PipelineInv => LighterScoresBetter
  BY <1>1 DEF LighterScoresBetter
<1> QED BY <1>2, PipelineAlways, PTL

\* The answer is the best topN of the families offered, ties in catalogue
\* order.
THEOREM AnswerIsBest == Spec => []BestFirst
<1>1. ASSUME PipelineInv, stage = "answered", topN > 0
      PROVE  /\ Len(answer) <= topN
             /\ \A i \in DOMAIN answer : answer[i].at \in Offered
             /\ \A i, j \in DOMAIN answer : i < j => Ahead(answer[i].at, answer[j].at)
             /\ \A o \in Offered :
                   \/ \E i \in DOMAIN answer : answer[i].at = o
                   \/ /\ Len(answer) = topN
                      /\ \A i \in DOMAIN answer : Ahead(answer[i].at, o)
  <2> DEFINE N == Len(ranked)
  <2>1. /\ answer = IF topN < N THEN SubSeq(ranked, 1, topN) ELSE ranked
        /\ topN \in Nat /\ N \in Nat /\ DOMAIN ranked = 1 .. N
        /\ N = Len(candidates) /\ DOMAIN candidates = 1 .. N
        /\ Len(replies) = Len(models)
    BY <1>1, InputAssumption DEF PipelineInv, StageInv, TypeOK
  <2>2. PICK l \in 0 .. N :
          /\ Len(answer) = l /\ DOMAIN answer = 1 .. l
          /\ \A i \in 1 .. l : answer[i] = ranked[i]
          /\ l <= topN /\ (l = topN \/ l = N)
    <3>1. ranked \in Seq([at : 1 .. Len(models), score : Scores])
      BY <1>1 DEF PipelineInv, TypeOK
    <3>2. CASE topN < N
      <4>1. answer = SubSeq(ranked, 1, topN) /\ topN \in 0 .. N
        BY <2>1, <3>2
      <4>2. Len(answer) = topN /\ DOMAIN answer = 1 .. topN
            /\ \A i \in 1 .. topN : answer[i] = ranked[i]
        BY <4>1, <2>1, <3>1
      <4> QED BY <4>1, <4>2
    <3>3. CASE ~(topN < N)
      <4>1. answer = ranked /\ N \in 0 .. N /\ N <= topN
        BY <2>1, <3>3
      <4> QED BY <4>1, <2>1
    <3> QED BY <3>2, <3>3
  <2>3. \A i \in 1 .. N : ranked[i].at \in Offered
    <3> TAKE i \in 1 .. N
    <3>1. PICK m \in 1 .. N : ranked[i].at = candidates[m].at
      BY <1>1, <2>1 DEF PipelineInv, RankedInv
    <3> QED BY <1>1, <2>1, <3>1 DEF PipelineInv, CandidatesInv, Offered
  <2>4. \A o \in Offered : \E i \in 1 .. N : ranked[i].at = o
    <3> TAKE o \in Offered
    <3>1. PICK m \in 1 .. N : candidates[m].at = o
      BY <1>1, <2>1 DEF PipelineInv, CandidatesInv, Offered
    <3> QED BY <1>1, <2>1, <3>1 DEF PipelineInv, RankedInv
  <2>5. \A i, j \in 1 .. N : i < j => Ahead(ranked[i].at, ranked[j].at)
    BY <1>1, <2>1 DEF PipelineInv, RankedInv
  <2> HIDE DEF N
  <2>6. ASSUME NEW o \in Offered
        PROVE  \/ \E i \in DOMAIN answer : answer[i].at = o
               \/ /\ Len(answer) = topN
                  /\ \A i \in DOMAIN answer : Ahead(answer[i].at, o)
    <3>1. PICK m \in 1 .. N : ranked[m].at = o
      BY <2>4, <2>6
    <3>2. CASE m <= l
      BY <2>2, <3>1, <3>2
    <3>3. CASE l < m
      <4>1. Len(answer) = topN
        BY <2>1, <2>2, <3>3
      <4>2. \A i \in 1 .. l : Ahead(answer[i].at, o)
        BY <2>1, <2>2, <2>5, <3>1, <3>3
      <4> QED BY <4>1, <4>2, <2>2
    <3> QED BY <3>2, <3>3, <2>1, <2>2
  <2>7. \A i \in 1 .. l : i \in 1 .. N
    BY <2>1, <2>2
  <2> QED BY <2>2, <2>3, <2>5, <2>6, <2>7
<1>2. ASSUME PipelineInv, stage = "answered", topN = 0
      PROVE  answer = <<>> /\ Offered = {}
  BY <1>2 DEF PipelineInv, StageInv, Offered
<1>3. ASSUME PipelineInv PROVE BestFirst
  <2>1. CASE stage = "answered" /\ topN > 0
    BY <1>1, <1>3, <2>1 DEF BestFirst
  <2>2. CASE stage = "answered" /\ topN = 0
    <3>1. answer = <<>> /\ Offered = {} /\ Len(answer) = 0 /\ DOMAIN answer = {}
      BY <1>2, <1>3, <2>2
    <3> QED BY <2>2, <3>1 DEF BestFirst
  <2>3. CASE stage # "answered"
    BY <2>3 DEF BestFirst
  <2>4. stage = "answered" => topN \in Int /\ topN >= 0
    BY <1>3, InputAssumption DEF PipelineInv, TypeOK, StageInv
  <2> QED BY <2>1, <2>2, <2>3, <2>4
<1> QED BY <1>3, PipelineAlways, PTL

=============================================================================
