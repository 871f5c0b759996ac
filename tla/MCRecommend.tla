---------------------------- MODULE MCRecommend ----------------------------
(* Instances of Recommend for TLC. *)
EXTENDS Recommend

AFamily(tag, licence, languages, mapped) ==
  [tag |-> tag, licence |-> licence, languages |-> languages, mapped |-> mapped]

\* A family as the seed file lists them and one as the normaliser makes them,
\* another licence, one without a mapping, one without licence or languages.
Families ==
  { AFamily("code", "apache 2.0", {"en", "es", "fr", "de"}, TRUE),
    AFamily("codigo", "", {}, TRUE),
    AFamily("text-generation", "mit", {"en", "es"}, TRUE),
    AFamily("chat", "mpl-2.0", {"en"}, FALSE) }

Reply(compatible, vram, tps) ==
  [compatible |-> compatible, vram |-> vram, tps |-> tps]

\* Estimates below, at and above the speed and the 32 GB of the scorer, with
\* and without a speed, and none at all.
Answers ==
  { Reply("yes", 8, 16), Reply("yes", 16, 16), Reply("unknown", 8, 0),
    Reply("yes", 16, 64), Reply("yes", 48, 64), Reply("no", 64, 1) }

\* Two estimates with a known speed.
Measured == { Reply("yes", 8, 16), Reply("yes", 16, 64) }

ARequest(task, commercial, languages) ==
  [task |-> task, commercial |-> commercial, languages |-> languages]

Requests ==
  { ARequest("codigo", FALSE, {}), ARequest("codigo", TRUE, {"es"}),
    ARequest("chat", TRUE, {"en"}), ARequest("razonamiento", FALSE, {"en"}),
    ARequest(NoTask, FALSE, {"es"}) }

Asked == -1 .. 2

=============================================================================
