-------------------------- MODULE MCInferenceRuns --------------------------
(* What a trigger may find: one setup per way through the rules. *)
EXTENDS InferenceRuns, TLC

File(name, types) == [name |-> name, types |-> types, generated |-> FALSE]
Output == [name |-> "out", types |-> {"SST_OUTPUT"}, generated |-> TRUE]
Cohort == File("cohort1", {"STUDENT"})
Course == File("course1", {"COURSE"})
OneOfEach == {Cohort, Course}

Pipeline(rank, kind, hasId) == [rank |-> rank, kind |-> kind, hasId |-> hasId]
Exact == {Pipeline(1, "exact", TRUE)}
Bundles == {Pipeline(1, "dev", TRUE), Pipeline(2, "cloudrun", TRUE), Pipeline(3, "cloudrun", FALSE)}
Nameless == {Pipeline(1, "exact", FALSE), Pipeline(2, "dev", TRUE), Pipeline(3, "cloudrun", TRUE)}
DevOnly == {Pipeline(1, "dev", TRUE)}

Setup(school, schemas, configs, batch, pipelines) ==
  [school |-> school, schemas |-> schemas, configs |-> configs, batch |-> batch,
   pipelines |-> pipelines]

Pdp == {"STUDENT", "COURSE"}
OldNames == {<<[Entry("PDP_COURSE") EXCEPT !.multiple = TRUE], Entry("SST_PDP_COHORT")>>}
CohortOnly == {<<Entry("STUDENT"), [Entry("COURSE") EXCEPT !.optional = TRUE]>>}

\* The first four lead to runs, in the others something is refused.
AllSetups ==
  {Setup({"pdp"}, Pdp, {}, OneOfEach \cup {File("cohort2", {"STUDENT"})}, Bundles),
   Setup({"pdp"}, {}, OldNames, OneOfEach, Nameless),
   Setup({"edvise"}, Pdp, CohortOnly, {Cohort, Output}, DevOnly),
   Setup({"legacy"}, {"UNKNOWN"}, {}, {File("any", {"UNKNOWN"}), Output}, Exact),
   Setup({"pdp"}, Pdp, CohortOnly, {Course, Output}, Exact),
   Setup({"pdp"}, Pdp, {<<[Entry("COURSE") EXCEPT !.multiple = TRUE]>>}, {Course}, Exact),
   Setup({"genai"}, {"UNKNOWN"}, {}, {}, Exact),
   Setup({"pdp", "legacy"}, Pdp, {}, OneOfEach, Exact)}

Symmetry == Permutations(Requests) \cup Permutations(ModelIds)
=============================================================================
