-------------------------- MODULE ValidationProofs --------------------------
(***************************************************************************)
(* Proofs about Validation for any keywords and any sets of school types.   *)
(***************************************************************************)
EXTENDS Validation, FiniteSetTheorems, TLAPS

\* The namespace is the one school type of the institution; legacy and genai
\* share one (_resolve_schema_namespace).
LEMMA NamespaceFacts ==
  ASSUME types \in TypeSets
  PROVE  /\ Namespace = "none" <=> ~OneType
         /\ Namespace \in {"none", "pdp", "edvise", "legacy"}
         /\ Namespace = "pdp" <=> types = {"pdp"}
         /\ Namespace = "edvise" <=> types = {"edvise"}
         /\ Namespace = "legacy" <=> OneType /\ FreeForm
<1> DEFINE Known == {"pdp", "edvise", "legacy", "genai"}
<1>1. types \subseteq Known
  BY ValidationAssumption
<1>2. IsFiniteSet(types)
  <2>1. IsFiniteSet({"pdp"}) /\ IsFiniteSet({"pdp"} \cup {"edvise"})
    BY FS_Singleton, FS_AddElement
  <2>2. IsFiniteSet({"pdp"} \cup {"edvise"} \cup {"legacy"})
    BY <2>1, FS_AddElement
  <2>3. IsFiniteSet({"pdp"} \cup {"edvise"} \cup {"legacy"} \cup {"genai"})
    BY <2>2, FS_AddElement
  <2>4. {"pdp"} \cup {"edvise"} \cup {"legacy"} \cup {"genai"} = Known
    OBVIOUS
  <2> QED
    BY <1>1, <2>3, <2>4, FS_Subset
<1>3. Cardinality(types) \in Nat
  BY <1>2, FS_CardinalityType
<1>4. types = {} \/ Cardinality(types) > 1 <=> ~OneType
  <2>1. Cardinality(types) = 0 <=> types = {}
    BY <1>2, FS_EmptySet
  <2>2. Cardinality(types) = 1 <=> \E t : types = {t}
    BY <1>2, FS_Singleton
  <2>3. (\E t : types = {t}) <=> OneType
    BY <1>1 DEF OneType
  <2> QED
    BY <1>3, <2>1, <2>2, <2>3
<1>5. CASE ~OneType
  BY <1>4, <1>5 DEF Namespace, OneType
<1>6. CASE OneType
  <2>1. PICK t \in Known : types = {t}
    BY <1>6 DEF OneType
  <2>2. (CHOOSE x \in types : TRUE) = t
    BY <2>1
  <2>3. Namespace = IF t \in {"edvise", "pdp"} THEN t ELSE "legacy"
    BY <1>4, <1>6, <2>1, <2>2 DEF Namespace
  <2> QED
    BY <1>6, <2>1, <2>3 DEF FreeForm
<1> QED
  BY <1>5, <1>6

\* Which files have a schema class of their own (_infer_allowed_schemas_from_filename,
\* get_edvise_schema_for_upload): those of one kind, and which one it is.
LEMMA ModelFacts ==
  ASSUME file \in Uploads, models = (IF NamedModels = {} THEN {"UNKNOWN"} ELSE NamedModels)
  PROVE  /\ SchemaClass <=> SingleKind
         /\ SchemaClass => (models = {"STUDENT"} <=> AboutStudents)
<1>1. file.words \subseteq {"course", "semester", "student", "cohort", "ar", "deidentified"}
  BY ValidationAssumption DEF Uploads
<1>2. /\ "COURSE" \in NamedModels <=> HasWord("course")
      /\ "SEMESTER" \in NamedModels <=> HasWord("semester")
      /\ "STUDENT" \in NamedModels <=> CohortName
      /\ NamedModels \subseteq {"COURSE", "STUDENT", "SEMESTER"}
  BY DEF NamedModels
<1>3. /\ models = {"STUDENT"} <=> CohortName /\ ~HasWord("course") /\ ~HasWord("semester")
      /\ models = {"COURSE"} <=> HasWord("course") /\ ~CohortName /\ ~HasWord("semester")
  <2>1. \A m \in {"STUDENT", "COURSE"} :
          NamedModels = {m} <=>
            /\ m \in NamedModels
            /\ \A n \in {"COURSE", "STUDENT", "SEMESTER"} \ {m} : n \notin NamedModels
    BY <1>2
  <2>2. \A m \in {"STUDENT", "COURSE"} : models = {m} <=> NamedModels = {m}
    <3>1. CASE NamedModels = {}
      <4>1. models = {"UNKNOWN"}
        BY <3>1
      <4> QED
        BY <3>1, <4>1
    <3>2. CASE NamedModels # {}
      BY <3>2
    <3> QED
      BY <3>1, <3>2
  <2> QED
    BY <1>2, <2>1, <2>2
<1> QED
  BY <1>1, <1>3 DEF SchemaClass, SingleKind, AboutStudents, CohortName, HasWord, Says

\* A file without personal data in a readable header.
LEMMA HeaderFacts ==
  ASSUME file \in Uploads
  PROVE  HeaderError \in {"none", "csv", "pii"} /\ (HeaderError = "none" <=> Clean)
  BY DEF Uploads, HeaderError, Clean, NamesPeople

\* What a file is does not depend on how far its judgement has come.
LEMMA AcceptableStays ==
  ASSUME UNCHANGED <<file, types>>
  PROVE  Acceptable' = Acceptable /\ CutInCharacter' = CutInCharacter
  BY DEF Acceptable, OneType, FreeForm, Clean, SingleKind, Conforming, Says, CutInCharacter

\* Where the sniff fails, the file is in no encoding that is read, or was cut.
LEMMA SniffFacts ==
  ASSUME file \in Uploads PROVE ~Decodes => ~Acceptable \/ CutInCharacter
  BY DEF Uploads, Decodes, Acceptable, CutInCharacter

\* A file that decodes and is cut is none of those the sniff refuses.
LEMMA DecodesUncut == Decodes => ~CutInCharacter
  BY DEF Decodes, CutInCharacter

\* A name without any known keyword is of no kind (_infer_allowed_schemas_from_filename).
LEMMA NamelessFacts == ASSUME file \in Uploads, NamedModels = {} PROVE ~SingleKind
<1>1. file.words \subseteq {"course", "semester", "student", "cohort", "ar", "deidentified"}
  BY ValidationAssumption DEF Uploads
<1>2. ~HasWord("course") /\ ~HasWord("semester") /\ ~CohortName
  BY DEF NamedModels
<1> QED
  BY <1>1, <1>2 DEF SingleKind, CohortName, HasWord

\* A refusal of a file that should not pass, or of one the sniff cuts, is right.
LEMMA RefusedRightly ==
  ASSUME pc # "done", UNCHANGED <<file, types>>, NEW s \in {400, 422, 500}, NEW why,
         Answer(s, why),
         ~Acceptable \/ (CutInCharacter /\ s = 400 /\ why = "decode_error")
  PROVE  VerdictIsRight' /\ ConvertersApplied'
<1>1. answer' = [status |-> s, why |-> why] /\ answer'.status = s
  BY DEF Answer
<1>2. Acceptable' = Acceptable /\ CutInCharacter' = CutInCharacter
  BY AcceptableStays
<1> QED
  BY <1>1, <1>2 DEF VerdictIsRight, ConvertersApplied

\* While the judgement goes on there is no verdict to be wrong.
LEMMA NoVerdictYet ==
  ASSUME pc' # "done", answer' = Open PROVE VerdictIsRight' /\ ConvertersApplied'
  BY DEF VerdictIsRight, ConvertersApplied, Open

\* What the file, the institution and the models say does not change any more.
LEMMA InputsFixed ==
  ASSUME UNCHANGED <<inputs, models>>
  PROVE  /\ Namespace' = Namespace /\ NamedModels' = NamedModels /\ HeaderError' = HeaderError
         /\ Decodes' = Decodes /\ SchemaClass' = SchemaClass /\ UNCHANGED <<file, types>>
  BY DEF inputs, Namespace, NamedModels, CohortName, HasWord, HeaderError, NamesPeople, Decodes,
         SchemaClass

\* A file name that names no type is refused, but for institutions that take any format.
LEMMA InferKeeps == ASSUME ValidationInv, InferSchemas PROVE ValidationInv'
<1>1. /\ pc = "infer" /\ UNCHANGED <<file, types, inputs, bronze, outcomes, applied>>
      /\ TypeOK /\ outcomes = <<>> /\ answer = Open /\ applied = <<>>
  BY DEF InferSchemas, ValidationInv, StepKnows, inputs
<1>2. NamedModels' = NamedModels /\ NamedModels \subseteq {"COURSE", "STUDENT", "SEMESTER"}
  BY <1>1 DEF NamedModels, CohortName, HasWord
<1>3. CASE GoOn("namespace") /\ models' = (IF NamedModels = {} THEN {"UNKNOWN"} ELSE NamedModels)
  <2>1. TypeOK'
    BY <1>1, <1>2, <1>3 DEF TypeOK, GoOn, Steps
  <2>2. StepKnows'
    BY <1>1, <1>2, <1>3 DEF StepKnows, GoOn
  <2>3. VerdictIsRight' /\ ConvertersApplied'
    BY <1>1, <1>3, NoVerdictYet DEF GoOn
  <2> QED
    BY <2>1, <2>2, <2>3 DEF ValidationInv
<1>4. CASE /\ Answer(422, "name") /\ NamedModels = {} /\ types \cap {"legacy", "genai"} = {}
           /\ UNCHANGED models
  <2>1. TypeOK'
    BY <1>1, <1>4 DEF TypeOK, Answer, Steps, Whys
  <2>2. StepKnows'
    BY <1>1, <1>4 DEF StepKnows, Answer
  <2>3. ~Acceptable
    <3>1. ~FreeForm \/ ~OneType
      BY <1>4 DEF FreeForm, OneType
    <3> QED
      BY <1>1, <1>4, <3>1, NamelessFacts DEF Acceptable, TypeOK
  <2>4. VerdictIsRight' /\ ConvertersApplied'
    BY <1>1, <1>4, <2>3, RefusedRightly
  <2> QED
    BY <2>1, <2>2, <2>4 DEF ValidationInv
<1> QED
  BY <1>3, <1>4 DEF InferSchemas

\* A step that only goes on, or that refuses a file without reading it.
LEMMA RefuseOrGoOn ==
  ASSUME ValidationInv, pc \notin {"infer", "read", "done"},
         UNCHANGED <<inputs, models, outcomes, applied>>, bronze' \in Bronze,
         \/ \E step \in Steps \ {"infer", "done"} : GoOn(step) /\ StepKnows'
         \/ \E s \in {400, 422, 500}, why \in Whys :
            /\ Answer(s, why) /\ UNCHANGED bronze
            /\ ~Acceptable \/ (CutInCharacter /\ s = 400 /\ why = "decode_error")
  PROVE  ValidationInv'
<1>1. /\ TypeOK /\ outcomes = <<>> /\ answer = Open /\ applied = <<>>
      /\ UNCHANGED <<file, types>>
  BY DEF ValidationInv, StepKnows, inputs
<1>2. ASSUME NEW step \in Steps \ {"infer", "done"}, GoOn(step), StepKnows'
      PROVE  ValidationInv'
  <2>1. TypeOK'
    BY <1>1, <1>2 DEF TypeOK, GoOn
  <2>2. VerdictIsRight' /\ ConvertersApplied'
    BY <1>1, <1>2, NoVerdictYet DEF GoOn
  <2> QED
    BY <1>2, <2>1, <2>2 DEF ValidationInv
<1>3. ASSUME NEW s \in {400, 422, 500}, NEW why \in Whys, Answer(s, why), UNCHANGED bronze,
             ~Acceptable \/ (CutInCharacter /\ s = 400 /\ why = "decode_error")
      PROVE  ValidationInv'
  <2>1. TypeOK'
    BY <1>1, <1>3 DEF TypeOK, Answer, Steps
  <2>2. StepKnows'
    BY <1>1, <1>3 DEF StepKnows, Answer
  <2>3. VerdictIsRight' /\ ConvertersApplied'
    BY <1>1, <1>3, RefusedRightly
  <2> QED
    BY <2>1, <2>2, <2>3 DEF ValidationInv
<1> QED
  BY <1>2, <1>3

\* An institution without a namespace is refused, and anyone else's is known from here on.
LEMMA NamespaceKeeps == ASSUME ValidationInv, ResolveNamespace PROVE ValidationInv'
<1>1. pc = "namespace" /\ UNCHANGED <<inputs, models, bronze, outcomes, applied>>
  BY DEF ResolveNamespace
<1>2. types \in TypeSets /\ bronze' \in Bronze
  BY <1>1 DEF ValidationInv, TypeOK
<1>3. CASE Answer(500, "institution") /\ Namespace = "none"
  <2>1. ~Acceptable
    BY <1>2, <1>3, NamespaceFacts DEF Acceptable
  <2> QED
    BY <1>1, <1>2, <1>3, <2>1, RefuseOrGoOn DEF Whys
<1>4. CASE GoOn("route") /\ Namespace # "none"
  <2>1. StepKnows'
    BY <1>1, <1>4, InputsFixed DEF ValidationInv, StepKnows, GoOn
  <2> QED
    BY <1>1, <1>2, <1>4, <2>1, RefuseOrGoOn DEF Steps
<1> QED
  BY <1>3, <1>4 DEF ResolveNamespace

\* Only a file that decodes goes on, and only one with schema classes goes to bronze.
LEMMA RouteKeeps == ASSUME ValidationInv, Route PROVE ValidationInv'
<1>1. pc = "route" /\ UNCHANGED <<inputs, models, bronze, outcomes, applied>>
  BY DEF Route
<1>2. /\ types \in TypeSets /\ bronze' \in Bronze /\ file \in Uploads /\ Namespace # "none"
      /\ models = (IF NamedModels = {} THEN {"UNKNOWN"} ELSE NamedModels)
  BY <1>1 DEF ValidationInv, TypeOK, StepKnows
<1>3. CASE Hard("decode_error") /\ ~Decodes
  BY <1>1, <1>2, <1>3, SniffFacts, RefuseOrGoOn DEF Hard, Whys
<1>4. CASE GoOn("any_format") /\ Decodes /\ Namespace = "legacy"
  <2>1. StepKnows'
    BY <1>1, <1>4, InputsFixed DEF ValidationInv, StepKnows, GoOn
  <2> QED
    BY <1>1, <1>2, <1>4, <2>1, RefuseOrGoOn DEF Steps
<1>5. CASE GoOn("converters") /\ Decodes /\ Namespace # "legacy" /\ SchemaClass
  <2>1. StepKnows'
    BY <1>1, <1>2, <1>5, InputsFixed DEF ValidationInv, StepKnows, GoOn
  <2> QED
    BY <1>1, <1>2, <1>5, <2>1, RefuseOrGoOn DEF Steps
<1>6. CASE Hard("models") /\ Namespace # "legacy" /\ ~SchemaClass
  <2>1. ~Acceptable
    BY <1>2, <1>6, NamespaceFacts, ModelFacts DEF Acceptable
  <2> QED
    BY <1>1, <1>2, <1>6, <2>1, RefuseOrGoOn DEF Hard, Whys
<1> QED
  BY <1>3, <1>4, <1>5, <1>6 DEF Route

\* Whatever converters the volume holds, the file goes on, along the way of its namespace.
LEMMA ConvertersKeep == ASSUME ValidationInv, LoadConverters PROVE ValidationInv'
<1> DEFINE next == IF Namespace = "pdp" THEN "read"
                   ELSE IF models = {"COURSE"} THEN "grade_map" ELSE "header"
<1>1. /\ pc = "converters" /\ UNCHANGED <<inputs, models, outcomes, applied>>
      /\ GoOn(next)
      /\ \/ bronze' = bronze
         \/ \E c, d \in Converters : bronze' = [bronze EXCEPT !.cohort = c, !.course = d]
  BY DEF LoadConverters
<1>2. bronze' \in Bronze
  <2>1. bronze \in Bronze
    BY DEF ValidationInv, TypeOK
  <2>2. ASSUME NEW c \in Converters, NEW d \in Converters
        PROVE  [bronze EXCEPT !.cohort = c, !.course = d] \in Bronze
    BY <2>1 DEF Bronze
  <2> QED
    BY <1>1, <2>1, <2>2
<1>3. Namespace \in {"pdp", "edvise"} /\ outcomes = <<>>
  BY <1>1, NamespaceFacts DEF ValidationInv, TypeOK, StepKnows
<1>4. next \in {"read", "grade_map", "header"} /\ next # "converters"
  OBVIOUS
<1>5. StepKnows'
  <2>1. /\ next = "read" => Namespace = "pdp"
        /\ next = "grade_map" => Namespace = "edvise" /\ models = {"COURSE"}
        /\ next = "header" => Namespace = "edvise"
    BY <1>3
  <2>2. pc' = next /\ answer' = answer
    BY <1>1 DEF GoOn
  <2>3. /\ answer = Open /\ applied = <<>> /\ Namespace # "none"
        /\ models = (IF NamedModels = {} THEN {"UNKNOWN"} ELSE NamedModels)
        /\ Decodes /\ Namespace # "legacy" /\ SchemaClass
    BY <1>1 DEF ValidationInv, StepKnows
  <2>4. /\ models' = models /\ outcomes' = outcomes /\ applied' = applied
        /\ Namespace' = Namespace /\ NamedModels' = NamedModels /\ HeaderError' = HeaderError
        /\ Decodes' = Decodes /\ SchemaClass' = SchemaClass
    BY <1>1, InputsFixed
  <2>5. outcomes = <<>> /\ DOMAIN outcomes = {}
    BY <1>3
  <2> HIDE DEF next
  <2> QED
    BY <1>4, <2>1, <2>2, <2>3, <2>4, <2>5 DEF StepKnows
<1> QED
  BY <1>1, <1>2, <1>4, <1>5, RefuseOrGoOn DEF Steps

\* Whichever grade map is found, the platform's or a merged one, the file goes on.
LEMMA GradeMapKeeps == ASSUME ValidationInv, LoadGradeMap PROVE ValidationInv'
<1>1. /\ pc = "grade_map" /\ UNCHANGED <<inputs, models, outcomes, applied>>
      /\ GoOn("header")
      /\ \E g \in {"platform", "merged"} : bronze' = [bronze EXCEPT !.grades = g]
  BY DEF LoadGradeMap
<1>2. bronze' \in Bronze
  BY <1>1 DEF ValidationInv, TypeOK, Bronze
<1>3. StepKnows'
  BY <1>1, InputsFixed DEF ValidationInv, StepKnows, GoOn
<1> QED
  BY <1>1, <1>2, <1>3, RefuseOrGoOn DEF Steps

\* A header that cannot be read, or that names people, refuses the file.
LEMMA HeaderKeeps == ASSUME ValidationInv, CheckHeader PROVE ValidationInv'
<1>1. pc = "header" /\ UNCHANGED <<inputs, models, bronze, outcomes, applied>>
  BY DEF CheckHeader
<1>2. bronze' \in Bronze /\ file \in Uploads /\ types \in TypeSets /\ Namespace = "edvise"
      /\ outcomes = <<>>
  BY <1>1 DEF ValidationInv, TypeOK, StepKnows
<1>3. CASE HeaderError # "none" /\ Hard(HeaderError)
  <2>1. ~Acceptable /\ HeaderError \in Whys
    BY <1>2, <1>3, NamespaceFacts, HeaderFacts DEF Whys, Acceptable
  <2> QED
    BY <1>1, <1>2, <1>3, <2>1, RefuseOrGoOn DEF Hard
<1>4. CASE HeaderError = "none" /\ GoOn("read")
  <2>1. StepKnows'
    BY <1>1, <1>2, <1>4, InputsFixed DEF ValidationInv, StepKnows, GoOn
  <2> QED
    BY <1>1, <1>2, <1>4, <2>1, RefuseOrGoOn DEF Steps
<1> QED
  BY <1>3, <1>4 DEF CheckHeader

\* A verdict ends the judgement.
LEMMA VerdictFrame ==
  ASSUME ValidationInv, UNCHANGED <<inputs, models, bronze>>, outcomes' \in Seq(Outcomes),
         applied' \in Seq({"school", "platform", "merged", "dedupe"}),
         \E s \in {200, 400}, why \in Whys : Answer(s, why),
         VerdictIsRight', ConvertersApplied'
  PROVE  ValidationInv'
<1>1. TypeOK'
  BY DEF ValidationInv, TypeOK, Answer, Steps, inputs
<1>2. StepKnows'
  BY DEF StepKnows, Answer
<1> QED
  BY <1>1, <1>2 DEF ValidationInv

\* The free route answers at once, and rightly: only the header counts.
LEMMA AnyFormatKeeps == ASSUME ValidationInv, ReadAnyFormat PROVE ValidationInv'
<1>1. /\ pc = "any_format" /\ UNCHANGED <<inputs, file, types, models, bronze, outcomes, applied>>
      /\ TypeOK /\ applied = <<>> /\ Decodes /\ OneType /\ FreeForm
  BY NamespaceFacts DEF ReadAnyFormat, ValidationInv, TypeOK, StepKnows, inputs
<1>2. PICK s \in {200, 400}, why \in Whys : Answer(s, why) /\ (s = 200 <=> Acceptable)
  <2>1. Acceptable <=> file.encoding # "other" /\ Clean
    BY <1>1 DEF Acceptable, TypeOK, Uploads
  <2> QED
    BY <1>1, <2>1, HeaderFacts DEF ReadAnyFormat, Hard, Whys, TypeOK
<1>3. answer'.status = s /\ pc' = "done"
  BY <1>2 DEF Answer
<1>4. Acceptable' = Acceptable /\ ~CutInCharacter'
  BY <1>1, AcceptableStays, DecodesUncut
<1>5. VerdictIsRight'
  BY <1>2, <1>3, <1>4 DEF VerdictIsRight
<1>6. ConvertersApplied'
  <2>1. {i \in DOMAIN applied' : applied'[i] = "school"} = {} /\ DOMAIN applied' = {}
    BY <1>1
  <2>2. types # {"edvise"} /\ types # {"pdp"}
    BY <1>1 DEF FreeForm
  <2> QED
    BY <1>1, <2>1, <2>2, FS_EmptySet DEF ConvertersApplied, FreeForm
<1>7. outcomes' \in Seq(Outcomes) /\ applied' \in Seq({"school", "platform", "merged", "dedupe"})
  BY <1>1 DEF TypeOK
<1> QED
  BY <1>1, <1>2, <1>5, <1>6, <1>7, VerdictFrame

\* What the converters of a read leave a trace of, for each kind of file.
LEMMA ChainFacts ==
  ASSUME bronze \in Bronze, models = {"STUDENT"} \/ models = {"COURSE"},
         Namespace \in {"pdp", "edvise"}
  PROVE  LET own == IF models = {"STUDENT"} THEN bronze.cohort ELSE bronze.course
             chain == ConverterChain
         IN  /\ chain \in Seq({"school", "platform", "merged", "dedupe"})
             /\ Cardinality({i \in DOMAIN chain : chain[i] = "school"})
                  = (IF own = "school" THEN 1 ELSE 0)
             /\ \A i \in DOMAIN chain : chain[i] \in {"platform", "merged"} => i = 1
             /\ (chain # <<>> /\ chain[1] \in {"platform", "merged"})
                  <=> Namespace = "edvise" /\ models = {"COURSE"}
             /\ (\E i \in DOMAIN chain : chain[i] = "dedupe")
                  <=> (Namespace = "pdp" /\ models = {"COURSE"} /\ own # "school")
<1> DEFINE chain == ConverterChain
           Own == {i \in DOMAIN chain : chain[i] = "school"}
<1>1. /\ bronze.cohort \in Converters /\ bronze.course \in Converters
      /\ bronze.grades \in {"platform", "merged"}
  BY DEF Bronze
<1>2. {"STUDENT"} # {"COURSE"}
  OBVIOUS
<1>3. Cardinality({}) = 0 /\ Cardinality({1}) = 1 /\ Cardinality({2}) = 1
  BY FS_EmptySet, FS_Singleton
<1>4. CASE models = {"STUDENT"} /\ bronze.cohort = "school"
  <2>1. chain = <<"school">> /\ Own = {1}
    BY <1>4 DEF ConverterChain, School
  <2> QED
    BY <1>2, <1>3, <1>4, <2>1
<1>5. CASE models = {"STUDENT"} /\ bronze.cohort # "school"
  <2>1. chain = <<>> /\ Own = {}
    BY <1>5 DEF ConverterChain, School
  <2> QED
    BY <1>2, <1>3, <1>5, <2>1
<1>6. CASE models = {"COURSE"} /\ Namespace = "edvise" /\ bronze.course = "school"
  <2>1. chain = <<bronze.grades, "school">>
    <3>1. chain = <<bronze.grades>> \o School(bronze.course) /\ School(bronze.course) = <<"school">>
      BY <1>2, <1>6 DEF ConverterChain, School
    <3>2. chain \in Seq({"school", "platform", "merged"})
      BY <1>1, <3>1
    <3>3. Len(chain) = 2 /\ chain[1] = bronze.grades /\ chain[2] = "school"
      BY <1>1, <3>1
    <3> QED
      BY <3>2, <3>3
  <2>2. Own = {2}
    BY <1>1, <2>1
  <2> QED
    BY <1>1, <1>2, <1>3, <1>6, <2>1, <2>2
<1>7. CASE models = {"COURSE"} /\ Namespace = "edvise" /\ bronze.course # "school"
  <2>1. chain = <<bronze.grades>>
    BY <1>1, <1>2, <1>7 DEF ConverterChain, School
  <2>2. Own = {}
    BY <1>1, <2>1
  <2> QED
    BY <1>1, <1>2, <1>3, <1>7, <2>1, <2>2
<1>8. CASE models = {"COURSE"} /\ Namespace = "pdp"
  <2>1. CASE bronze.course = "school"
    <3>1. chain = <<"school">> /\ Own = {1}
      BY <1>2, <1>8, <2>1 DEF ConverterChain
    <3> QED
      BY <1>2, <1>3, <1>8, <2>1, <3>1
  <2>2. CASE bronze.course # "school"
    <3>1. chain = <<"dedupe">> /\ Own = {}
      BY <1>2, <1>8, <2>2 DEF ConverterChain
    <3> QED
      BY <1>2, <1>3, <1>8, <2>2, <3>1
  <2> QED
    BY <2>1, <2>2
<1> QED
  BY <1>4, <1>5, <1>6, <1>7, <1>8

\* A read ends the judgement, or the next datetime format is tried.
LEMMA ReadKeeps == ASSUME ValidationInv, Read PROVE ValidationInv'
<1> DEFINE o == file.reads[Len(outcomes) + 1]
<1>1. /\ outcomes' = Append(outcomes, o)
      /\ \/ o = "conforms" /\ Answer(200, "passed") /\ applied' = ConverterChain
         \/ o = "value_error" /\ MoreFormats /\ GoOn("read") /\ UNCHANGED applied
         \/ /\ o # "conforms" /\ ~(o = "value_error" /\ MoreFormats)
            /\ Hard(o) /\ UNCHANGED applied
  BY DEF Read
<1>2. /\ pc = "read" /\ UNCHANGED <<inputs, file, types, models, bronze>>
      /\ TypeOK /\ StepKnows /\ applied = <<>> /\ answer = Open
      /\ outcomes \in Seq(Outcomes) /\ types \in TypeSets /\ file \in Uploads /\ bronze \in Bronze
      /\ Decodes /\ SchemaClass /\ Namespace \in {"pdp", "edvise"}
      /\ models = (IF NamedModels = {} THEN {"UNKNOWN"} ELSE NamedModels)
      /\ Namespace = "edvise" => HeaderError = "none"
      /\ Len(outcomes) < (IF Namespace = "edvise" THEN 2 ELSE 1)
      /\ \A i \in DOMAIN outcomes : file.reads[i] = "value_error"
  BY NamespaceFacts DEF Read, ValidationInv, TypeOK, StepKnows, inputs
<1>3. /\ OneType /\ ~FreeForm /\ SingleKind
      /\ Namespace = "edvise" <=> types = {"edvise"}
      /\ Namespace = "pdp" <=> types = {"pdp"}
      /\ types = {"edvise"} => Clean
      /\ models = {"STUDENT"} <=> AboutStudents
      /\ models = {"STUDENT"} \/ models = {"COURSE"}
  BY <1>2, NamespaceFacts, ModelFacts, HeaderFacts DEF SchemaClass
<1>4. /\ outcomes' \in Seq(Outcomes) /\ o \in Outcomes
      /\ Len(outcomes) \in 0..1 /\ Len(outcomes') = Len(outcomes) + 1
      /\ DOMAIN outcomes = 1..Len(outcomes) /\ DOMAIN outcomes' = 1..(Len(outcomes) + 1)
      /\ Namespace = "pdp" => Len(outcomes) = 0
      /\ Len(outcomes) = 1 => file.reads[1] = "value_error"
      /\ MoreFormats <=> Namespace = "edvise" /\ Len(outcomes) = 0
  <2>1. /\ Len(outcomes) \in 0..1 /\ DOMAIN outcomes = 1..Len(outcomes)
        /\ Namespace = "pdp" => Len(outcomes) = 0
    <3>1. Len(outcomes) \in Nat /\ DOMAIN outcomes = 1..Len(outcomes)
      BY <1>2
    <3>2. Len(outcomes) < 2 /\ (Namespace = "pdp" => Len(outcomes) < 1)
      <4>1. CASE Namespace = "edvise"
        BY <1>2, <4>1
      <4>2. CASE Namespace = "pdp"
        BY <1>2, <3>1, <4>2
      <4> QED
        BY <1>2, <4>1, <4>2
    <3> QED
      BY <3>1, <3>2
  <2>2. DOMAIN DatetimeFormats = 1..2 /\ Len(DatetimeFormats) = 2
    BY DEF DatetimeFormats
  <2>3. o \in Outcomes
    BY <1>2, <2>1, <2>2 DEF Uploads
  <2> QED
    BY <1>1, <1>2, <2>1, <2>2, <2>3 DEF MoreFormats
<1> HIDE DEF o
<1>5. /\ Acceptable <=> o = "conforms" \/ (o = "value_error" /\ MoreFormats
                                            /\ file.reads[2] = "conforms")
      /\ Acceptable' = Acceptable /\ ~CutInCharacter'
  <2>1. Acceptable <=> Conforming /\ file.encoding # "other"
    BY <1>2, <1>3 DEF Acceptable, Uploads
  <2>2. Conforming => file.encoding # "other"
    BY <1>2 DEF Conforming, Uploads, DatetimeFormats
  <2>3. Conforming <=> o = "conforms" \/ (o = "value_error" /\ MoreFormats
                                            /\ file.reads[2] = "conforms")
    <3>1. CASE Len(outcomes) = 0
      BY <1>2, <1>3, <1>4, <3>1 DEF Conforming, o
    <3>2. CASE Len(outcomes) = 1
      BY <1>2, <1>3, <1>4, <3>2 DEF Conforming, o
    <3> QED
      BY <1>4, <3>1, <3>2
  <2> QED
    BY <1>2, <2>1, <2>2, <2>3, AcceptableStays, DecodesUncut
<1>6. CASE o = "conforms"
  <2>1. Answer(200, "passed") /\ applied' = ConverterChain
    BY <1>1, <1>6
  <2>2. VerdictIsRight' /\ answer'.status = 200
    BY <1>5, <1>6, <2>1 DEF VerdictIsRight, Answer
  <2>3. ConvertersApplied'
    <3> DEFINE own == IF models = {"STUDENT"} THEN bronze.cohort ELSE bronze.course
    <3>1. /\ applied' \in Seq({"school", "platform", "merged", "dedupe"})
          /\ Cardinality({i \in DOMAIN applied' : applied'[i] = "school"})
               = (IF own = "school" THEN 1 ELSE 0)
          /\ \A i \in DOMAIN applied' : applied'[i] \in {"platform", "merged"} => i = 1
          /\ (applied' # <<>> /\ applied'[1] \in {"platform", "merged"})
               <=> Namespace = "edvise" /\ models = {"COURSE"}
          /\ (\E i \in DOMAIN applied' : applied'[i] = "dedupe")
               <=> (Namespace = "pdp" /\ models = {"COURSE"} /\ own # "school")
      BY <1>2, <1>3, <2>1, ChainFacts
    <3>2. /\ types' = types /\ FreeForm' = FreeForm /\ AboutStudents' = AboutStudents
          /\ bronze' = bronze
      BY <1>2 DEF FreeForm, AboutStudents, Says
    <3>3. models = {"COURSE"} <=> ~AboutStudents
      BY <1>3
    <3>4. own = (IF AboutStudents THEN bronze.cohort ELSE bronze.course)
      BY <1>3
    <3> HIDE DEF own
    <3> QED
      BY <1>3, <3>1, <3>2, <3>3, <3>4 DEF ConvertersApplied
  <2>4. applied' \in Seq({"school", "platform", "merged", "dedupe"})
    BY <1>2, <1>3, <2>1, ChainFacts
  <2> QED
    BY <1>2, <1>4, <2>1, <2>2, <2>3, <2>4, VerdictFrame DEF Whys
<1>7. CASE o = "value_error" /\ MoreFormats /\ GoOn("read") /\ UNCHANGED applied
  <2>1. pc' = "read" /\ answer' = Open
    BY <1>2, <1>7 DEF GoOn
  <2>2. TypeOK'
    BY <1>2, <1>4, <1>7, <2>1 DEF TypeOK, Steps
  <2>3. /\ \A i \in DOMAIN outcomes' : file.reads[i] = "value_error"
        /\ Len(outcomes') < 2 /\ Namespace = "edvise"
    BY <1>4, <1>7 DEF o
  <2>4. StepKnows'
    BY <1>2, <1>7, <2>1, <2>3, InputsFixed DEF StepKnows
  <2> QED
    BY <2>1, <2>2, <2>4, NoVerdictYet DEF ValidationInv
<1>8. CASE /\ o # "conforms" /\ ~(o = "value_error" /\ MoreFormats)
           /\ Hard(o) /\ UNCHANGED applied
  <2>1. answer'.status = 400 /\ o \in Whys /\ Answer(400, o)
    BY <1>4, <1>8 DEF Hard, Answer, Whys
  <2>2. VerdictIsRight' /\ ConvertersApplied'
    BY <1>5, <1>8, <2>1 DEF VerdictIsRight, ConvertersApplied
  <2> QED
    BY <1>2, <1>4, <1>8, <2>1, <2>2, VerdictFrame DEF TypeOK
<1> QED
  BY <1>1, <1>6, <1>7, <1>8

\* Every upload starts unjudged.
LEMMA ValidationInit == Init => ValidationInv
<1> SUFFICES ASSUME Init PROVE ValidationInv
  OBVIOUS
<1>1. TypeOK
  BY DEF Init, TypeOK, Steps, NoBronze, Bronze, Converters, Open, Whys
<1>2. StepKnows
  BY DEF Init, StepKnows
<1> QED
  BY <1>1, <1>2 DEF Init, ValidationInv, VerdictIsRight, ConvertersApplied, Open

\* Every step of a judgement keeps the invariant.
LEMMA ValidationStep == ValidationInv /\ [Next]_vars => ValidationInv'
<1> SUFFICES ASSUME ValidationInv, [Next]_vars PROVE ValidationInv'
  OBVIOUS
<1>1. CASE UNCHANGED vars
  <2>1. UNCHANGED <<file, types, pc, models, bronze, outcomes, applied, answer, inputs>>
    BY <1>1 DEF vars, inputs
  <2>2. TypeOK'
    BY <2>1 DEF ValidationInv, TypeOK
  <2>3. StepKnows'
    BY <2>1, InputsFixed DEF ValidationInv, StepKnows
  <2>4. VerdictIsRight'
    BY <2>1, AcceptableStays DEF ValidationInv, VerdictIsRight
  <2>5. ConvertersApplied'
    BY <2>1 DEF ValidationInv, ConvertersApplied, FreeForm, AboutStudents, Says
  <2> QED
    BY <2>2, <2>3, <2>4, <2>5 DEF ValidationInv
<1> QED
  BY <1>1, InferKeeps, NamespaceKeeps, RouteKeeps, ConvertersKeep, GradeMapKeeps, HeaderKeeps,
     AnyFormatKeeps, ReadKeeps DEF Next

\* The inductive invariant: what each step of validate_dataset may take for granted.
THEOREM ValidationInvariance == Spec => []ValidationInv
  BY ValidationInit, ValidationStep, PTL DEF Spec

\* VerdictIsRight, for any file name and any institution row: a file passes exactly
\* when its name, its institution's type, its encoding and one read in turn say so,
\* but for UTF-8 files that the sniff cuts inside a character (validate_dataset).
THEOREM VerdictsAreRight == Spec => []VerdictIsRight
<1>1. ValidationInv => VerdictIsRight
  BY DEF ValidationInv
<1> QED
  BY <1>1, ValidationInvariance, PTL

\* ConvertersApplied: a passed file went through each usable converter exactly once,
\* in order (load_es_converters_from_bronze, _read_pdp_course_edvise).
THEOREM ConvertersAreApplied == Spec => []ConvertersApplied
<1>1. ValidationInv => ConvertersApplied
  BY DEF ValidationInv
<1> QED
  BY <1>1, ValidationInvariance, PTL
=============================================================================
