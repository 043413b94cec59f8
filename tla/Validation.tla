----------------------------- MODULE Validation -----------------------------
(***************************************************************************)
(* How one upload is judged.  The schemas its name stands for, the school   *)
(* type's namespace, the encoding sniff, the route (any-format CSV, Edvise  *)
(* or PDP schema), the institution's own converters and grade map from its  *)
(* bronze volume, the reading attempts, and the answer.  Every download,    *)
(* import and read may fail; some failures are passed over and some refuse  *)
(* the file.  Data frames are left out: what a read finds is its outcome.   *)
(***************************************************************************)
EXTENDS Naturals, Sequences, FiniteSets

CONSTANTS
  Keywords,  \* keywords a file name may contain
  TypeSets   \* sets of school types an institution row may carry

ASSUME ValidationAssumption ==
  /\ Keywords \subseteq {"course", "semester", "student", "cohort", "ar", "deidentified"}
  /\ TypeSets \subseteq SUBSET {"pdp", "edvise", "legacy", "genai"}

VARIABLES
  file,      \* the upload: its name, encoding, header, and how reads of it end
  types,     \* school types whose id the institution row carries
  pc,        \* the next step
  models,    \* schema names inferred from the file name
  bronze,    \* what the bronze volume gave: school converters and grade map
  outcomes,  \* how the reading attempts ended, in order
  applied,   \* what the successful read did to the rows, in order
  answer     \* the response: a status, and why

vars == <<file, types, pc, models, bronze, outcomes, applied, answer>>
inputs == <<file, types>>

DatetimeFormats == <<"ISO8601", "%Y%m%d.0">>

\* External: how a read with the institution's converters ends.  Only a ValueError,
\* from parsing or from a converter, lets the Edvise route try the next format.
Outcomes == {"conforms", "schema_error", "value_error", "other_error"}

\* sniffs: the first megabyte decodes as UTF-8.  That of a UTF-8 file may end inside
\* a character, and that of another file may have all its odd bytes behind it.
Uploads ==
  {u \in [words: SUBSET Keywords, encoding: {"utf8", "bom", "other"}, sniffs: BOOLEAN,
          readable: BOOLEAN, pii: BOOLEAN, reads: [DOMAIN DatetimeFormats -> Outcomes]] :
     (\E i \in DOMAIN DatetimeFormats : u.reads[i] = "conforms")
       => u.readable /\ u.encoding # "other"}

Converters == {"absent", "not_callable", "school"}
NoBronze == [cohort |-> "absent", course |-> "absent", grades |-> "platform"]
Open == [status |-> 0, why |-> "open"]

Answer(status, why) ==
  /\ answer' = [status |-> status, why |-> why]
  /\ pc' = "done"

\* A HardValidationError and any other error of validation are both a 400.
Hard(why) == Answer(400, why)
GoOn(step) == pc' = step /\ UNCHANGED answer

-----------------------------------------------------------------------------
(* What the name and the institution say                                    *)

HasWord(w) == w \in file.words

\* ar and deidentified stand for a cohort file only when course does not occur.
CohortName ==
  \/ HasWord("student") \/ HasWord("cohort")
  \/ ~HasWord("course") /\ (HasWord("ar") \/ HasWord("deidentified"))

NamedModels ==
  {m \in {"COURSE", "STUDENT", "SEMESTER"} :
     \/ m = "COURSE" /\ HasWord("course")
     \/ m = "SEMESTER" /\ HasWord("semester")
     \/ m = "STUDENT" /\ CohortName}

\* _infer_allowed_schemas_from_filename
InferSchemas ==
  /\ pc = "infer"
  /\ \/ NamedModels # {} /\ models' = NamedModels /\ GoOn("namespace")
     \/ /\ NamedModels = {} /\ types \cap {"legacy", "genai"} # {}
        /\ models' = {"UNKNOWN"} /\ GoOn("namespace")
     \/ /\ NamedModels = {} /\ types \cap {"legacy", "genai"} = {}
        /\ Answer(422, "name") /\ UNCHANGED models
  /\ UNCHANGED <<inputs, bronze, outcomes, applied>>

\* genai schools' uploads are judged as legacy ones.
Namespace ==
  IF types = {} \/ Cardinality(types) > 1 THEN "none"
  ELSE IF types \subseteq {"edvise", "pdp"} THEN CHOOSE t \in types : TRUE
  ELSE "legacy"

\* _resolve_schema_namespace
ResolveNamespace ==
  /\ pc = "namespace"
  /\ \/ Namespace = "none" /\ Answer(500, "institution")
     \/ Namespace # "none" /\ GoOn("route")
  /\ UNCHANGED <<inputs, models, bronze, outcomes, applied>>

-----------------------------------------------------------------------------
(* validate_dataset                                                         *)

\* sniff_encoding: a byte order mark, or a sample that decodes as UTF-8.
Decodes == file.encoding = "bom" \/ file.sniffs

\* Fault: several models are taken if one of them has a schema class.
SchemaClassAny == models \cap {"STUDENT", "COURSE"} # {}

\* get_edvise_schema_for_upload: single-model uploads only.
SchemaClass == models = {"STUDENT"} \/ models = {"COURSE"}

Route ==
  /\ pc = "route"
  /\ \/ ~Decodes /\ Hard("decode_error")
     \/ Decodes /\ Namespace = "legacy" /\ GoOn("any_format")
     \/ Decodes /\ Namespace # "legacy" /\ SchemaClass /\ GoOn("converters")
     \/ Decodes /\ Namespace # "legacy" /\ ~SchemaClass /\ Hard("models")
  /\ UNCHANGED <<inputs, models, bronze, outcomes, applied>>

\* load_es_converters_from_bronze: a dataio.py that cannot be downloaded or
\* imported counts as none, and so does each converter that is missing.
LoadConverters ==
  /\ pc = "converters"
  /\ \/ UNCHANGED bronze
     \/ \E c, d \in Converters : bronze' = [bronze EXCEPT !.cohort = c, !.course = d]
  /\ GoOn(IF Namespace = "pdp" THEN "read"
          ELSE IF models = {"COURSE"} THEN "grade_map" ELSE "header")
  /\ UNCHANGED <<inputs, models, outcomes, applied>>

\* resolve_es_course_converter_for_upload: the institution's grade map is
\* merged into the platform's, or the platform's is used alone.
LoadGradeMap ==
  /\ pc = "grade_map"
  /\ \E g \in {"platform", "merged"} : bronze' = [bronze EXCEPT !.grades = g]
  /\ GoOn("header")
  /\ UNCHANGED <<inputs, models, outcomes, applied>>

\* _is_pii_column: some column's name means personal data.
NamesPeople == file.pii

\* Reading a header.  The PDP route has no such check of its own.
HeaderError ==
  IF ~file.readable THEN "csv" ELSE IF NamesPeople THEN "pii" ELSE "none"

CheckHeader ==
  /\ pc = "header"
  /\ \/ HeaderError # "none" /\ Hard(HeaderError)
     \/ HeaderError = "none" /\ GoOn("read")
  /\ UNCHANGED <<inputs, models, bronze, outcomes, applied>>

\* _validate_any_format_csv: the file is read to its end, and passed on as it was read.
ReadAnyFormat ==
  /\ pc = "any_format"
  /\ \/ file.encoding = "other" /\ Hard("csv")
     \/ file.encoding # "other" /\ HeaderError # "none" /\ Hard(HeaderError)
     \/ file.encoding # "other" /\ HeaderError = "none" /\ Answer(200, "passed")
  /\ UNCHANGED <<inputs, models, bronze, outcomes, applied>>

-----------------------------------------------------------------------------
(* The reading attempts                                                     *)

School(c) == IF c = "school" THEN <<"school">> ELSE <<>>

\* Fault: the school's converter runs before the grade map.
ConverterChainSwapped ==
  IF models = {"STUDENT"} THEN School(bronze.cohort)
  ELSE IF Namespace = "edvise" THEN School(bronze.course) \o <<bronze.grades>>
  ELSE IF bronze.course = "school" THEN <<"school">> ELSE <<"dedupe">>

\* What a read applies to the rows it parsed, before the schema is checked;
\* every attempt reads the file again.
ConverterChain ==
  IF models = {"STUDENT"} THEN School(bronze.cohort)
  ELSE IF Namespace = "edvise" THEN <<bronze.grades>> \o School(bronze.course)
  ELSE IF bronze.course = "school" THEN <<"school">> ELSE <<"dedupe">>

MoreFormats == Namespace = "edvise" /\ Len(outcomes) + 1 < Len(DatetimeFormats)

Read ==
  /\ pc = "read"
  /\ LET o == file.reads[Len(outcomes) + 1] IN
       /\ outcomes' = Append(outcomes, o)
       /\ \/ o = "conforms" /\ Answer(200, "passed") /\ applied' = ConverterChain
          \/ o = "value_error" /\ MoreFormats /\ GoOn("read") /\ UNCHANGED applied
          \/ /\ o # "conforms" /\ ~(o = "value_error" /\ MoreFormats)
             /\ Hard(o) /\ UNCHANGED applied
  /\ UNCHANGED <<inputs, models, bronze>>

-----------------------------------------------------------------------------

Init ==
  /\ file \in Uploads /\ types \in TypeSets
  /\ pc = "infer" /\ models = {}
  /\ bronze = NoBronze /\ outcomes = <<>> /\ applied = <<>>
  /\ answer = Open

Next ==
  \/ InferSchemas \/ ResolveNamespace
  \/ Route \/ LoadConverters \/ LoadGradeMap
  \/ CheckHeader \/ ReadAnyFormat \/ Read

Spec == Init /\ [][Next]_vars

-----------------------------------------------------------------------------
(* Properties *)

\* The verdict by the documents of the schemas alone: which kinds of file a
\* school of one type may send, in an encoding that is read, and that one attempt
\* in turn conforms.  Nothing the code finds out on its way is part of it.
OneType == \E t \in {"pdp", "edvise", "legacy", "genai"} : types = {t}
FreeForm == types \subseteq {"legacy", "genai"}
Says(w) == w \in file.words
AboutStudents == Says("student") \/ Says("cohort") \/ ~Says("course")
SingleKind ==
  /\ ~Says("semester")
  /\ ~(Says("course") /\ (Says("student") \/ Says("cohort")))
  /\ file.words # {}
Clean == file.readable /\ ~file.pii
Conforming ==
  \/ file.reads[1] = "conforms"
  \/ types = {"edvise"} /\ file.reads[1] = "value_error" /\ file.reads[2] = "conforms"

Acceptable ==
  /\ OneType /\ file.encoding \in {"utf8", "bom"}
  /\ IF FreeForm THEN Clean
     ELSE SingleKind /\ Conforming /\ (types = {"edvise"} => Clean)

\* A UTF-8 file whose first megabyte ends inside a character.
CutInCharacter == file.encoding = "utf8" /\ ~file.sniffs

\* A file passes exactly when it should, with one exception: no path through
\* retries, fallbacks and error handlers lets another file pass, and the only good
\* files that are refused are those the sniff of sniff_encoding cuts inside a
\* character, with a decode_error (validate_dataset and everything it calls).
VerdictIsRight ==
  pc = "done" =>
    /\ answer.status = 200 => Acceptable
    /\ Acceptable =>
         IF CutInCharacter THEN answer = [status |-> 400, why |-> "decode_error"]
         ELSE answer.status = 200

\* Soft fallback, hard failure: a passed file went through every usable
\* converter its bronze volume gave, once, after the grade map, and through
\* nothing else but the default for PDP courses (load_es_converters_from_bronze,
\* _chain_es_course_converters, _read_pdp_course_edvise).
ConvertersApplied ==
  LET own == IF AboutStudents THEN bronze.cohort ELSE bronze.course IN
  answer.status = 200 =>
    /\ Cardinality({i \in DOMAIN applied : applied[i] = "school"})
         = (IF ~FreeForm /\ own = "school" THEN 1 ELSE 0)
    /\ \A i \in DOMAIN applied : applied[i] \in {"platform", "merged"} => i = 1
    /\ applied # <<>> /\ applied[1] \in {"platform", "merged"}
         <=> types = {"edvise"} /\ ~AboutStudents
    /\ (\E i \in DOMAIN applied : applied[i] = "dedupe")
         <=> (types = {"pdp"} /\ ~AboutStudents /\ own # "school")

Steps == {"infer", "namespace", "route", "any_format", "converters", "grade_map",
          "header", "read", "done"}
Whys == {"open", "name", "institution", "decode_error", "models", "csv", "pii", "passed"}
          \cup Outcomes
Bronze == [cohort: Converters, course: Converters, grades: {"platform", "merged"}]

TypeOK ==
  /\ file \in Uploads /\ types \in TypeSets /\ pc \in Steps
  /\ models \subseteq {"COURSE", "STUDENT", "SEMESTER", "UNKNOWN"}
  /\ bronze \in Bronze /\ outcomes \in Seq(Outcomes)
  /\ applied \in Seq({"school", "platform", "merged", "dedupe"})
  /\ answer \in [status: {0, 200, 400, 422, 500}, why: Whys]

\* What each step may take for granted of the file, from the checks before it.
StepKnows ==
  /\ pc # "done" => answer = Open /\ applied = <<>>
  /\ pc \notin {"read", "done"} => outcomes = <<>>
  /\ pc \notin {"infer", "done"} =>
       models = (IF NamedModels = {} THEN {"UNKNOWN"} ELSE NamedModels)
  /\ pc \notin {"infer", "namespace", "done"} => Namespace # "none"
  /\ pc = "any_format" => Decodes /\ Namespace = "legacy"
  /\ pc \in {"converters", "grade_map", "header", "read"} =>
       Decodes /\ Namespace # "legacy" /\ SchemaClass
  /\ pc = "grade_map" => Namespace = "edvise" /\ models = {"COURSE"}
  /\ pc = "header" => Namespace = "edvise"
  /\ pc = "read" =>
       /\ Namespace = "edvise" => HeaderError = "none"
       /\ Len(outcomes) < (IF Namespace = "edvise" THEN 2 ELSE 1)
       /\ \A i \in DOMAIN outcomes : file.reads[i] = "value_error"

\* The inductive invariant of a judgement.
ValidationInv == TypeOK /\ StepKnows /\ VerdictIsRight /\ ConvertersApplied
=============================================================================
