---------------------------- MODULE SchemaRules ----------------------------
(***************************************************************************)
(* Which batches a model accepts: the schema configurations of a model or,  *)
(* without any, of its institution, matched against the schema types of a   *)
(* batch's files.  A configuration is a sequence of entries, a model has a  *)
(* set of configurations, a file has a set of schema types.                 *)
(***************************************************************************)
EXTENDS Naturals, Sequences, FiniteSets

InputTypes == {"COURSE", "STUDENT", "SEMESTER"}

SchemaType == InputTypes \cup {"UNKNOWN", "SST_OUTPUT", "PNG"}

Entry(t) == [type |-> t, optional |-> FALSE, multiple |-> FALSE]

AnyFormat == <<[type |-> "UNKNOWN", optional |-> FALSE, multiple |-> TRUE]>>

\* default_schema_configs_from_inst_schemas: one of each input type that the
\* institution allows, or anything where it only allows UNKNOWN.
DefaultConfigs(schemas) ==
  LET inputs == schemas \cap InputTypes IN
  IF inputs # {}
  THEN {c \in [1..Cardinality(inputs) -> {Entry(t) : t \in inputs}] :
          inputs = {c[k].type : k \in DOMAIN c}}
  ELSE IF "UNKNOWN" \in schemas THEN {AnyFormat} ELSE {}

\* LEGACY_TO_NEW_SCHEMA
NewName(t) ==
  CASE t \in {"PDP_COHORT", "SST_PDP_COHORT", "SST_PDP_FINANCE"} -> "STUDENT"
    [] t \in {"PDP_COURSE", "SST_PDP_COURSE"} -> "COURSE"
    [] OTHER -> t

\* resolve_model_schema_configs: {} stands for a model without configurations.
\* An institution without usable schemas leaves none, which is a 422.
ResolvedConfigs(stored, schemas) ==
  IF stored = {} THEN DefaultConfigs(schemas)
  ELSE {[k \in DOMAIN c |-> [c[k] EXCEPT !.type = NewName(@)]] : c \in stored}

\* One hit per file and entry: two entries of one type hit a file twice.
Hits(t, config, files) ==
  {h \in (DOMAIN files) \X (DOMAIN config) : config[h[2]].type = t /\ t \in files[h[1]]}

\* One configuration of check_file_types_valid_schema_configs.
Conforms(files, config) ==
  IF config = AnyFormat THEN files # <<>>
  ELSE /\ \A k \in DOMAIN config :
            LET n == Cardinality(Hits(config[k].type, config, files)) IN
            /\ n > 0 \/ config[k].optional
            /\ n <= 1 \/ config[k].multiple
       /\ \A i \in DOMAIN files : \E k \in DOMAIN config : config[k].type \in files[i]

Accepted(files, configs) == \E c \in configs : Conforms(files, c)

\* _unique_batch_schema_types: the types of all files together, as one file.
BatchTypes(batch) == <<UNION {f.types : f \in batch}>>
=============================================================================
