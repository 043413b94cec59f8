----------------------------- MODULE WorkerPull -----------------------------
(***************************************************************************)
(* The worker's PDP pull: one SFTP file is copied to the worker's bucket,   *)
(* split into a part per institution, and each part is sent through the web *)
(* app's upload and validation, one request after another.  The handler is  *)
(* a coroutine that never awaits and the service has one instance, so pulls *)
(* do not overlap; they do with web clients, PATCHes of institutions, the   *)
(* lifecycle rule, the clock, and crashes.  Upload and validation are taken *)
(* as single steps here, their insides are FileIngest's.                    *)
(***************************************************************************)
EXTENDS Naturals, Sequences, FiniteSets

CONSTANTS
  Insts,        \* institutions of the web app
  PdpIds,       \* texts: cells of the file's institution column, or a pdp_id
  KnownIds,     \* those a PATCH may give an institution, or a pull name
  Blank,        \* the text of an empty cell, "nan"
  Numeral,      \* column of numbers -> cell -> the text of its number
  Setups,       \* what the sender and the web app may be like, see setup
  MaxFailures,  \* bound on failed calls and crashes
  MaxUploads,   \* bound on uploads of web clients
  None

\* What pandas makes of the column: numbers lose leading zeros, and are
\* decimals if a cell is empty; anything else makes it text.
Numbers == {"whole", "decimal"}
FileType == [column: Numbers \cup {"text"}, cells: Seq(PdpIds)]

\* What a file under validation is: all rows of an id, no row, a client's file.
Contents == {"all", "none", "client"}

\* A part: an id, all its rows of the file or none, and the version it is made of.
PartType == [id: PdpIds, rows: {"all", "none"}, version: Nat]

ASSUME PullAssumption ==
  /\ KnownIds \subseteq PdpIds /\ MaxFailures \in Nat /\ MaxUploads \in Nat
  /\ Blank \in PdpIds /\ Numeral \in [Numbers -> [PdpIds -> PdpIds]]
  /\ Setups \subseteq [files: Seq(FileType) \ {<<>>}, accepts: SUBSET (Insts \X Contents),
                       sameBucket: BOOLEAN]
  /\ None \notin PdpIds /\ None \notin PartType

VARIABLES
  setup,      \* the versions of the file, one cell per value of the column; who
              \* has what validated; is the bucket of ENV the one of BUCKET_ENV
  file,       \* version of the file on the SFTP server
  source,     \* version copied to the bucket of ENV
  parts,      \* parts in the folders of this hour and of the hour before
  pdpId,      \* institution -> its pdp_id
  staged,     \* institution -> the file's content under unvalidated/
  validated,  \* institution -> the upload behind the file under validated/
  pull,       \* the pull the worker executes
  named,      \* history: ids pulled by name
  owned,      \* history: <<institution, pdp_id>> pairs there have been
  failures,
  uploads

web == <<pdpId, staged, validated, owned, uploads>>
worker == <<source, parts, pull, named>>
vars == <<setup, file, worker, web, failures>>

NoParts == [p \in PdpIds |-> None]

\* folder: the hour the split writes to; urls: what the signed URLs point at, and
\* signed: their ids in the order of the dictionary; found: institutions the web
\* app knows, still to be served.
Idle == [pc |-> "done", byId |-> None, todo |-> <<>>, folder |-> "now",
         urls |-> NoParts, signed |-> <<>>, found |-> <<>>]

Foreign == [id |-> None, rows |-> "client", version |-> 0]  \* a client's file

Column(v) == setup.files[v].column

\* str() of the values of the column, in their order.
Ids(v) ==
  LET cells == setup.files[v].cells IN
  [k \in DOMAIN cells |-> IF Column(v) = "text" THEN cells[k] ELSE Numeral[Column(v)][cells[k]]]

InFile(p, v) == \E k \in DOMAIN Ids(v) : Ids(v)[k] = p

\* A call to SFTP, storage or the web app fails.
Glitch == failures < MaxFailures /\ failures' = failures + 1

Step(pc, p) == pull' = [p EXCEPT !.pc = pc]

-----------------------------------------------------------------------------
(* execute_pdp_pull: sftp_file_to_gcs_helper                                *)

\* A pull of the whole file, or of one institution; each is pulled by name at
\* most once (bound).
StartPull(p) ==
  /\ pull.pc = "done" /\ p \notin named
  /\ Step("copy", [Idle EXCEPT !.byId = p])
  /\ named' = named \cup ({p} \ {None})
  /\ UNCHANGED <<setup, file, source, parts, web, failures>>

\* Fault: the copy replaces what is there.
CopyFileAnew ==
  /\ pull.pc = "copy" /\ Step("read", pull)
  /\ \/ source' = file /\ UNCHANGED failures
     \/ Glitch /\ UNCHANGED source
  /\ UNCHANGED <<setup, file, parts, named, web>>

\* A file of that name is not copied again; an error is only logged.
CopyFile ==
  /\ pull.pc = "copy" /\ Step("read", pull)
  /\ \/ source' = (IF source = None THEN file ELSE source) /\ UNCHANGED failures
     \/ Glitch /\ UNCHANGED source
  /\ UNCHANGED <<setup, file, parts, named, web>>

-----------------------------------------------------------------------------
(* split_csv_and_generate_signed_urls                                       *)

\* The file is looked for in the bucket of BUCKET_ENV.  Without a readable
\* file or an institution column there is nothing to do.
ReadSource ==
  /\ pull.pc = "read"
  /\ \/ /\ source # None /\ setup.sameBucket
        /\ Step("split", [pull EXCEPT !.todo =
             IF pull.byId = None THEN Ids(source) ELSE <<pull.byId>>])
        /\ UNCHANGED failures
     \/ (source = None \/ ~setup.sameBucket) /\ pull' = Idle /\ UNCHANGED failures
     \/ Glitch /\ pull' = Idle
  /\ UNCHANGED <<setup, file, source, parts, named, web>>

\* df[column] == inst_id: a pdp_id of the query is text, and text equals no
\* number, so that a column of numbers gives a part without rows; and an empty
\* cell equals nothing, itself included.
Group(p) ==
  IF /\ InFile(p, source) /\ p # Blank
     /\ pull.byId = None \/ Column(source) = "text"
  THEN "all" ELSE "none"

\* A part this hour's folder holds is not written again.  After an upload
\* error or a URL that cannot be signed the institution is left out.
SplitPart ==
  LET p == Head(pull.todo)
      part == IF parts[pull.folder][p] = None
              THEN [id |-> p, rows |-> Group(p), version |-> source]
              ELSE parts[pull.folder][p]
      rest == [pull EXCEPT !.todo = Tail(@)] IN
  /\ pull.pc = "split" /\ pull.todo # <<>>
  /\ \/ /\ parts' = [parts EXCEPT ![pull.folder][p] = part]
        /\ \/ /\ pull' = [rest EXCEPT !.urls[p] = part, !.signed = Append(@, p)]
              /\ UNCHANGED failures
           \/ pull' = rest /\ Glitch
     \/ UNCHANGED parts /\ pull' = rest /\ Glitch
  /\ UNCHANGED <<setup, file, source, named, web>>

\* The keys of the dictionary, in the order they were put in.
EndSplit ==
  /\ pull.pc = "split" /\ pull.todo = <<>>
  /\ Step("look_up", [pull EXCEPT !.todo = pull.signed, !.signed = <<>>])
  /\ UNCHANGED <<setup, file, source, parts, named, web, failures>>

-----------------------------------------------------------------------------
(* fetch_institution_ids                                                    *)

\* read_inst_pdp_id answers for an id that exactly one institution has.
Owners(p) == {i \in Insts : pdpId[i] = p}

\* Fault: an id that is not found ends the pull.
LookUpStrict ==
  LET p == Head(pull.todo)
      rest == [pull EXCEPT !.todo = Tail(@)] IN
  /\ pull.pc = "look_up" /\ pull.todo # <<>>
  /\ \/ /\ Cardinality(Owners(p)) = 1
        /\ \E i \in Owners(p) : pull' = [rest EXCEPT !.found = Append(@, <<p, i>>)]
        /\ UNCHANGED failures
     \/ Cardinality(Owners(p)) # 1 /\ pull' = Idle /\ UNCHANGED failures
     \/ pull' = Idle /\ Glitch
  /\ UNCHANGED <<setup, file, source, parts, named, web>>

LookUp ==
  LET p == Head(pull.todo)
      rest == [pull EXCEPT !.todo = Tail(@)] IN
  /\ pull.pc = "look_up" /\ pull.todo # <<>>
  /\ \/ /\ Cardinality(Owners(p)) = 1
        /\ \E i \in Owners(p) : pull' = [rest EXCEPT !.found = Append(@, <<p, i>>)]
        /\ UNCHANGED failures
     \/ Cardinality(Owners(p)) # 1 /\ pull' = rest /\ UNCHANGED failures
     \/ pull' = rest /\ Glitch
  /\ UNCHANGED <<setup, file, source, parts, named, web>>

EndLookUp ==
  /\ pull.pc = "look_up" /\ pull.todo = <<>>
  /\ Step("ask_url", pull)
  /\ UNCHANGED <<setup, file, source, parts, named, web, failures>>

-----------------------------------------------------------------------------
(* process_file, for each institution found                                 *)

NextInst == [pull EXCEPT !.pc = "ask_url", !.found = Tail(@)]

\* fetch_upload_url: refused while a file of that name is there; the
\* institution is then passed over.
AskUrl ==
  LET i == Head(pull.found)[2] IN
  /\ pull.pc = "ask_url" /\ pull.found # <<>>
  /\ \/ /\ staged[i] = None /\ validated[i] = None
        /\ Step("transfer", pull) /\ UNCHANGED failures
     \/ /\ staged[i] # None \/ validated[i] # None
        /\ pull' = NextInst /\ UNCHANGED failures
     \/ pull' = NextInst /\ Glitch
  /\ UNCHANGED <<setup, file, source, parts, named, web>>

\* transfer_file: a failure only becomes the status; validation follows.
Transfer ==
  LET p == Head(pull.found)[1]
      i == Head(pull.found)[2] IN
  /\ pull.pc = "transfer" /\ Step("validate", pull)
  /\ \/ staged' = [staged EXCEPT ![i] = pull.urls[p]] /\ UNCHANGED failures
     \/ UNCHANGED staged /\ Glitch
  /\ UNCHANGED <<setup, file, source, parts, named, pdpId, validated, owned, uploads>>

\* The web app may refuse any file for its name, its schema or its contents
\* (external to the worker).
Passes(i, c) == c # None /\ <<i, c.rows>> \in setup.accepts

\* validate_sftp_file: whatever is staged under that name; errors are
\* returned, not raised.  A failing request may have written validated/.
Validate ==
  LET i == Head(pull.found)[2]
      moves == Passes(i, staged[i]) /\ validated[i] = None
      moved == [validated EXCEPT ![i] = staged[i]] IN
  /\ pull.pc = "validate" /\ pull' = NextInst
  /\ \/ /\ moves /\ validated' = moved /\ staged' = [staged EXCEPT ![i] = None]
        /\ UNCHANGED failures
     \/ ~moves /\ UNCHANGED <<staged, validated, failures>>
     \/ moves /\ validated' = moved /\ UNCHANGED staged /\ Glitch
     \/ UNCHANGED <<staged, validated>> /\ Glitch
  /\ UNCHANGED <<setup, file, source, parts, named, pdpId, owned, uploads>>

EndPull ==
  /\ pull.pc = "ask_url" /\ pull.found = <<>>
  /\ pull' = Idle
  /\ UNCHANGED <<setup, file, source, parts, named, web, failures>>

\* An exception of the requests library, of a missing key, or of the process.
Crash ==
  /\ pull.pc # "done" /\ pull' = Idle /\ Glitch
  /\ UNCHANGED <<setup, file, source, parts, named, web>>

-----------------------------------------------------------------------------
(* Around the worker                                                        *)

\* External: the sender replaces the file.
ReplaceFile ==
  /\ file + 1 \in DOMAIN setup.files /\ file' = file + 1
  /\ UNCHANGED <<setup, worker, web, failures>>

\* The folder's name has the hour; a split takes less than one (assumption).
NewHour ==
  LET splitting == pull.pc = "split" IN
  /\ parts.now # NoParts
  /\ splitting => pull.folder = "now"
  /\ parts' = [now |-> NoParts, before |-> IF splitting THEN parts.now ELSE NoParts]
  /\ pull' = IF splitting THEN [pull EXCEPT !.folder = "before"] ELSE pull
  /\ UNCHANGED <<setup, file, source, named, web, failures>>

\* update_inst; an institution gets an id once (bound).
PatchInstitution(i, p) ==
  /\ <<i, p>> \notin owned
  /\ pdpId' = [pdpId EXCEPT ![i] = p] /\ owned' = owned \cup {<<i, p>>}
  /\ UNCHANGED <<setup, file, worker, staged, validated, uploads, failures>>

\* A user of the institution uploads a file of that name, and validates it.
ClientUpload(i) ==
  /\ staged[i] = None /\ validated[i] = None
  /\ uploads < MaxUploads /\ uploads' = uploads + 1
  /\ staged' = [staged EXCEPT ![i] = Foreign]
  /\ UNCHANGED <<setup, file, worker, pdpId, validated, owned, failures>>

ClientValidate(i) ==
  /\ Passes(i, staged[i]) /\ validated[i] = None
  /\ validated' = [validated EXCEPT ![i] = staged[i]]
  /\ staged' = [staged EXCEPT ![i] = None]
  /\ UNCHANGED <<setup, file, worker, pdpId, owned, uploads, failures>>

\* unvalidated/ is emptied after a day, more than a pull takes (assumption).
ExpireStaged(i) ==
  /\ staged[i] # None /\ pull.pc # "validate"
  /\ staged' = [staged EXCEPT ![i] = None]
  /\ UNCHANGED <<setup, file, worker, pdpId, validated, owned, uploads, failures>>

Init ==
  /\ setup \in Setups
  /\ file = 1 /\ source = None
  /\ parts = [now |-> NoParts, before |-> NoParts]
  /\ pdpId = [i \in Insts |-> None] /\ owned = {}
  /\ staged = [i \in Insts |-> None] /\ validated = [i \in Insts |-> None]
  /\ pull = Idle /\ named = {} /\ failures = 0 /\ uploads = 0

Work ==
  \/ CopyFile \/ ReadSource \/ SplitPart \/ EndSplit
  \/ LookUp \/ EndLookUp \/ AskUrl \/ Transfer \/ Validate \/ EndPull

Next ==
  \/ \E p \in KnownIds \cup {None} : StartPull(p)
  \/ Work \/ Crash
  \/ ReplaceFile \/ NewHour
  \/ \E i \in Insts :
       \/ \E p \in KnownIds : PatchInstitution(i, p)
       \/ ClientUpload(i) \/ ClientValidate(i) \/ ExpireStaged(i)

\* The worker goes on while it lives, someone keeps pulling the whole file,
\* the clock moves and the lifecycle rule works.
Fairness ==
  /\ WF_vars(Work) /\ WF_vars(StartPull(None)) /\ WF_vars(NewHour)
  /\ \A i \in Insts : WF_vars(ExpireStaged(i))

Spec == Init /\ [][Next]_vars /\ Fairness

-----------------------------------------------------------------------------
(* Properties *)

PartsMap == [PdpIds -> PartType \cup {None}]
PullType ==
  [pc: {"done", "copy", "read", "split", "look_up", "ask_url", "transfer", "validate"},
   byId: PdpIds \cup {None}, todo: Seq(PdpIds), folder: {"now", "before"}, urls: PartsMap,
   signed: Seq(PdpIds), found: Seq(PdpIds \X Insts)]

TypeOK ==
  /\ setup \in Setups
  /\ file \in DOMAIN setup.files /\ source \in DOMAIN setup.files \cup {None}
  /\ parts \in [now: PartsMap, before: PartsMap]
  /\ pull \in PullType
  /\ pdpId \in [Insts -> PdpIds \cup {None}]
  /\ staged \in [Insts -> PartType \cup {Foreign, None}]
  /\ validated \in [Insts -> PartType \cup {Foreign, None}]

\* Whatever a pull has put into an institution's bucket is the part of an id
\* the institution has had, all parts everywhere are of one version of the
\* file, and a part without the file's rows is there only if that id has been
\* pulled by name or is the text of an empty cell
\* (split_csv_and_generate_signed_urls, copy_from_sftp_to_gcs,
\* fetch_institution_ids).
DeliveredAsPulled ==
  \A i \in Insts :
    \A c \in {staged[i], validated[i]} \ {None, Foreign} :
      /\ <<i, c.id>> \in owned
      /\ c.version = source
      /\ c.rows = "all" \/ c.id \in named \cup {Blank}

\* A part of an id: of the one version that is ever copied, and without rows only
\* if the id was pulled by name or is that of empty cells.
IsPartOf(c, p) ==
  /\ c.id = p /\ c.version = source /\ source # None
  /\ c.rows = "all" \/ p \in named \cup {Blank}

\* What a pull has yet to do is about ids whose parts it has made, or can make
\* from the copied file; whom it serves has had the id.
PullKnows ==
  /\ pull.byId # None => pull.byId \in named
  /\ pull.pc = "split" =>
       /\ source # None
       /\ \A k \in DOMAIN pull.todo :
            IF pull.byId = None THEN InFile(pull.todo[k], source) ELSE pull.todo[k] = pull.byId
  /\ pull.pc = "look_up" => \A k \in DOMAIN pull.todo : pull.urls[pull.todo[k]] # None
  /\ \A k \in DOMAIN pull.signed : pull.urls[pull.signed[k]] # None
  /\ \A k \in DOMAIN pull.found :
       /\ pull.urls[pull.found[k][1]] # None
       /\ <<pull.found[k][2], pull.found[k][1]>> \in owned
  /\ pull.pc \in {"transfer", "validate"} => pull.found # <<>>

\* The inductive invariant of pulls: every part there is, in the worker's folders,
\* behind a URL or in an institution's bucket, is one of the copied version.
PullInv ==
  /\ TypeOK
  /\ \A i \in Insts : pdpId[i] # None => <<i, pdpId[i]>> \in owned
  /\ \A p \in PdpIds :
       /\ parts.now[p] # None => IsPartOf(parts.now[p], p)
       /\ parts.before[p] # None => IsPartOf(parts.before[p], p)
       /\ pull.urls[p] # None => IsPartOf(pull.urls[p], p)
  /\ PullKnows
  /\ \A i \in Insts : {staged[i], validated[i]} \subseteq {None, Foreign} \/ source # None
  /\ DeliveredAsPulled

\* An institution that is in the copied file, keeps its id and has full parts
\* validated gets its own part validated in the end, with all its rows,
\* whatever single calls failed and wherever a pull stopped, and whatever other
\* ids of the file are unknown: a part that a stopped pull has staged blocks the
\* next ones only until the lifecycle rule removes it (process_file).  It does
\* not where the name is taken in validated/ for good: by a client's file, by a
\* part without rows, which a pull by name made, or by a part of an earlier id.
EveryInstitutionServed ==
  \A i \in Insts, p \in KnownIds \ {Blank} :
    LET Served == validated[i] # None /\ validated[i].id = p /\ validated[i].rows = "all" IN
    <>[](/\ source # None /\ setup.sameBucket /\ InFile(p, source) /\ Owners(p) = {i}
         /\ <<i, "all">> \in setup.accepts /\ (validated[i] = None \/ Served))
      => <>Served
=============================================================================
