-------------------------- MODULE WorkerPullProofs --------------------------
(***************************************************************************)
(* Proofs about WorkerPull for any institutions, ids and versions of the    *)
(* file, and any number of failures and uploads.                           *)
(***************************************************************************)
EXTENDS WorkerPull, TLAPS

\* What is left of a queue, and what a queue gains.
LEMMA TailFacts ==
  ASSUME NEW S, NEW s \in Seq(S), s # <<>>
  PROVE  /\ Head(s) \in S /\ Tail(s) \in Seq(S)
         /\ 1 \in DOMAIN s /\ Head(s) = s[1]
         /\ \A k \in DOMAIN Tail(s) : k + 1 \in DOMAIN s /\ Tail(s)[k] = s[k + 1]
  OBVIOUS

\* What a queue gains at its end.
LEMMA AppendFacts ==
  ASSUME NEW S, NEW s \in Seq(S), NEW x \in S
  PROVE  /\ Append(s, x) \in Seq(S)
         /\ \A k \in DOMAIN Append(s, x) :
              Append(s, x)[k] = x \/ (k \in DOMAIN s /\ Append(s, x)[k] = s[k])
  OBVIOUS

\* The texts pandas makes of the cells of a version of the file.
LEMMA IdsType ==
  ASSUME TypeOK, NEW v \in DOMAIN setup.files PROVE Ids(v) \in Seq(PdpIds)
<1> DEFINE cells == setup.files[v].cells
           f == [k \in DOMAIN cells |-> IF Column(v) = "text" THEN cells[k]
                                        ELSE Numeral[Column(v)][cells[k]]]
<1>1. setup.files \in Seq(FileType)
  BY PullAssumption DEF TypeOK
<1>2. setup.files[v] \in FileType
  BY <1>1
<1>3. cells \in Seq(PdpIds) /\ Column(v) \in Numbers \cup {"text"}
  BY <1>2 DEF FileType, Column
<1>4. /\ DOMAIN cells = 1..Len(cells) /\ Len(cells) \in Nat
      /\ \A k \in DOMAIN cells : cells[k] \in PdpIds
  BY <1>3
<1> HIDE DEF cells
<1>5. \A k \in DOMAIN cells : f[k] \in PdpIds
  BY <1>3, <1>4, PullAssumption
<1>6. f \in Seq(PdpIds)
  BY <1>4, <1>5
<1> QED
  BY <1>6 DEF Ids, cells

\* No pull: no ids, no URLs, nobody to serve.
LEMMA IdleFacts ==
  /\ Idle \in PullType
  /\ Idle.pc = "done" /\ Idle.byId = None /\ Idle.todo = <<>> /\ Idle.signed = <<>>
  /\ Idle.found = <<>> /\ Idle.folder = "now" /\ \A p \in PdpIds : Idle.urls[p] = None
<1>1. NoParts \in PartsMap /\ \A p \in PdpIds : NoParts[p] = None
  BY DEF NoParts, PartsMap
<1> QED
  BY <1>1 DEF Idle, PullType

\* Without a pull there is nothing to know.
LEMMA IdleKnows == ASSUME pull' = Idle PROVE PullKnows'
  BY IdleFacts DEF PullKnows

\* A step of the worker that makes no part and sends none.
LEMMA WorkFrame ==
  ASSUME PullInv, UNCHANGED <<setup, file, source, parts, named, pdpId, staged, validated, owned>>,
         pull' \in PullType,
         \A p \in PdpIds : pull'.urls[p] = pull.urls[p] \/ pull'.urls[p] = None,
         PullKnows'
  PROVE  PullInv'
<1>1. TypeOK'
  BY DEF PullInv, TypeOK
<1>2. \A p \in PdpIds :
        /\ parts'.now[p] # None => IsPartOf(parts.now[p], p)'
        /\ parts'.before[p] # None => IsPartOf(parts.before[p], p)'
        /\ pull'.urls[p] # None => IsPartOf(pull.urls[p], p)'
  BY DEF PullInv, IsPartOf
<1>3. DeliveredAsPulled'
  BY DEF PullInv, DeliveredAsPulled
<1> QED
  BY <1>1, <1>2, <1>3 DEF PullInv

\* A step around the worker: it knows no less than before.
LEMMA PullStays ==
  ASSUME PullKnows, UNCHANGED <<setup, pull, source>>,
         named \subseteq named', owned \subseteq owned'
  PROVE  PullKnows'
  BY DEF PullKnows, InFile, Ids, Column

\* A pull that is given up, at its end or in mid-way.
LEMMA GivesUp ==
  ASSUME PullInv, pull' = Idle,
         UNCHANGED <<setup, file, source, parts, named, pdpId, staged, validated, owned>>
  PROVE  PullInv'
  BY IdleFacts, IdleKnows, WorkFrame

\* A pull begins with nothing, and its name is remembered.
LEMMA StartKeeps ==
  ASSUME PullInv, NEW p \in KnownIds \cup {None}, StartPull(p) PROVE PullInv'
<1>0. p \in PdpIds \cup {None}
  BY PullAssumption
<1>1. /\ pull' = [[Idle EXCEPT !.byId = p] EXCEPT !.pc = "copy"]
      /\ named' = named \cup ({p} \ {None})
      /\ UNCHANGED <<setup, file, source, parts, pdpId, staged, validated, owned>>
  BY DEF StartPull, Step, web
<1>2. /\ pull' \in PullType /\ pull'.pc = "copy" /\ pull'.byId = p /\ pull'.signed = <<>>
      /\ pull'.found = <<>> /\ pull'.urls = Idle.urls
  BY <1>0, <1>1, IdleFacts DEF PullType
<1>3. PullKnows'
  BY <1>1, <1>2 DEF PullKnows
<1>4. TypeOK'
  BY <1>1, <1>2 DEF PullInv, TypeOK
<1>5. \A q \in PdpIds :
        /\ parts'.now[q] # None => IsPartOf(parts.now[q], q)'
        /\ parts'.before[q] # None => IsPartOf(parts.before[q], q)'
        /\ pull'.urls[q] # None => IsPartOf(pull.urls[q], q)'
  BY <1>1, <1>2, IdleFacts DEF PullInv, IsPartOf
<1>6. DeliveredAsPulled'
  BY <1>1 DEF PullInv, DeliveredAsPulled
<1> QED
  BY <1>1, <1>3, <1>4, <1>5, <1>6 DEF PullInv

\* The file is copied where nothing was made of a copy yet, or not at all.
LEMMA CopyKeeps == ASSUME PullInv, CopyFile PROVE PullInv'
<1>1. /\ pull.pc = "copy" /\ pull' = [pull EXCEPT !.pc = "read"]
      /\ UNCHANGED <<setup, file, parts, named, pdpId, staged, validated, owned>>
      /\ source' = source \/ (source = None /\ source' = file)
  BY DEF CopyFile, Step, web
<1>2. /\ pull' \in PullType /\ pull'.pc = "read" /\ pull'.byId = pull.byId
      /\ pull'.signed = pull.signed /\ pull'.found = pull.found /\ pull'.urls = pull.urls
  BY <1>1 DEF PullInv, TypeOK, PullType
<1>3. PullKnows'
  BY <1>1, <1>2 DEF PullInv, PullKnows
<1>4. CASE source' = source
  BY <1>1, <1>2, <1>3, <1>4, WorkFrame
<1>5. CASE source = None /\ source' = file
  <2>1. TypeOK'
    BY <1>1, <1>2, <1>5 DEF PullInv, TypeOK
  <2>2. \A p \in PdpIds : parts.now[p] = None /\ parts.before[p] = None /\ pull.urls[p] = None
    BY <1>5 DEF PullInv, IsPartOf
  <2>3. \A i \in Insts : {staged[i], validated[i]} \subseteq {None, Foreign}
    BY <1>5 DEF PullInv
  <2>4. DeliveredAsPulled'
    BY <1>1, <2>3 DEF DeliveredAsPulled, Foreign
  <2> QED
    BY <1>1, <1>2, <1>3, <2>1, <2>2, <2>3, <2>4 DEF PullInv, Foreign
<1> QED
  BY <1>1, <1>4, <1>5

\* What is to be split: every id of the copied file, or the one asked for.
LEMMA ReadKeeps == ASSUME PullInv, ReadSource PROVE PullInv'
<1>1. UNCHANGED <<setup, file, source, parts, named, pdpId, staged, validated, owned>>
  BY DEF ReadSource, web
<1>2. CASE pull' = Idle
  BY <1>1, <1>2, GivesUp
<1>3. CASE pull' # Idle
  <2> DEFINE todo == IF pull.byId = None THEN Ids(source) ELSE <<pull.byId>>
  <2>1. /\ source # None /\ source \in DOMAIN setup.files
        /\ pull' = [[pull EXCEPT !.todo = todo] EXCEPT !.pc = "split"]
    BY <1>3 DEF ReadSource, Step, PullInv, TypeOK
  <2>2. pull \in PullType
    BY DEF PullInv, TypeOK
  <2>3. /\ todo \in Seq(PdpIds)
        /\ \A k \in DOMAIN todo :
             IF pull.byId = None THEN InFile(todo[k], source) ELSE todo[k] = pull.byId
    <3>1. CASE pull.byId = None
      <4>1. Ids(source) \in Seq(PdpIds)
        BY <2>1, IdsType DEF PullInv
      <4> QED
        BY <3>1, <4>1 DEF InFile
    <3>2. CASE pull.byId # None
      BY <2>2, <3>2 DEF PullType
    <3> QED
      BY <3>1, <3>2
  <2> HIDE DEF todo
  <2>4. /\ pull' \in PullType /\ pull'.pc = "split" /\ pull'.byId = pull.byId
        /\ pull'.signed = pull.signed /\ pull'.found = pull.found /\ pull'.urls = pull.urls
        /\ pull'.todo = todo
    BY <2>1, <2>2, <2>3 DEF PullType
  <2>5. PullKnows'
    BY <1>1, <2>1, <2>3, <2>4 DEF PullInv, PullKnows, InFile, Ids, Column
  <2> QED
    BY <1>1, <2>4, <2>5, WorkFrame
<1> QED
  BY <1>2, <1>3

\* The part of an id is the one this hour's folder has, or made of the copied file.
LEMMA SplitKeeps == ASSUME PullInv, SplitPart PROVE PullInv'
<1> DEFINE p == Head(pull.todo)
           f == pull.folder
           part == IF parts[f][p] = None
                   THEN [id |-> p, rows |-> Group(p), version |-> source]
                   ELSE parts[f][p]
           rest == [pull EXCEPT !.todo = Tail(@)]
           signs == [[rest EXCEPT !.urls[p] = part] EXCEPT !.signed = Append(@, p)]
<1>1. /\ pull.pc = "split" /\ pull.todo # <<>>
      /\ UNCHANGED <<setup, file, source, named, pdpId, staged, validated, owned>>
      /\ parts' = parts \/ parts' = [parts EXCEPT ![f][p] = part]
      /\ \/ pull' = rest
         \/ parts' = [parts EXCEPT ![f][p] = part] /\ pull' = signs
  BY DEF SplitPart, web
<1>2. pull \in PullType /\ parts \in [now: PartsMap, before: PartsMap]
  BY DEF PullInv, TypeOK
<1>3. /\ p \in PdpIds /\ Tail(pull.todo) \in Seq(PdpIds) /\ f \in {"now", "before"}
      /\ 1 \in DOMAIN pull.todo /\ p = pull.todo[1]
      /\ \A k \in DOMAIN Tail(pull.todo) :
           k + 1 \in DOMAIN pull.todo /\ Tail(pull.todo)[k] = pull.todo[k + 1]
  BY <1>1, <1>2, TailFacts DEF PullType
<1>4. source \in DOMAIN setup.files /\ source \in Nat /\ source # None
  <2>1. source \in DOMAIN setup.files /\ source # None
    BY <1>1 DEF PullInv, TypeOK, PullKnows
  <2>2. setup.files \in Seq(FileType)
    BY PullAssumption DEF PullInv, TypeOK
  <2> QED
    BY <2>1, <2>2
<1>5. part \in PartType /\ part # None /\ IsPartOf(part, p)
  <2>1. CASE parts[f][p] = None
    <3>1. Group(p) \in {"all", "none"} /\ (Group(p) = "all" \/ p \in named \cup {Blank})
      <4>1. CASE pull.byId = None
        BY <1>1, <1>3, <4>1 DEF PullInv, PullKnows, Group
      <4>2. CASE pull.byId # None
        BY <1>1, <1>3, <4>2 DEF PullInv, PullKnows, Group
      <4> QED
        BY <4>1, <4>2
    <3>2. part = [id |-> p, rows |-> Group(p), version |-> source]
      BY <2>1
    <3>3. part \in PartType
      BY <1>3, <1>4, <3>1, <3>2 DEF PartType
    <3> QED
      BY <1>4, <3>1, <3>2, <3>3, PullAssumption DEF IsPartOf
  <2>2. CASE parts[f][p] # None
    <3>1. CASE f = "now"
      BY <1>2, <1>3, <2>2, <3>1 DEF PullInv, PartsMap
    <3>2. CASE f = "before"
      BY <1>2, <1>3, <2>2, <3>2 DEF PullInv, PartsMap
    <3> QED
      BY <1>3, <3>1, <3>2
  <2> QED
    BY <2>1, <2>2
<1> HIDE DEF part
<1>6. /\ parts' \in [now: PartsMap, before: PartsMap]
      /\ \A q \in PdpIds :
           /\ parts'.now[q] = parts.now[q] \/ (q = p /\ parts'.now[q] = part)
           /\ parts'.before[q] = parts.before[q] \/ (q = p /\ parts'.before[q] = part)
  <2>1. CASE parts' = parts
    BY <1>2, <2>1
  <2>2. CASE parts' = [parts EXCEPT ![f][p] = part] /\ f = "now"
    BY <1>2, <1>3, <1>5, <2>2 DEF PartsMap
  <2>3. CASE parts' = [parts EXCEPT ![f][p] = part] /\ f = "before"
    BY <1>2, <1>3, <1>5, <2>3 DEF PartsMap
  <2> QED
    BY <1>1, <1>3, <2>1, <2>2, <2>3
<1>7. /\ pull' \in PullType /\ pull'.pc = "split" /\ pull'.byId = pull.byId
      /\ pull'.found = pull.found /\ pull'.todo = Tail(pull.todo)
      /\ \A q \in PdpIds : pull'.urls[q] = pull.urls[q] \/ (q = p /\ pull'.urls[q] = part)
      /\ \A k \in DOMAIN pull'.signed : pull'.urls[pull'.signed[k]] # None
  <2>0. \A k \in DOMAIN pull.signed :
          pull.signed[k] \in PdpIds /\ pull.urls[pull.signed[k]] # None
    BY <1>2 DEF PullInv, PullKnows, PullType
  <2>1. CASE pull' = rest
    BY <1>1, <1>2, <1>3, <2>0, <2>1 DEF PullType
  <2>2. CASE pull' = signs
    <3>1. /\ Append(pull.signed, p) \in Seq(PdpIds)
          /\ \A k \in DOMAIN Append(pull.signed, p) :
               \/ Append(pull.signed, p)[k] = p
               \/ k \in DOMAIN pull.signed /\ Append(pull.signed, p)[k] = pull.signed[k]
      BY <1>2, <1>3, AppendFacts DEF PullType
    <3>2. /\ pull'.signed = Append(pull.signed, p) /\ pull'.urls = [pull.urls EXCEPT ![p] = part]
          /\ pull'.pc = "split" /\ pull'.byId = pull.byId
          /\ pull'.found = pull.found /\ pull'.todo = Tail(pull.todo)
      BY <1>1, <1>2, <2>2 DEF PullType
    <3>3. pull.urls \in PartsMap /\ pull'.urls \in PartsMap
      BY <1>2, <1>3, <1>5, <3>2 DEF PullType, PartsMap
    <3>4. pull' \in PullType
      BY <1>2, <1>3, <2>2, <3>1, <3>2, <3>3 DEF PullType
    <3>5. \A q \in PdpIds : pull'.urls[q] = IF q = p THEN part ELSE pull.urls[q]
      BY <1>3, <3>2, <3>3 DEF PartsMap
    <3>6. ASSUME NEW k \in DOMAIN pull'.signed PROVE pull'.urls[pull'.signed[k]] # None
      <4>1. CASE pull'.signed[k] = p
        BY <1>3, <1>5, <3>5, <4>1
      <4>2. CASE k \in DOMAIN pull.signed /\ pull'.signed[k] = pull.signed[k]
        BY <1>5, <2>0, <3>5, <4>2
      <4> QED
        BY <3>1, <3>2, <4>1, <4>2
    <3> QED
      BY <3>2, <3>4, <3>5, <3>6
  <2> QED
    BY <1>1, <2>1, <2>2
<1>8. PullKnows'
  <2>1. /\ pull'.byId # None => pull'.byId \in named'
        /\ source' # None
        /\ \A k \in DOMAIN pull'.todo :
             IF pull'.byId = None THEN InFile(pull.todo[k], source)'
             ELSE pull'.todo[k] = pull'.byId
    BY <1>1, <1>3, <1>4, <1>7 DEF PullInv, PullKnows, InFile, Ids, Column
  <2>2. \A k \in DOMAIN pull'.found :
          /\ pull'.urls[pull'.found[k][1]] # None
          /\ <<pull'.found[k][2], pull'.found[k][1]>> \in owned'
    <3>1. \A k \in DOMAIN pull.found : pull.found[k][1] \in PdpIds
      BY <1>2 DEF PullType
    <3> QED
      BY <1>1, <1>5, <1>7, <3>1 DEF PullInv, PullKnows
  <2> QED
    BY <1>7, <2>1, <2>2 DEF PullKnows
<1>9. TypeOK'
  BY <1>1, <1>6, <1>7 DEF PullInv, TypeOK
<1>10. \A q \in PdpIds :
         /\ parts'.now[q] # None => IsPartOf(parts.now[q], q)'
         /\ parts'.before[q] # None => IsPartOf(parts.before[q], q)'
         /\ pull'.urls[q] # None => IsPartOf(pull.urls[q], q)'
  BY <1>1, <1>5, <1>6, <1>7 DEF PullInv, IsPartOf
<1>11. DeliveredAsPulled'
  BY <1>1 DEF PullInv, DeliveredAsPulled
<1> QED
  BY <1>1, <1>8, <1>9, <1>10, <1>11 DEF PullInv

\* What is to be looked up are the ids with a URL.
LEMMA EndSplitKeeps == ASSUME PullInv, EndSplit PROVE PullInv'
<1>1. /\ pull' = [[pull EXCEPT !.todo = pull.signed, !.signed = <<>>] EXCEPT !.pc = "look_up"]
      /\ UNCHANGED <<setup, file, source, parts, named, pdpId, staged, validated, owned>>
  BY DEF EndSplit, Step, web
<1>2. pull \in PullType /\ <<>> \in Seq(PdpIds)
  BY DEF PullInv, TypeOK
<1>3. /\ pull'.pc = "look_up" /\ pull'.byId = pull.byId /\ pull'.todo = pull.signed
      /\ pull'.signed = <<>> /\ pull'.found = pull.found /\ pull'.urls = pull.urls
      /\ pull' \in PullType
  BY <1>1, <1>2 DEF PullType
<1>4. PullKnows'
  BY <1>1, <1>3 DEF PullInv, PullKnows
<1> QED
  BY <1>1, <1>3, <1>4, WorkFrame

\* Only an institution that has the id, and so has had it, is found for it.
LEMMA LookUpKeeps == ASSUME PullInv, LookUp PROVE PullInv'
<1> DEFINE p == Head(pull.todo)
           rest == [pull EXCEPT !.todo = Tail(@)]
<1>1. /\ pull.pc = "look_up" /\ pull.todo # <<>>
      /\ UNCHANGED <<setup, file, source, parts, named, pdpId, staged, validated, owned>>
      /\ \/ pull' = rest
         \/ \E i \in Owners(p) : pull' = [rest EXCEPT !.found = Append(@, <<p, i>>)]
  BY DEF LookUp, web
<1>2. pull \in PullType /\ pull.todo \in Seq(PdpIds)
  BY DEF PullInv, TypeOK, PullType
<1>3. /\ p \in PdpIds /\ Tail(pull.todo) \in Seq(PdpIds)
      /\ 1 \in DOMAIN pull.todo /\ p = pull.todo[1]
      /\ \A k \in DOMAIN Tail(pull.todo) :
           k + 1 \in DOMAIN pull.todo /\ Tail(pull.todo)[k] = pull.todo[k + 1]
  BY <1>1, <1>2, TailFacts
<1>4. pull.urls[p] # None
  BY <1>1, <1>3 DEF PullInv, PullKnows
<1>5. \A k \in DOMAIN Tail(pull.todo) : pull.urls[Tail(pull.todo)[k]] # None
  BY <1>1, <1>3 DEF PullInv, PullKnows
<1>6. /\ pull' \in PullType /\ pull'.pc = "look_up" /\ pull'.byId = pull.byId
      /\ pull'.todo = Tail(pull.todo) /\ pull'.signed = pull.signed /\ pull'.urls = pull.urls
      /\ \A k \in DOMAIN pull'.found :
           /\ pull'.urls[pull'.found[k][1]] # None
           /\ <<pull'.found[k][2], pull'.found[k][1]>> \in owned
  <2>1. CASE pull' = rest
    BY <1>1, <1>2, <1>3, <2>1 DEF PullType, PullInv, PullKnows
  <2>2. ASSUME NEW i \in Owners(p), pull' = [rest EXCEPT !.found = Append(@, <<p, i>>)]
        PROVE  <1>6!:
    <3>1. i \in Insts /\ <<i, p>> \in owned
      BY <1>3, PullAssumption DEF Owners, PullInv
    <3>2. /\ Append(pull.found, <<p, i>>) \in Seq(PdpIds \X Insts)
          /\ \A k \in DOMAIN Append(pull.found, <<p, i>>) :
               \/ Append(pull.found, <<p, i>>)[k] = <<p, i>>
               \/ /\ k \in DOMAIN pull.found
                  /\ Append(pull.found, <<p, i>>)[k] = pull.found[k]
      <4>1. pull.found \in Seq(PdpIds \X Insts) /\ <<p, i>> \in PdpIds \X Insts
        BY <1>2, <1>3, <3>1 DEF PullType
      <4> QED
        BY <4>1, AppendFacts
    <3>3. /\ pull'.found = Append(pull.found, <<p, i>>) /\ pull'.urls = pull.urls
          /\ pull'.pc = "look_up" /\ pull'.byId = pull.byId
          /\ pull'.todo = Tail(pull.todo) /\ pull'.signed = pull.signed /\ pull' \in PullType
      BY <1>1, <1>2, <1>3, <2>2, <3>2 DEF PullType
    <3>4. ASSUME NEW k \in DOMAIN pull'.found
          PROVE  /\ pull'.urls[pull'.found[k][1]] # None
                 /\ <<pull'.found[k][2], pull'.found[k][1]>> \in owned
      <4>1. CASE pull'.found[k] = <<p, i>>
        BY <1>4, <3>1, <3>3, <4>1
      <4>2. CASE k \in DOMAIN pull.found /\ pull'.found[k] = pull.found[k]
        BY <3>3, <4>2 DEF PullInv, PullKnows
      <4> QED
        BY <3>2, <3>3, <4>1, <4>2
    <3> QED
      BY <3>3, <3>4
  <2> QED
    BY <1>1, <2>1, <2>2
<1>7. PullKnows'
  BY <1>1, <1>5, <1>6 DEF PullInv, PullKnows
<1> QED
  BY <1>1, <1>6, <1>7, WorkFrame

\* A step of the pull to another place of its program.
LEMMA StepKeeps ==
  ASSUME PullInv,
         NEW c \in {"ask_url", "transfer", "validate"}, pull' = [pull EXCEPT !.pc = c],
         c = "ask_url" \/ pull.found # <<>>,
         UNCHANGED <<source, named, owned>>
  PROVE  pull' \in PullType /\ pull'.urls = pull.urls /\ PullKnows'
<1>1. pull \in PullType
  BY DEF PullInv, TypeOK
<1>2. /\ pull'.pc = c /\ pull'.byId = pull.byId /\ pull'.todo = pull.todo
      /\ pull'.signed = pull.signed /\ pull'.found = pull.found /\ pull'.urls = pull.urls
      /\ pull' \in PullType
  BY <1>1 DEF PullType
<1> QED
  BY <1>2 DEF PullInv, PullKnows

\* The next institution to serve.
LEMMA NextInstKeeps ==
  ASSUME PullInv, pull.found # <<>>, pull' = NextInst, UNCHANGED <<source, named, owned>>
  PROVE  pull' \in PullType /\ pull'.urls = pull.urls /\ PullKnows'
<1>1. pull \in PullType
  BY DEF PullInv, TypeOK
<1>2. /\ Tail(pull.found) \in Seq(PdpIds \X Insts)
      /\ \A k \in DOMAIN Tail(pull.found) :
           k + 1 \in DOMAIN pull.found /\ Tail(pull.found)[k] = pull.found[k + 1]
  BY <1>1, TailFacts DEF PullType
<1>3. /\ pull'.pc = "ask_url" /\ pull'.byId = pull.byId /\ pull'.todo = pull.todo
      /\ pull'.signed = pull.signed /\ pull'.found = Tail(pull.found) /\ pull'.urls = pull.urls
      /\ pull' \in PullType
  BY <1>1, <1>2 DEF PullType, NextInst
<1>4. \A k \in DOMAIN pull'.found :
        /\ pull'.urls[pull'.found[k][1]] # None
        /\ <<pull'.found[k][2], pull'.found[k][1]>> \in owned'
  <2>1. ASSUME NEW k \in DOMAIN Tail(pull.found)
        PROVE  /\ pull.urls[Tail(pull.found)[k][1]] # None
               /\ <<Tail(pull.found)[k][2], Tail(pull.found)[k][1]>> \in owned
    <3>1. k + 1 \in DOMAIN pull.found /\ Tail(pull.found)[k] = pull.found[k + 1]
      BY <1>2
    <3>2. /\ pull.urls[pull.found[k + 1][1]] # None
          /\ <<pull.found[k + 1][2], pull.found[k + 1][1]>> \in owned
      BY <3>1 DEF PullInv, PullKnows
    <3> QED
      BY <3>1, <3>2
  <2> QED
    BY <1>3, <2>1
<1>5. \A k \in DOMAIN pull'.signed : pull'.urls[pull'.signed[k]] # None
  BY <1>3 DEF PullInv, PullKnows
<1>6. pull'.byId # None => pull'.byId \in named'
  BY <1>3 DEF PullInv, PullKnows
<1> QED
  BY <1>3, <1>4, <1>5, <1>6 DEF PullKnows

\* Whom the pull serves next, with what.
LEMMA HeadFound ==
  ASSUME PullInv, pull.found # <<>>
  PROVE  LET p == Head(pull.found)[1]
             i == Head(pull.found)[2]
         IN  /\ p \in PdpIds /\ i \in Insts /\ <<i, p>> \in owned
             /\ pull.urls[p] \in PartType /\ IsPartOf(pull.urls[p], p)
<1>1. pull \in PullType
  BY DEF PullInv, TypeOK
<1>2. Head(pull.found) \in PdpIds \X Insts /\ 1 \in DOMAIN pull.found
      /\ Head(pull.found) = pull.found[1]
  BY <1>1, TailFacts DEF PullType
<1>3. pull.urls[Head(pull.found)[1]] # None
  BY <1>2 DEF PullInv, PullKnows
<1> QED
  BY <1>1, <1>2, <1>3 DEF PullInv, PullKnows, PullType, PartsMap

\* A step that changes what institutions have got: each holds what it held, a
\* client's file, or the part of an id of its own.
LEMMA BucketFrame ==
  ASSUME PullInv, UNCHANGED <<setup, file, source, parts, named, pdpId, owned>>,
         pull' \in PullType, pull'.urls = pull.urls, PullKnows',
         staged' \in [Insts -> PartType \cup {Foreign, None}],
         validated' \in [Insts -> PartType \cup {Foreign, None}],
         \A i \in Insts : \A c \in {staged'[i], validated'[i]} :
           \/ c \in {None, Foreign, staged[i], validated[i]}
           \/ <<i, c.id>> \in owned /\ IsPartOf(c, c.id)
  PROVE  PullInv'
<1>1. TypeOK'
  BY DEF PullInv, TypeOK
<1>2. \A p \in PdpIds :
        /\ parts'.now[p] # None => IsPartOf(parts.now[p], p)'
        /\ parts'.before[p] # None => IsPartOf(parts.before[p], p)'
        /\ pull'.urls[p] # None => IsPartOf(pull.urls[p], p)'
  BY DEF PullInv, IsPartOf
<1>3. \A i \in Insts : {staged'[i], validated'[i]} \subseteq {None, Foreign} \/ source' # None
  BY DEF PullInv, IsPartOf
<1>4. DeliveredAsPulled'
  <2>1. ASSUME NEW i \in Insts, NEW c \in {staged'[i], validated'[i]} \ {None, Foreign}
        PROVE  /\ <<i, c.id>> \in owned /\ c.version = source
               /\ c.rows = "all" \/ c.id \in named \cup {Blank}
    BY <2>1 DEF PullInv, DeliveredAsPulled, IsPartOf
  <2> QED
    BY <2>1 DEF DeliveredAsPulled, Foreign
<1>5. \A i \in Insts : pdpId'[i] # None => <<i, pdpId'[i]>> \in owned'
  BY DEF PullInv
<1> QED
  BY <1>1, <1>2, <1>3, <1>4, <1>5 DEF PullInv, Foreign

\* A passed-over institution, or a URL for the upload: nothing is sent yet.
LEMMA AskKeeps == ASSUME PullInv, AskUrl PROVE PullInv'
<1>1. /\ pull.found # <<>>
      /\ pull' = [pull EXCEPT !.pc = "transfer"] \/ pull' = NextInst
      /\ UNCHANGED <<setup, file, source, parts, named, pdpId, staged, validated, owned>>
  BY DEF AskUrl, Step, web
<1>2. pull' \in PullType /\ pull'.urls = pull.urls /\ PullKnows'
  BY <1>1, StepKeeps, NextInstKeeps
<1> QED
  BY <1>1, <1>2, WorkFrame

\* The part behind the URL of an id goes to an institution that has had it.
LEMMA TransferKeeps == ASSUME PullInv, Transfer PROVE PullInv'
<1> DEFINE p == Head(pull.found)[1]
           i == Head(pull.found)[2]
<1>1. /\ pull.found # <<>> /\ pull' = [pull EXCEPT !.pc = "validate"]
      /\ staged' = [staged EXCEPT ![i] = pull.urls[p]] \/ staged' = staged
      /\ UNCHANGED <<setup, file, source, parts, named, pdpId, validated, owned>>
  BY DEF Transfer, Step, PullInv, PullKnows
<1>2. pull' \in PullType /\ pull'.urls = pull.urls /\ PullKnows'
  BY <1>1, StepKeeps
<1>3. /\ p \in PdpIds /\ i \in Insts /\ <<i, p>> \in owned
      /\ pull.urls[p] \in PartType /\ IsPartOf(pull.urls[p], p)
  BY <1>1, HeadFound
<1>4. /\ staged \in [Insts -> PartType \cup {Foreign, None}]
      /\ validated \in [Insts -> PartType \cup {Foreign, None}]
  BY DEF PullInv, TypeOK
<1>5. pull.urls[p].id = p
  BY <1>3 DEF IsPartOf
<1>6. \A j \in Insts : staged'[j] = staged[j] \/ (j = i /\ staged'[j] = pull.urls[p])
  BY <1>1, <1>3, <1>4
<1>7. staged' \in [Insts -> PartType \cup {Foreign, None}]
  BY <1>1, <1>3, <1>4
<1>8. \A j \in Insts : \A c \in {staged'[j], validated'[j]} :
        \/ c \in {None, Foreign, staged[j], validated[j]}
        \/ <<j, c.id>> \in owned /\ IsPartOf(c, c.id)
  BY <1>1, <1>3, <1>5, <1>6
<1> QED
  BY <1>1, <1>2, <1>4, <1>7, <1>8, BucketFrame

\* Validation moves what is staged, whosever it is.
LEMMA ValidateKeeps == ASSUME PullInv, Validate PROVE PullInv'
<1> DEFINE i == Head(pull.found)[2]
<1>1. /\ pull.found # <<>> /\ pull' = NextInst
      /\ validated' = [validated EXCEPT ![i] = staged[i]] \/ validated' = validated
      /\ staged' = [staged EXCEPT ![i] = None] \/ staged' = staged
      /\ UNCHANGED <<setup, file, source, parts, named, pdpId, owned>>
  BY DEF Validate, PullInv, PullKnows
<1>2. pull' \in PullType /\ pull'.urls = pull.urls /\ PullKnows'
  BY <1>1, NextInstKeeps
<1>3. i \in Insts
  BY <1>1, HeadFound
<1>4. /\ staged \in [Insts -> PartType \cup {Foreign, None}]
      /\ validated \in [Insts -> PartType \cup {Foreign, None}]
  BY DEF PullInv, TypeOK
<1>5. /\ staged' \in [Insts -> PartType \cup {Foreign, None}]
      /\ validated' \in [Insts -> PartType \cup {Foreign, None}]
      /\ \A j \in Insts : /\ staged'[j] \in {None, staged[j]}
                          /\ validated'[j] \in {staged[j], validated[j]}
  BY <1>1, <1>3, <1>4
<1> QED
  BY <1>1, <1>2, <1>5, BucketFrame

\* What web clients and the lifecycle rule do to an institution's file.
LEMMA ClientKeeps ==
  ASSUME PullInv, NEW i \in Insts, ClientUpload(i) \/ ClientValidate(i) \/ ExpireStaged(i)
  PROVE  PullInv'
<1>1. /\ \/ staged' = [staged EXCEPT ![i] = Foreign] /\ validated' = validated
         \/ /\ validated' = [validated EXCEPT ![i] = staged[i]]
            /\ staged' = [staged EXCEPT ![i] = None]
         \/ staged' = [staged EXCEPT ![i] = None] /\ validated' = validated
      /\ UNCHANGED <<setup, file, source, parts, named, pull, pdpId, owned>>
  BY DEF ClientUpload, ClientValidate, ExpireStaged, worker
<1>2. /\ staged \in [Insts -> PartType \cup {Foreign, None}]
      /\ validated \in [Insts -> PartType \cup {Foreign, None}]
      /\ pull \in PullType
  BY DEF PullInv, TypeOK
<1>3. PullKnows'
  BY <1>1, PullStays DEF PullInv
<1>4. /\ staged' \in [Insts -> PartType \cup {Foreign, None}]
      /\ validated' \in [Insts -> PartType \cup {Foreign, None}]
      /\ \A j \in Insts : /\ staged'[j] \in {None, Foreign, staged[j]}
                          /\ validated'[j] \in {staged[j], validated[j]}
  BY <1>1, <1>2
<1> QED
  BY <1>1, <1>2, <1>3, <1>4, BucketFrame

\* The hour's folder becomes the folder of the hour before, also for a split
\* that goes on.
LEMMA HourKeeps == ASSUME PullInv, NewHour PROVE PullInv'
<1>1. /\ parts'.now = NoParts /\ parts'.before \in {NoParts, parts.now}
      /\ parts' = [now |-> parts'.now, before |-> parts'.before]
      /\ pull' \in {pull, [pull EXCEPT !.folder = "before"]}
      /\ UNCHANGED <<setup, file, source, named, pdpId, staged, validated, owned>>
  BY DEF NewHour, web
<1>2. pull \in PullType /\ parts \in [now: PartsMap, before: PartsMap]
  BY DEF PullInv, TypeOK
<1>3. /\ pull' \in PullType /\ pull'.pc = pull.pc /\ pull'.byId = pull.byId
      /\ pull'.todo = pull.todo /\ pull'.signed = pull.signed
      /\ pull'.found = pull.found /\ pull'.urls = pull.urls
  BY <1>1, <1>2 DEF PullType
<1>4. NoParts \in PartsMap /\ \A p \in PdpIds : NoParts[p] = None
  BY DEF NoParts, PartsMap
<1>5. parts' \in [now: PartsMap, before: PartsMap]
  BY <1>1, <1>2, <1>4
<1>6. TypeOK'
  BY <1>1, <1>3, <1>5 DEF PullInv, TypeOK
<1>7. PullKnows'
  BY <1>1, <1>3 DEF PullInv, PullKnows, InFile, Ids, Column
<1>8. \A p \in PdpIds :
        /\ parts'.now[p] # None => IsPartOf(parts.now[p], p)'
        /\ parts'.before[p] # None => IsPartOf(parts.before[p], p)'
        /\ pull'.urls[p] # None => IsPartOf(pull.urls[p], p)'
  BY <1>1, <1>3, <1>4 DEF PullInv, IsPartOf
<1>9. DeliveredAsPulled'
  BY <1>1 DEF PullInv, DeliveredAsPulled
<1> QED
  BY <1>1, <1>6, <1>7, <1>8, <1>9 DEF PullInv

\* Who has an id now is on record as having had it.
LEMMA PatchKeeps ==
  ASSUME PullInv, NEW i \in Insts, NEW p \in KnownIds, PatchInstitution(i, p) PROVE PullInv'
<1>1. /\ pdpId' = [pdpId EXCEPT ![i] = p] /\ owned' = owned \cup {<<i, p>>}
      /\ UNCHANGED <<setup, file, source, parts, named, pull, staged, validated>>
  BY DEF PatchInstitution, worker
<1>2. p \in PdpIds /\ pdpId \in [Insts -> PdpIds \cup {None}]
  BY PullAssumption DEF PullInv, TypeOK
<1>3. TypeOK'
  BY <1>1, <1>2 DEF PullInv, TypeOK
<1>4. \A j \in Insts : pdpId'[j] # None => <<j, pdpId'[j]>> \in owned'
  BY <1>1, <1>2 DEF PullInv
<1>5. \A q \in PdpIds :
        /\ parts'.now[q] # None => IsPartOf(parts.now[q], q)'
        /\ parts'.before[q] # None => IsPartOf(parts.before[q], q)'
        /\ pull'.urls[q] # None => IsPartOf(pull.urls[q], q)'
  BY <1>1 DEF PullInv, IsPartOf
<1>6. PullKnows'
  BY <1>1, PullStays DEF PullInv
<1>7. DeliveredAsPulled'
  BY <1>1 DEF PullInv, DeliveredAsPulled
<1> QED
  BY <1>1, <1>3, <1>4, <1>5, <1>6, <1>7 DEF PullInv

\* Nothing has been copied, made or sent before the first pull.
LEMMA PullInit == Init => PullInv
<1> SUFFICES ASSUME Init PROVE PullInv
  OBVIOUS
<1>1. NoParts \in PartsMap /\ \A p \in PdpIds : NoParts[p] = None
  BY DEF NoParts, PartsMap
<1>2. 1 \in DOMAIN setup.files
  BY PullAssumption DEF Init
<1>3. TypeOK
  BY <1>1, <1>2, IdleFacts DEF Init, TypeOK
<1>4. PullKnows
  BY IdleFacts DEF Init, PullKnows
<1>5. DeliveredAsPulled
  BY DEF Init, DeliveredAsPulled
<1> QED
  BY <1>1, <1>3, <1>4, <1>5, IdleFacts DEF Init, PullInv

\* Every step of the system keeps the invariant.
LEMMA PullStep == PullInv /\ [Next]_vars => PullInv'
<1> SUFFICES ASSUME PullInv, [Next]_vars PROVE PullInv'
  OBVIOUS
<1>1. ASSUME NEW p \in KnownIds \cup {None}, StartPull(p) PROVE PullInv'
  BY <1>1, StartKeeps
<1>2. CASE Work
  <2>1. CASE EndLookUp
    <3>1. /\ pull' = [pull EXCEPT !.pc = "ask_url"]
          /\ UNCHANGED <<setup, file, source, parts, named, pdpId, staged, validated, owned>>
      BY <2>1 DEF EndLookUp, Step, web
    <3>2. pull' \in PullType /\ pull'.urls = pull.urls /\ PullKnows'
      BY <3>1, StepKeeps
    <3> QED
      BY <3>1, <3>2, WorkFrame
  <2>2. CASE EndPull
    BY <2>2, GivesUp DEF EndPull, web
  <2> QED
    BY <1>2, <2>1, <2>2, CopyKeeps, ReadKeeps, SplitKeeps, EndSplitKeeps, LookUpKeeps,
       AskKeeps, TransferKeeps, ValidateKeeps DEF Work
<1>3. CASE Crash
  BY <1>3, GivesUp DEF Crash, web
<1>4. CASE ReplaceFile
  <2>1. /\ file' \in DOMAIN setup.files
        /\ UNCHANGED <<setup, source, parts, named, pull, pdpId, staged, validated, owned>>
    BY <1>4 DEF ReplaceFile, worker, web
  <2>2. TypeOK'
    BY <2>1 DEF PullInv, TypeOK
  <2>3. PullKnows'
    BY <2>1, PullStays DEF PullInv
  <2> QED
    BY <2>1, <2>2, <2>3 DEF PullInv, IsPartOf, DeliveredAsPulled
<1>5. CASE NewHour
  BY <1>5, HourKeeps
<1>6. ASSUME NEW i \in Insts, NEW p \in KnownIds, PatchInstitution(i, p) PROVE PullInv'
  BY <1>6, PatchKeeps
<1>7. ASSUME NEW i \in Insts, ClientUpload(i) \/ ClientValidate(i) \/ ExpireStaged(i)
      PROVE  PullInv'
  BY <1>7, ClientKeeps
<1>8. CASE UNCHANGED vars
  <2>1. UNCHANGED <<setup, file, source, parts, named, pull, pdpId, staged, validated, owned>>
    BY <1>8 DEF vars, worker, web
  <2> QED
    BY <2>1, PullStays, WorkFrame DEF PullInv, TypeOK
<1> QED
  BY <1>1, <1>2, <1>3, <1>4, <1>5, <1>6, <1>7, <1>8 DEF Next

\* The inductive invariant of pulls, for any file and any institutions: every part
\* in the worker's folders, behind a signed URL or in an institution's bucket is of
\* the one copied version (sftp_helper.py and utilities.py of the worker).
THEOREM PullInvariance == Spec => []PullInv
  BY PullInit, PullStep, PTL DEF Spec

\* DeliveredAsPulled: whatever pulls, crashes, PATCHes of ids, hours and clients do,
\* an institution gets only parts of ids it has had, all of the same version of the
\* file (split_csv_and_generate_signed_urls, fetch_institution_ids, transfer_file).
THEOREM PartsGoWhereTheyBelong == Spec => []DeliveredAsPulled
<1>1. PullInv => DeliveredAsPulled
  BY DEF PullInv
<1> QED
  BY <1>1, PullInvariance, PTL
=============================================================================
