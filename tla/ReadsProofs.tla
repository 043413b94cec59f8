---------------------------- MODULE ReadsProofs ----------------------------
(***************************************************************************)
(* Proofs about Access and Reads for any accounts, batches, files and       *)
(* requests, and any number of versions of the table.                      *)
(***************************************************************************)
EXTENDS Reads, FiniteSetTheorems, TLAPS

\* A slot that takes a new request record leaves the others as they are.
LEMMA SlotType ==
  ASSUME TypeOK, NEW r \in Requests, NEW v \in RequestType, req' = [req EXCEPT ![r] = v]
  PROVE  /\ req' \in [Requests -> RequestType]
         /\ req'[r] = v /\ \A q \in Requests : q # r => req'[q] = req[q]
  BY DEF TypeOK

\* Where a request stands tells what kind of record it has.
LEMMA KindOf ==
  ASSUME NEW x \in RequestType
  PROVE  /\ x.pc \in {"clear", "look_up", "read"} => x \in EdaRequest
         /\ x.pc = "eda" => x \in EdaAnswer
         /\ x.pc \in {"version", "describe", "l1", "l2", "select"} => x \in TableRequest
         /\ x.pc \in {"store", "table"} => x \in TableAnswer
         /\ x.pc = "promoting" => x \in Promotion
<1>1. x = Idle => x.pc = "done"
  BY DEF Idle
<1>2. x \in Promotion => x.pc = "promoting"
  BY DEF Promotion
<1>3. x \in EdaRequest => x.pc \in {"clear", "look_up", "read"}
  BY DEF EdaRequest
<1>4. x \in EdaAnswer => x.pc = "eda"
  BY DEF EdaAnswer
<1>5. x \in TableRequest => x.pc \in {"version", "describe", "l1", "l2", "select"}
  BY DEF TableRequest
<1>6. x \in TableAnswer => x.pc \in {"store", "table"}
  BY DEF TableAnswer
<1> QED
  BY <1>1, <1>2, <1>3, <1>4, <1>5, <1>6 DEF RequestType

\* A free slot is a request record.
LEMMA IdleType == Idle \in RequestType /\ Idle.pc = "done"
  BY DEF Idle, RequestType

\* What a token names has an id, a role and an institution.
LEMMA CallerType ==
  ASSUME AccountsInv, NEW n, NEW u \in Caller(n)
  PROVE  /\ u \in Account \cup Key \cup {Initial}
         /\ u.id \in 0..nextId - 1
         /\ Rights(u) \in UserRights
<1>1. CASE u = Initial
  BY <1>1, AccessAssumption DEF Initial, AccountsInv, Rights, UserRights
<1>2. CASE u \in accounts \cup keys
  BY <1>2 DEF AccountsInv, Account, Key, Rights, UserRights
<1> QED
  BY <1>1, <1>2 DEF Caller

-----------------------------------------------------------------------------
(* Accounts                                                                 *)

\* Requests that promote nobody, and what only they look at.
LEMMA AccountsFrame ==
  ASSUME AccountsInv, UNCHANGED who,
         \A r \in Requests : req'[r] = req[r] \/ req'[r].pc # "promoting"
  PROVE  AccountsInv'
  BY DEF AccountsInv, who, PromotionsRecorded, Ids

\* Promotions are written with their history rows, in one transaction, by an
\* account that is there.
LEMMA PromoteKeeps ==
  ASSUME TypeOK, AccountsInv, NEW r \in Requests, CommitPromote(r)
  PROVE  AccountsInv'
<1> DEFINE listed == req[r].snapshot \cup {a.id : a \in Changed(r)}
<1>0. req[r].pc = "promoting" /\ Promote(r, listed)
  BY DEF CommitPromote
<1>1. req' = [req EXCEPT ![r] = Idle]
  BY <1>0 DEF Promote, Drop
<1>2. \A q \in Requests : req'[q] = req[q] \/ req'[q].pc # "promoting"
  BY <1>1, IdleType, SlotType
<1>3. CASE UNCHANGED who
  BY <1>2, <1>3, AccountsFrame
<1>4. CASE ~(listed # {} /\ req[r].user.id \notin Ids)
  <2>1. /\ accounts' = (accounts \ Changed(r))
                         \cup {[a EXCEPT !.role = "DATAKINDER"] : a \in Changed(r)}
        /\ history' = history \cup ({req[r].user.id} \X listed)
        /\ promoted' = promoted \cup ({req[r].user.id} \X {a.id : a \in Changed(r)})
        /\ UNCHANGED <<keys, nextId>>
    BY <1>0, <1>4 DEF Promote
  <2>2. ASSUME NEW a \in Changed(r)
        PROVE  /\ [a EXCEPT !.role = "DATAKINDER"] \in Account
               /\ [a EXCEPT !.role = "DATAKINDER"].id = a.id /\ a \in accounts
    BY AccessAssumption DEF AccountsInv, Changed, Account
  <2>3. \A a \in accounts' :
          \/ a \in accounts \ Changed(r)
          \/ \E o \in Changed(r) : a = [o EXCEPT !.role = "DATAKINDER"]
    BY <2>1
  <2>4. ASSUME NEW a \in accounts'
        PROVE  a \in Account /\ \E o \in accounts : o.id = a.id
    <3>1. CASE a \in accounts
      BY <3>1 DEF AccountsInv
    <3>2. CASE \E o \in Changed(r) : a = [o EXCEPT !.role = "DATAKINDER"]
      BY <2>2, <3>2
    <3> QED
      BY <2>3, <3>1, <3>2
  <2>5. ASSUME NEW a \in accounts', NEW b \in accounts', a.id = b.id
        PROVE  a = b
    <3>1. ASSUME NEW o \in accounts, NEW p \in accounts, o.id = p.id PROVE o = p
      BY <3>1 DEF AccountsInv
    <3>2. CASE a \in accounts \ Changed(r) /\ b \in accounts \ Changed(r)
      BY <2>5, <3>1, <3>2
    <3>3. ASSUME NEW o \in Changed(r), a = [o EXCEPT !.role = "DATAKINDER"] PROVE a = b
      <4>1. a.id = o.id /\ o \in accounts
        BY <2>2, <3>3
      <4>2. b \notin accounts \ Changed(r)
        BY <2>5, <3>1, <4>1
      <4>3. PICK p \in Changed(r) : b = [p EXCEPT !.role = "DATAKINDER"]
        BY <2>3, <4>2
      <4>4. o = p
        BY <2>2, <2>5, <3>1, <4>1, <4>3
      <4> QED
        BY <3>3, <4>3, <4>4
    <3>4. ASSUME NEW p \in Changed(r), b = [p EXCEPT !.role = "DATAKINDER"],
                 a \in accounts \ Changed(r)
          PROVE  a = b
      BY <2>2, <2>5, <3>1, <3>4
    <3> QED
      BY <2>3, <3>2, <3>3, <3>4
  <2>6. Ids' \subseteq Ids
    BY <2>4 DEF Ids
  <2>7. \A p \in promoted' :
          p[1] \in 0..nextId - 1 /\ (p \in history' \/ p[1] \notin Ids')
    <3>1. ASSUME NEW p \in promoted
          PROVE  p[1] \in 0..nextId - 1 /\ (p \in history' \/ p[1] \notin Ids')
      BY <2>1, <2>6 DEF AccountsInv, PromotionsRecorded
    <3>2. ASSUME NEW p \in {req[r].user.id} \X {a.id : a \in Changed(r)}
          PROVE  p[1] \in 0..nextId - 1 /\ p \in history'
      BY <1>0, <2>1 DEF AccountsInv
    <3> QED
      BY <2>1, <3>1, <3>2
  <2>8. \A a \in accounts' \cup keys' : a.id < nextId
    BY <2>1, <2>4 DEF AccountsInv
  <2>9. \A q \in Requests : req'[q].pc = "promoting" => req'[q].user.id \in 0..nextId - 1
    BY <1>2 DEF AccountsInv
  <2> QED
    BY <2>1, <2>4, <2>5, <2>7, <2>8, <2>9 DEF AccountsInv, PromotionsRecorded
<1> QED
  BY <1>0, <1>3, <1>4 DEF Promote, Drop

\* A deletion takes the history rows of the account, and of no other.
LEMMA DeleteAccountKeeps == ASSUME AccountsInv, DeleteAccount PROVE AccountsInv'
<1>1. PICK a \in accounts :
        accounts' = accounts \ {a} /\ history' = {h \in history : h[1] # a.id}
  BY DEF DeleteAccount
<1>2. UNCHANGED <<keys, promoted, nextId, req>>
  BY DEF DeleteAccount
<1>3. Ids' = Ids \ {a.id}
  BY <1>1 DEF Ids, AccountsInv
<1>4. PromotionsRecorded'
  BY <1>1, <1>2, <1>3 DEF AccountsInv, PromotionsRecorded
<1> QED
  BY <1>1, <1>2, <1>4 DEF AccountsInv

\* A new account takes an id that names no other, and names no promotion.
LEMMA CreateAccountKeeps == ASSUME AccountsInv, CreateAccount PROVE AccountsInv'
<1>1. PICK e \in Emails, inst \in Insts \cup {None}, role \in Roles :
        accounts' = accounts \cup {[id |-> nextId, email |-> e, inst |-> inst, role |-> role]}
  BY DEF CreateAccount
<1>2. nextId' = nextId + 1 /\ UNCHANGED <<keys, history, promoted, req>>
  BY DEF CreateAccount
<1> DEFINE new == [id |-> nextId, email |-> e, inst |-> inst, role |-> role]
<1>3. new \in Account /\ new.id = nextId
  BY DEF AccountsInv, Account
<1>4. accounts' = accounts \cup {new}
  BY <1>1
<1> HIDE DEF new
<1>5. \A a \in accounts \cup keys : a.id \in Nat /\ a.id < nextId /\ a.id < nextId'
  BY <1>2 DEF AccountsInv, Account, Key
<1>6. Ids' = Ids \cup {nextId}
  BY <1>3, <1>4 DEF Ids
<1>7. \A p \in promoted : p[1] \in 0..nextId' - 1
  <2>1. \A p \in promoted : p[1] \in 0..nextId - 1
    BY DEF AccountsInv
  <2> QED
    BY <1>2, <2>1 DEF AccountsInv
<1>8. PromotionsRecorded'
  BY <1>2, <1>6 DEF AccountsInv, PromotionsRecorded
<1> QED
  BY <1>2, <1>3, <1>4, <1>5, <1>7, <1>8 DEF AccountsInv

\* The other changes of accounts and keys leave the ids of accounts as they are.
LEMMA AccessKeeps ==
  ASSUME TypeOK, AccountsInv, AccessNext
  PROVE  AccountsInv'
<1>1. CASE GetToken \/ \E n \in tokens : ExpireToken(n)
  BY <1>1 DEF GetToken, ExpireToken, AccountsInv, PromotionsRecorded, Ids
<1>2. CASE GenerateKey
  <2>1. PICK inst \in Insts \cup {None}, role \in Roles, enduser \in BOOLEAN :
          keys' = keys \cup {[id |-> nextId, inst |-> inst, role |-> role,
                              enduser |-> enduser, usable |-> TRUE]}
    BY <1>2 DEF GenerateKey
  <2>2. nextId' = nextId + 1 /\ UNCHANGED <<accounts, history, promoted, req>>
    BY <1>2 DEF GenerateKey
  <2> DEFINE new == [id |-> nextId, inst |-> inst, role |-> role,
                     enduser |-> enduser, usable |-> TRUE]
  <2>3. new \in Key /\ new.id = nextId
    BY DEF AccountsInv, Key
  <2>4. keys' = keys \cup {new}
    BY <2>1
  <2> HIDE DEF new
  <2>5. \A a \in accounts \cup keys : a.id \in Nat /\ a.id < nextId'
    BY <2>2 DEF AccountsInv, Account, Key
  <2>6. PromotionsRecorded'
    BY <2>2 DEF AccountsInv, PromotionsRecorded, Ids
  <2> QED
    BY <2>2, <2>3, <2>4, <2>5, <2>6 DEF AccountsInv
<1>3. ASSUME NEW r \in Requests, StartPromote(r) PROVE AccountsInv'
  <2>1. PICK n \in tokens, emails \in SUBSET Emails \ {{}} : \E u \in Caller(n) :
          req' = [req EXCEPT ![r] =
            [pc |-> "promoting", user |-> u, emails |-> emails,
             snapshot |-> {a.id : a \in {x \in accounts : x.email \in emails}}]]
    BY <1>3 DEF StartPromote
  <2>2. PICK u \in Caller(n) :
          req' = [req EXCEPT ![r] =
            [pc |-> "promoting", user |-> u, emails |-> emails,
             snapshot |-> {a.id : a \in {x \in accounts : x.email \in emails}}]]
    BY <2>1
  <2>3. req'[r].user = u /\ \A q \in Requests : q # r => req'[q] = req[q]
    BY <2>2 DEF TypeOK
  <2>4. u.id \in 0..nextId - 1
    BY CallerType
  <2> QED
    BY <1>3, <2>3, <2>4 DEF StartPromote, AccountsInv, who, PromotionsRecorded, Ids
<1>4. ASSUME NEW r \in Requests, CommitPromote(r) PROVE AccountsInv'
  BY <1>4, PromoteKeeps
<1>5. CASE CreateAccount
  BY <1>5, CreateAccountKeeps
<1>6. CASE DeleteAccount
  BY <1>6, DeleteAccountKeeps
<1>7. CASE SetRole
  <2>1. PICK a \in accounts, role \in Roles :
          accounts' = (accounts \ {a}) \cup {[a EXCEPT !.role = role]}
    BY <1>7 DEF SetRole
  <2> DEFINE new == [a EXCEPT !.role = role]
  <2>2. new \in Account /\ new.id = a.id
    BY DEF AccountsInv, Account
  <2>3. accounts' = (accounts \ {a}) \cup {new}
    BY <2>1
  <2> HIDE DEF new
  <2>4. Ids' = Ids
    BY <2>2, <2>3 DEF Ids
  <2>5. UNCHANGED <<keys, history, promoted, nextId, req>>
    BY <1>7 DEF SetRole
  <2>6. PromotionsRecorded'
    BY <2>4, <2>5 DEF AccountsInv, PromotionsRecorded
  <2>7. \A b, c \in accounts' : b.id = c.id => b = c
    BY <2>2, <2>3 DEF AccountsInv
  <2> QED
    BY <2>2, <2>3, <2>5, <2>6, <2>7 DEF AccountsInv
<1>8. CASE RetireKey
  <2>1. PICK k \in keys : keys' = (keys \ {k}) \cup {[k EXCEPT !.usable = FALSE]}
    BY <1>8 DEF RetireKey
  <2> DEFINE new == [k EXCEPT !.usable = FALSE]
  <2>2. new \in Key /\ new.id = k.id
    BY DEF AccountsInv, Key
  <2>3. keys' = (keys \ {k}) \cup {new}
    BY <2>1
  <2> HIDE DEF new
  <2>4. UNCHANGED <<accounts, history, promoted, nextId, req>>
    BY <1>8 DEF RetireKey
  <2>5. PromotionsRecorded'
    BY <2>4 DEF AccountsInv, PromotionsRecorded, Ids
  <2> QED
    BY <2>2, <2>3, <2>4, <2>5 DEF AccountsInv
<1> QED
  BY <1>1, <1>2, <1>3, <1>4, <1>5, <1>6, <1>7, <1>8 DEF AccessNext

-----------------------------------------------------------------------------
(* Types                                                                    *)

\* What a read begins with.
LEMMA EdaSlot ==
  ASSUME NEW user \in UserRights, NEW b \in Batches, NEW pc \in {"clear", "look_up", "read"},
         NEW todo \in SUBSET Files, NEW got \in SUBSET Files
  PROVE  [pc |-> pc, user |-> user, batch |-> b, todo |-> todo, got |-> got] \in RequestType
  BY DEF RequestType, EdaRequest

\* What an EDA read answers.
LEMMA EdaAnswerSlot ==
  ASSUME NEW user \in UserRights, NEW b \in Batches, NEW summary \in SUBSET Files
  PROVE  [pc |-> "eda", user |-> user, batch |-> b, summary |-> summary] \in RequestType
  BY DEF RequestType, EdaAnswer

\* What a table read holds on its way, and when it has rows.
LEMMA TableSlot ==
  ASSUME NEW user \in UserRights, NEW v \in Versions \cup {None},
         NEW pc \in {"version", "describe", "l1", "l2", "select"}
  PROVE  [pc |-> pc, user |-> user, version |-> v] \in RequestType
  BY DEF RequestType, TableRequest

\* What a table read holds once it has rows.
LEMMA RowsSlot ==
  ASSUME NEW user \in UserRights, NEW v \in Versions \cup {None}, NEW rows \in RowsType,
         NEW pc \in {"store", "table"}
  PROVE  [pc |-> pc, user |-> user, version |-> v, rows |-> rows] \in RequestType
  BY DEF RequestType, TableAnswer

-----------------------------------------------------------------------------
(* EDA summaries                                                            *)

EdaPcs == {"clear", "look_up", "read", "eda"}
TablePcs == {"version", "describe", "l1", "l2", "select", "store", "table"}

\* What concerns no EDA read and nothing it looks at.
LEMMA EdaFrame ==
  ASSUME EdaInv, UNCHANGED <<batches, had, eda>>,
         \A r \in Requests : req'[r] = req[r] \/ req'[r].pc \notin EdaPcs
  PROVE  EdaInv'
  BY DEF EdaInv, EdaAnswerHonest, InputOf, EdaPcs

\* What concerns no table read and nothing it looks at.
LEMMA TableFrame ==
  ASSUME TableInv, UNCHANGED <<version, caches>>,
         \A r \in Requests : req'[r] = req[r] \/ req'[r].pc \notin TablePcs
  PROVE  TableInv'
  BY DEF TableInv, TableCacheSound, TablePcs, caches

\* An EDA read goes on with what it holds.
LEMMA EdaGoes ==
  ASSUME TypeOK, EdaInv, NEW r \in Requests, req[r].pc \in {"clear", "look_up"},
         NEW pc \in {"look_up", "read"}, Goto(r, pc)
  PROVE  /\ req' \in [Requests -> RequestType]
         /\ \A q \in Requests : q # r => req'[q] = req[q]
         /\ req'[r].pc = pc /\ req'[r].batch = req[r].batch /\ req'[r].user = req[r].user
         /\ req'[r].todo = req[r].todo /\ req'[r].got = req[r].got
<1>1. req[r] \in EdaRequest
  BY KindOf DEF TypeOK
<1> DEFINE v == [req[r] EXCEPT !.pc = pc]
<1>2. /\ v \in EdaRequest /\ v.pc = pc /\ v.batch = req[r].batch /\ v.user = req[r].user
      /\ v.todo = req[r].todo /\ v.got = req[r].got
  BY <1>1 DEF EdaRequest
<1>3. req' = [req EXCEPT ![r] = v]
  BY DEF Goto, TypeOK
<1>4. v \in RequestType
  BY <1>2 DEF RequestType
<1> HIDE DEF v
<1> QED
  BY <1>2, <1>3, <1>4, SlotType

\* An EDA read answers with a summary of input of its batch.
LEMMA EdaAnswers ==
  ASSUME TypeOK, EdaInv, NEW r \in Requests, req[r].pc \in {"look_up", "read"},
         NEW fs \in SUBSET Files, AnswerEda(r, fs)
  PROVE  /\ req' \in [Requests -> RequestType]
         /\ \A q \in Requests : q # r => req'[q] = req[q]
         /\ req'[r].pc = "eda" /\ req'[r].batch = req[r].batch /\ req'[r].user = req[r].user
         /\ req'[r].summary = fs
<1>1. req[r] \in EdaRequest
  BY KindOf DEF TypeOK
<1> DEFINE v == [pc |-> "eda", user |-> req[r].user, batch |-> req[r].batch, summary |-> fs]
<1>2. v \in RequestType
  BY <1>1, EdaAnswerSlot DEF EdaRequest
<1>3. req' = [req EXCEPT ![r] = v]
  BY DEF AnswerEda, TypeOK
<1>4. v.pc = "eda" /\ v.batch = req[r].batch /\ v.user = req[r].user /\ v.summary = fs
  OBVIOUS
<1> HIDE DEF v
<1> QED
  BY <1>2, <1>3, <1>4, SlotType

\* The conjunct of EdaInv about requests on their way and answers, for one slot.
EdaSlotGood(r) ==
  /\ req[r].pc \in {"clear", "look_up", "read"} =>
       /\ InputOf(req[r].batch, req[r].todo \cup req[r].got)
       /\ MayRead(req[r].user, Home) /\ FullAccess(req[r].user)
  /\ req[r].pc = "eda" =>
       /\ InputOf(req[r].batch, req[r].summary) /\ req[r].summary \cap Students # {}
       /\ MayRead(req[r].user, Home) /\ FullAccess(req[r].user)

\* A step of one EDA read, which leaves the batches as they are.
LEMMA EdaSlotKeeps ==
  ASSUME EdaInv, NEW r \in Requests, UNCHANGED <<batches, had>>,
         \A q \in Requests : q # r => req'[q] = req[q],
         \A b \in Batches : eda'[b] # None =>
           eda'[b] = eda[b] \/ (InputOf(b, eda'[b]) /\ eda'[b] \cap Students # {}),
         EdaSlotGood(r)'
  PROVE  EdaInv'
<1>1. \A b \in Batches : batches'[b] # None => <<b, batches'[b]>> \in had'
  BY DEF EdaInv
<1>2. \A b \in Batches :
        eda'[b] # None => InputOf(b, eda[b])' /\ eda'[b] \cap Students # {}
  BY DEF EdaInv, InputOf
<1>3. ASSUME NEW q \in Requests PROVE EdaSlotGood(q)'
  <2>1. CASE q = r
    BY <2>1
  <2>2. CASE q # r
    BY <2>2 DEF EdaSlotGood, EdaInv, EdaAnswerHonest, InputOf
  <2> QED
    BY <2>1, <2>2
<1> QED
  BY <1>1, <1>2, <1>3 DEF EdaInv, EdaAnswerHonest, EdaSlotGood, InputOf

\* An EDA read takes its first look, clears the cache, looks it up, reads a file
\* or leaves it out, and answers.
LEMMA EdaStep ==
  ASSUME TypeOK, AccountsInv, EdaInv, NEW r \in Requests,
         StartEda(r) \/ ClearEda(r) \/ LookUpEda(r) \/ ReadFile(r) \/ StoreEda(r)
  PROVE  /\ TypeOK' /\ EdaInv'
         /\ UNCHANGED <<who, version, caches>>
         /\ \A q \in Requests : q # r => req'[q] = req[q]
         /\ req'[r].pc \in EdaPcs \cup {"done"}
<1>0. UNCHANGED <<who, changes, files, version, caches>>
  BY DEF StartEda, ClearEda, LookUpEda, ReadFile, StoreEda
<1>1. ASSUME req' \in [Requests -> RequestType], eda' \in [Batches -> (SUBSET Files) \cup {None}]
      PROVE  TypeOK'
  BY <1>0, <1>1 DEF TypeOK, files, caches
<1>2. UNCHANGED <<batches, had>>
  BY <1>0 DEF files
<1>3. CASE StartEda(r)
  <2>1. PICK n \in tokens, b \in Batches, clear \in BOOLEAN : \E u \in Caller(n) :
          /\ MayRead(u, Home) /\ FullAccess(u) /\ batches[b] # None
          /\ req' = [req EXCEPT ![r] =
               [pc |-> IF clear THEN "clear" ELSE "look_up", user |-> Rights(u), batch |-> b,
                todo |-> batches[b] \ Generated, got |-> {}]]
    BY <1>3 DEF StartEda
  <2>2. PICK u \in Caller(n) :
          /\ MayRead(u, Home) /\ FullAccess(u) /\ batches[b] # None
          /\ req' = [req EXCEPT ![r] =
               [pc |-> IF clear THEN "clear" ELSE "look_up", user |-> Rights(u), batch |-> b,
                todo |-> batches[b] \ Generated, got |-> {}]]
    BY <2>1
  <2> DEFINE pc == IF clear THEN "clear" ELSE "look_up"
             todo == batches[b] \ Generated
             v == [pc |-> pc, user |-> Rights(u), batch |-> b, todo |-> todo, got |-> {}]
  <2>3. Rights(u) \in UserRights /\ MayRead(Rights(u), Home) /\ FullAccess(Rights(u))
    BY <2>2, CallerType DEF Rights, MayRead, FullAccess
  <2>4. todo \in SUBSET Files
    BY <2>2 DEF TypeOK, Files
  <2>5. v \in RequestType
    <3>1. pc \in {"clear", "look_up", "read"}
      OBVIOUS
    <3> HIDE DEF pc, todo
    <3> QED
      BY <2>3, <2>4, <3>1, EdaSlot
  <2>6. /\ v.pc \in {"clear", "look_up"} /\ v.batch = b /\ v.user = Rights(u)
        /\ v.todo \cup v.got = todo
    OBVIOUS
  <2>7. req' = [req EXCEPT ![r] = v]
    BY <2>2
  <2>8. InputOf(b, todo)
    <3>1. <<b, batches[b]>> \in had
      BY <2>2 DEF EdaInv
    <3> QED
      BY <3>1 DEF InputOf
  <2> HIDE DEF v, todo
  <2>9. /\ req' \in [Requests -> RequestType]
        /\ req'[r] = v /\ \A q \in Requests : q # r => req'[q] = req[q]
    BY <2>5, <2>7, SlotType
  <2>10. EdaSlotGood(r)'
    BY <1>2, <2>3, <2>6, <2>8, <2>9 DEF EdaSlotGood, InputOf
  <2>11. UNCHANGED eda
    BY <1>3 DEF StartEda
  <2>12. EdaInv'
    BY <1>2, <2>9, <2>10, <2>11, EdaSlotKeeps
  <2>13. TypeOK'
    BY <1>1, <2>9, <2>11 DEF TypeOK
  <2> QED
    BY <1>0, <2>6, <2>9, <2>12, <2>13 DEF EdaPcs
<1>4. ASSUME NEW pc \in {"look_up", "read"}, Goto(r, pc), req[r].pc \in {"clear", "look_up"},
             eda' \in [Batches -> (SUBSET Files) \cup {None}],
             \A b \in Batches : eda'[b] # None => eda'[b] = eda[b]
      PROVE  /\ TypeOK' /\ EdaInv'
             /\ \A q \in Requests : q # r => req'[q] = req[q]
             /\ req'[r].pc \in EdaPcs
  <2>1. /\ req' \in [Requests -> RequestType]
        /\ \A q \in Requests : q # r => req'[q] = req[q]
        /\ req'[r].pc = pc /\ req'[r].batch = req[r].batch /\ req'[r].user = req[r].user
        /\ req'[r].todo = req[r].todo /\ req'[r].got = req[r].got
    BY <1>4, EdaGoes
  <2>2. EdaSlotGood(r)'
    BY <1>2, <1>4, <2>1 DEF EdaSlotGood, EdaInv, InputOf
  <2>3. EdaInv'
    BY <1>2, <1>4, <2>1, <2>2, EdaSlotKeeps
  <2> QED
    BY <1>1, <1>4, <2>1, <2>3 DEF EdaPcs
<1>5. ASSUME NEW fs \in SUBSET Files, AnswerEda(r, fs), req[r].pc \in {"look_up", "read"},
             InputOf(req[r].batch, fs), fs \cap Students # {},
             eda' \in [Batches -> (SUBSET Files) \cup {None}],
             \A b \in Batches : eda'[b] # None =>
               eda'[b] = eda[b] \/ (InputOf(b, eda'[b]) /\ eda'[b] \cap Students # {})
      PROVE  /\ TypeOK' /\ EdaInv'
             /\ \A q \in Requests : q # r => req'[q] = req[q]
             /\ req'[r].pc \in EdaPcs
  <2>1. /\ req' \in [Requests -> RequestType]
        /\ \A q \in Requests : q # r => req'[q] = req[q]
        /\ req'[r].pc = "eda" /\ req'[r].batch = req[r].batch /\ req'[r].user = req[r].user
        /\ req'[r].summary = fs
    BY <1>5, EdaAnswers
  <2>2. EdaSlotGood(r)'
    BY <1>2, <1>5, <2>1 DEF EdaSlotGood, EdaInv, InputOf
  <2>3. EdaInv'
    BY <1>2, <1>5, <2>1, <2>2, EdaSlotKeeps
  <2> QED
    BY <1>1, <1>5, <2>1, <2>3 DEF EdaPcs
<1>6. eda \in [Batches -> (SUBSET Files) \cup {None}]
  BY DEF TypeOK
<1>7. CASE ClearEda(r)
  <2>1. /\ req[r].pc = "clear" /\ Goto(r, "look_up")
        /\ eda' = [eda EXCEPT ![req[r].batch] = None]
    BY <1>7 DEF ClearEda
  <2>2. /\ eda' \in [Batches -> (SUBSET Files) \cup {None}]
        /\ \A b \in Batches : eda'[b] # None => eda'[b] = eda[b]
    <3>1. \A b \in Batches : eda'[b] = IF b = req[r].batch THEN None ELSE eda[b]
      BY <1>6, <2>1
    <3>2. eda' \in [Batches -> (SUBSET Files) \cup {None}]
      BY <1>6, <2>1
    <3> QED
      BY <3>1, <3>2
  <2> QED
    BY <1>0, <1>4, <2>1, <2>2
<1>8. CASE LookUpEda(r)
  <2>1. req[r].pc = "look_up" /\ UNCHANGED eda /\ req[r].batch \in Batches
    BY <1>8, KindOf DEF LookUpEda, TypeOK, EdaRequest
  <2>2. CASE eda[req[r].batch] = None
    <3>1. Goto(r, "read")
      BY <1>8, <2>2 DEF LookUpEda
    <3> QED
      BY <1>0, <1>4, <1>6, <2>1, <3>1
  <2>3. CASE eda[req[r].batch] # None
    <3>1. AnswerEda(r, eda[req[r].batch])
      BY <1>8, <2>3 DEF LookUpEda
    <3>2. /\ eda[req[r].batch] \in SUBSET Files
          /\ InputOf(req[r].batch, eda[req[r].batch]) /\ eda[req[r].batch] \cap Students # {}
      <4>1. eda[req[r].batch] \in SUBSET Files
        BY <1>6, <2>1, <2>3
      <4>2. /\ InputOf(req[r].batch, eda[req[r].batch])
            /\ eda[req[r].batch] \cap Students # {}
        BY <2>1, <2>3 DEF EdaInv
      <4> QED
        BY <4>1, <4>2
    <3> QED
      BY <1>0, <1>5, <1>6, <2>1, <3>1, <3>2
  <2> QED
    BY <2>2, <2>3
<1>9. CASE ReadFile(r)
  <2>0. req[r].pc = "read" /\ UNCHANGED eda
    BY <1>9 DEF ReadFile
  <2>1. req[r] \in EdaRequest
    BY <2>0, KindOf DEF TypeOK
  <2>9. PICK f \in req[r].todo :
          \/ req' = [req EXCEPT ![r].todo = @ \ {f}, ![r].got = @ \cup {f}]
          \/ req' = [req EXCEPT ![r].todo = @ \ {f}]
    BY <1>9 DEF ReadFile
  <2>2. PICK more \in {{}, {f}} :
          req' = [req EXCEPT ![r] = [req[r] EXCEPT !.todo = req[r].todo \ {f},
                                                   !.got = req[r].got \cup more]]
    <3>2. CASE req' = [req EXCEPT ![r].todo = @ \ {f}, ![r].got = @ \cup {f}]
      BY <3>2 DEF TypeOK
    <3>3. CASE req' = [req EXCEPT ![r].todo = @ \ {f}]
      <4>1. [req[r] EXCEPT !.todo = req[r].todo \ {f}]
              = [req[r] EXCEPT !.todo = req[r].todo \ {f}, !.got = req[r].got \cup {}]
        BY <2>1 DEF EdaRequest
      <4> QED
        BY <3>3, <4>1 DEF TypeOK
    <3> QED
      BY <2>9, <3>2, <3>3
  <2> DEFINE v == [req[r] EXCEPT !.todo = req[r].todo \ {f}, !.got = req[r].got \cup more]
  <2>3. /\ v \in EdaRequest /\ v.pc = "read" /\ v.batch = req[r].batch /\ v.user = req[r].user
        /\ v.todo \cup v.got \subseteq req[r].todo \cup req[r].got
    BY <2>0, <2>1 DEF EdaRequest
  <2>4. req' = [req EXCEPT ![r] = v]
    BY <2>2
  <2>5. v \in RequestType
    BY <2>3 DEF RequestType
  <2> HIDE DEF v
  <2>6. /\ req' \in [Requests -> RequestType]
        /\ req'[r] = v /\ \A q \in Requests : q # r => req'[q] = req[q]
    BY <2>4, <2>5, SlotType
  <2>7. EdaSlotGood(r)'
    BY <1>2, <2>0, <2>3, <2>6 DEF EdaSlotGood, EdaInv, InputOf
  <2>8. EdaInv'
    BY <1>2, <2>0, <2>6, <2>7, EdaSlotKeeps
  <2> QED
    BY <1>0, <1>1, <1>6, <2>0, <2>3, <2>6, <2>8 DEF EdaPcs
<1>10. CASE StoreEda(r)
  <2>0. req[r].pc = "read" /\ req[r].todo = {}
    BY <1>10 DEF StoreEda
  <2>1. req[r].got \in SUBSET Files /\ req[r].batch \in Batches
    BY <2>0, KindOf DEF TypeOK, EdaRequest
  <2>2. InputOf(req[r].batch, req[r].got)
    BY <2>0 DEF EdaInv, InputOf
  <2>3. CASE req[r].got \cap Students = {}
    <3>1. req' = [req EXCEPT ![r] = Idle] /\ UNCHANGED eda
      BY <1>10, <2>3 DEF StoreEda
    <3>2. /\ req' \in [Requests -> RequestType] /\ req'[r].pc = "done"
          /\ \A q \in Requests : q # r => req'[q] = req[q]
      BY <3>1, IdleType, SlotType
    <3>3. EdaInv'
      BY <1>2, <3>1, <3>2, EdaFrame DEF EdaPcs
    <3> QED
      BY <1>0, <1>1, <1>6, <3>1, <3>2, <3>3
  <2>4. CASE req[r].got \cap Students # {}
    <3>1. eda' = [eda EXCEPT ![req[r].batch] = req[r].got] /\ AnswerEda(r, req[r].got)
      BY <1>10, <2>4 DEF StoreEda
    <3>2. /\ eda' \in [Batches -> (SUBSET Files) \cup {None}]
          /\ \A b \in Batches : eda'[b] # None =>
               eda'[b] = eda[b] \/ (InputOf(b, eda'[b]) /\ eda'[b] \cap Students # {})
      BY <1>6, <2>1, <2>2, <2>4, <3>1
    <3> QED
      BY <1>0, <1>5, <2>0, <2>1, <2>2, <2>4, <3>1, <3>2
  <2> QED
    BY <2>3, <2>4
<1> QED
  BY <1>3, <1>7, <1>8, <1>9, <1>10

-----------------------------------------------------------------------------
(* Tables                                                                   *)

\* What may stand in a cache under a version, or be answered for it.
SoundRows(rows, v) == rows = None \/ (rows.asCounted /\ rows.version >= v)

\* The conjuncts of TableInv about requests, for one slot.
TableSlotGood(r) ==
  /\ req[r].pc \in {"describe", "l1", "l2", "select", "store", "table"} =>
       req[r].version = None \/ req[r].version <= version
  /\ req[r].pc \in {"l1", "l2", "select", "store", "table"} => req[r].version # None
  /\ req[r].pc = "store" => req[r].rows.asCounted /\ req[r].rows.version >= req[r].version
  /\ req[r].pc = "table" => SoundRows(req[r].rows, req[r].version)

\* A step of one table read.
LEMMA TableSlotKeeps ==
  ASSUME TableInv, NEW r \in Requests, UNCHANGED version,
         \A q \in Requests : q # r => req'[q] = req[q],
         verCache' # None => verCache' = verCache \/ verCache' <= version,
         \A v \in Versions : l1'[v] = l1[v] \/ SoundRows(l1'[v], v),
         \A v \in Versions : l2'[v] = l2[v] \/ SoundRows(l2'[v], v),
         TableSlotGood(r)'
  PROVE  TableInv'
<1>1. ASSUME NEW q \in Requests PROVE TableSlotGood(q)'
  <2>1. CASE q = r
    BY <2>1
  <2>2. CASE q # r
    BY <2>2 DEF TableSlotGood, TableInv, TableCacheSound, SoundRows
  <2> QED
    BY <2>1, <2>2
<1>2. \A v \in Versions : SoundRows(l1'[v], v) /\ SoundRows(l2'[v], v)
  BY DEF TableInv, TableCacheSound, SoundRows
<1>3. verCache' # None => verCache' <= version'
  BY DEF TableInv
<1> QED
  BY <1>1, <1>2, <1>3 DEF TableInv, TableCacheSound, TableSlotGood, SoundRows

\* A slot that takes the record of a table read without rows, or with.
LEMMA TableGoes ==
  ASSUME TypeOK, NEW r \in Requests, NEW u \in UserRights, NEW w \in Versions \cup {None},
         NEW pc \in {"version", "describe", "l1", "l2", "select"},
         req' = [req EXCEPT ![r] = [pc |-> pc, user |-> u, version |-> w]]
  PROVE  /\ req' \in [Requests -> RequestType]
         /\ \A q \in Requests : q # r => req'[q] = req[q]
         /\ req'[r].pc = pc /\ req'[r].version = w
<1> DEFINE v == [pc |-> pc, user |-> u, version |-> w]
<1>1. v \in RequestType /\ v.pc = pc /\ v.version = w
  BY TableSlot
<1>2. req' = [req EXCEPT ![r] = v]
  OBVIOUS
<1> HIDE DEF v
<1> QED
  BY <1>1, <1>2, SlotType

\* A table read that has rows: its slot and the others.
LEMMA TableAnswers ==
  ASSUME TypeOK, NEW r \in Requests, NEW u \in UserRights, NEW w \in Versions \cup {None},
         NEW pc \in {"store", "table"}, NEW rows \in RowsType,
         req' = [req EXCEPT ![r] = [pc |-> pc, user |-> u, version |-> w, rows |-> rows]]
  PROVE  /\ req' \in [Requests -> RequestType]
         /\ \A q \in Requests : q # r => req'[q] = req[q]
         /\ req'[r].pc = pc /\ req'[r].version = w /\ req'[r].rows = rows
<1> DEFINE v == [pc |-> pc, user |-> u, version |-> w, rows |-> rows]
<1>1. v \in RequestType /\ v.pc = pc /\ v.version = w /\ v.rows = rows
  BY RowsSlot
<1>2. req' = [req EXCEPT ![r] = v]
  OBVIOUS
<1> HIDE DEF v
<1> QED
  BY <1>1, <1>2, SlotType

\* A request on its way to a table, field by field.
LEMMA TableFields ==
  ASSUME NEW x \in TableRequest
  PROVE  /\ x = [pc |-> x.pc, user |-> x.user, version |-> x.version]
         /\ x.user \in UserRights /\ x.version \in Versions \cup {None}
         /\ \A pc : [x EXCEPT !.pc = pc] = [pc |-> pc, user |-> x.user, version |-> x.version]
         /\ \A v : [x EXCEPT !.version = v] = [pc |-> x.pc, user |-> x.user, version |-> v]
  BY DEF TableRequest

\* A table read looks the version up, then the caches, then reads the table.
LEMMA TableStep ==
  ASSUME TypeOK, AccountsInv, TableInv, NEW r \in Requests,
         \/ StartTable(r) \/ LookUpVersion(r) \/ Describe(r) \/ LookUpL1(r) \/ LookUpL2(r)
         \/ Select(r) \/ StoreL2(r)
  PROVE  /\ TypeOK' /\ TableInv'
         /\ UNCHANGED <<who, batches, had, eda>>
         /\ \A q \in Requests : q # r => req'[q] = req[q]
         /\ req'[r].pc \in TablePcs \cup {"done"}
<1>0. UNCHANGED <<who, changes, files, eda, version>>
  BY DEF StartTable, LookUpVersion, Describe, LookUpL1, LookUpL2, Select, StoreL2, caches
<1>1. UNCHANGED <<batches, had, eda, who, version>>
  BY <1>0 DEF files
<1>2. ASSUME req' \in [Requests -> RequestType], verCache' \in Versions \cup {None},
             l1' \in [Versions -> RowsType \cup {None}],
             l2' \in [Versions -> RowsType \cup {None}]
      PROVE  TypeOK'
  BY <1>0, <1>2 DEF TypeOK, files
<1>3. ASSUME UNCHANGED caches PROVE UNCHANGED <<verCache, l1, l2>>
  BY <1>3 DEF caches
<1>4. CASE StartTable(r)
  <2>1. PICK n \in tokens : \E u \in Caller(n) :
          /\ MayRead(u, Home)
          /\ req' = [req EXCEPT ![r] = [pc |-> "version", user |-> Rights(u), version |-> None]]
    BY <1>4 DEF StartTable
  <2>2. PICK u \in Caller(n) :
          req' = [req EXCEPT ![r] = [pc |-> "version", user |-> Rights(u), version |-> None]]
    BY <2>1
  <2>3. /\ req' \in [Requests -> RequestType]
        /\ \A q \in Requests : q # r => req'[q] = req[q]
        /\ req'[r].pc = "version"
    <3>1. Rights(u) \in UserRights
      BY CallerType
    <3> HIDE DEF Rights
    <3> QED
      BY <2>2, <3>1, TableGoes
  <2>4. UNCHANGED <<verCache, l1, l2>>
    BY <1>3, <1>4 DEF StartTable
  <2>5. TableInv'
    BY <1>1, <2>3, <2>4, TableSlotKeeps DEF TableSlotGood
  <2>6. TypeOK'
    BY <1>2, <2>3, <2>4 DEF TypeOK
  <2> QED
    BY <1>1, <2>3, <2>5, <2>6 DEF TablePcs
<1>5. CASE LookUpVersion(r)
  <2>1. req[r] \in TableRequest
    BY <1>5, KindOf DEF LookUpVersion, TypeOK
  <2>2. req' = [req EXCEPT ![r] = [pc |-> IF verCache = None THEN "describe" ELSE "l1",
                                   user |-> req[r].user, version |-> verCache]]
    <3> DEFINE v == [req[r] EXCEPT !.version = verCache,
                                   !.pc = IF verCache = None THEN "describe" ELSE "l1"]
    <3>1. req' = [req EXCEPT ![r] = v]
      BY <1>5 DEF LookUpVersion, TypeOK
    <3>2. v = [pc |-> IF verCache = None THEN "describe" ELSE "l1",
               user |-> req[r].user, version |-> verCache]
      <4>1. ASSUME NEW pc \in {"describe", "l1"}
            PROVE  [req[r] EXCEPT !.version = verCache, !.pc = pc]
                     = [pc |-> pc, user |-> req[r].user, version |-> verCache]
        <5> DEFINE y == [req[r] EXCEPT !.version = verCache]
        <5>1. y = [pc |-> req[r].pc, user |-> req[r].user, version |-> verCache]
          BY <2>1, TableFields
        <5>2. y \in TableRequest /\ y.user = req[r].user /\ y.version = verCache
          BY <2>1, <5>1 DEF TypeOK, TableRequest
        <5> HIDE DEF y
        <5>3. [y EXCEPT !.pc = pc] = [pc |-> pc, user |-> y.user, version |-> y.version]
          BY <5>2, TableFields
        <5> QED
          BY <5>2, <5>3 DEF y
      <4> QED
        BY <4>1
    <3> QED
      BY <3>1, <3>2
  <2>3. /\ req' \in [Requests -> RequestType]
        /\ \A q \in Requests : q # r => req'[q] = req[q]
        /\ req'[r].pc = (IF verCache = None THEN "describe" ELSE "l1")
        /\ req'[r].version = verCache
    <3>1. verCache \in Versions \cup {None} /\ req[r].user \in UserRights
      BY <2>1, TableFields DEF TypeOK
    <3> QED
      BY <2>2, <3>1, TableGoes
  <2>4. UNCHANGED <<verCache, l1, l2>>
    BY <1>3, <1>5 DEF LookUpVersion
  <2>5. TableSlotGood(r)'
    BY <1>1, <2>3 DEF TableSlotGood, TableInv
  <2>6. TableInv'
    BY <1>1, <2>3, <2>4, <2>5, TableSlotKeeps
  <2>7. TypeOK'
    BY <1>2, <2>3, <2>4 DEF TypeOK
  <2> QED
    <3>1. req'[r].pc \in TablePcs
      BY <2>3 DEF TablePcs
    <3> QED
      BY <1>1, <2>3, <2>6, <2>7, <3>1
<1>6. CASE Describe(r)
  <2>1. req[r].pc = "describe" /\ req[r] \in TableRequest /\ UNCHANGED <<l1, l2>>
    BY <1>6, KindOf DEF Describe, TypeOK
  <2>2. CASE req[r].version = None
    <3>1. CASE req' = [req EXCEPT ![r].version = version] /\ UNCHANGED verCache
      <4>1. req' = [req EXCEPT ![r] = [pc |-> "describe", user |-> req[r].user,
                                       version |-> version]]
        BY <2>1, <3>1, TableFields DEF TypeOK
      <4>2. /\ req' \in [Requests -> RequestType]
            /\ \A q \in Requests : q # r => req'[q] = req[q]
            /\ req'[r].pc = "describe" /\ req'[r].version = version
        <5>1. version \in Versions \cup {None} /\ req[r].user \in UserRights
          BY <2>1, TableFields DEF TypeOK
        <5> QED
          BY <4>1, <5>1, TableGoes
      <4>3. TableSlotGood(r)'
        <5>1. version <= version
          BY ReadsAssumption DEF TypeOK, Versions
        <5> QED
          BY <1>1, <4>2, <5>1 DEF TableSlotGood
      <4>4. TableInv'
        BY <1>1, <2>1, <3>1, <4>2, <4>3, TableSlotKeeps
      <4>5. TypeOK'
        BY <1>2, <2>1, <3>1, <4>2 DEF TypeOK
      <4> QED
        BY <1>1, <4>2, <4>4, <4>5 DEF TablePcs
    <3> QED
      BY <1>6, <2>2, <3>1 DEF Describe
  <2>3. CASE req[r].version # None
    <3>1. Goto(r, "l1") /\ verCache' = req[r].version
      BY <1>6, <2>3 DEF Describe
    <3>2. req' = [req EXCEPT ![r] = [pc |-> "l1", user |-> req[r].user,
                                     version |-> req[r].version]]
      BY <2>1, <3>1, TableFields DEF Goto, TypeOK
    <3>3. /\ req' \in [Requests -> RequestType]
          /\ \A q \in Requests : q # r => req'[q] = req[q]
          /\ req'[r].pc = "l1" /\ req'[r].version = req[r].version
      BY <2>1, <3>2, TableGoes, TableFields
    <3>4. req[r].version <= version /\ req[r].version \in Versions \cup {None}
      BY <2>1, <2>3, TableFields DEF TableInv
    <3>5. TableSlotGood(r)'
      BY <1>1, <2>3, <3>3, <3>4 DEF TableSlotGood
    <3>6. TableInv'
      BY <1>1, <2>1, <3>1, <3>3, <3>4, <3>5, TableSlotKeeps
    <3>7. TypeOK'
      BY <1>2, <2>1, <3>1, <3>3, <3>4 DEF TypeOK
    <3> QED
      BY <1>1, <3>3, <3>6, <3>7 DEF TablePcs
  <2> QED
    BY <2>2, <2>3
<1>7. ASSUME NEW pc \in {"l2", "select"}, Goto(r, pc), req[r].pc \in {"l1", "l2"},
             UNCHANGED <<verCache, l1, l2>>
      PROVE  /\ TypeOK' /\ TableInv'
             /\ \A q \in Requests : q # r => req'[q] = req[q]
             /\ req'[r].pc \in TablePcs
  <2>1. req[r] \in TableRequest
    BY <1>7, KindOf DEF TypeOK
  <2>2. req' = [req EXCEPT ![r] = [pc |-> pc, user |-> req[r].user, version |-> req[r].version]]
    BY <1>7, <2>1, TableFields DEF Goto, TypeOK
  <2>3. /\ req' \in [Requests -> RequestType]
        /\ \A q \in Requests : q # r => req'[q] = req[q]
        /\ req'[r].pc = pc /\ req'[r].version = req[r].version
    BY <2>1, <2>2, TableGoes, TableFields
  <2>4. TableSlotGood(r)'
    BY <1>1, <1>7, <2>3 DEF TableSlotGood, TableInv
  <2>5. TableInv'
    BY <1>1, <1>7, <2>3, <2>4, TableSlotKeeps
  <2>6. TypeOK'
    BY <1>2, <1>7, <2>3 DEF TypeOK
  <2> QED
    BY <2>3, <2>5, <2>6 DEF TablePcs
<1>8. ASSUME NEW rows \in RowsType, SoundRows(rows, req[r].version), AnswerTable(r, rows),
             req[r].pc \in {"l1", "l2", "store"}, UNCHANGED verCache,
             l1' \in [Versions -> RowsType \cup {None}],
             l2' \in [Versions -> RowsType \cup {None}],
             \A v \in Versions : l1'[v] = l1[v] \/ SoundRows(l1'[v], v),
             \A v \in Versions : l2'[v] = l2[v] \/ SoundRows(l2'[v], v)
      PROVE  /\ TypeOK' /\ TableInv'
             /\ \A q \in Requests : q # r => req'[q] = req[q]
             /\ req'[r].pc \in TablePcs
  <2>1. req[r].user \in UserRights /\ req[r].version \in Versions \cup {None}
    BY <1>8, KindOf DEF TypeOK, TableRequest, TableAnswer
  <2>2. req' = [req EXCEPT ![r] = [pc |-> "table", user |-> req[r].user,
                                   version |-> req[r].version, rows |-> rows]]
    BY <1>8 DEF AnswerTable, TypeOK
  <2>3. /\ req' \in [Requests -> RequestType]
        /\ \A q \in Requests : q # r => req'[q] = req[q]
        /\ req'[r].pc = "table" /\ req'[r].version = req[r].version /\ req'[r].rows = rows
    BY <1>8, <2>1, <2>2, TableAnswers
  <2>4. TableSlotGood(r)'
    BY <1>1, <1>8, <2>3 DEF TableSlotGood, TableInv, SoundRows
  <2>5. TableInv'
    BY <1>1, <1>8, <2>3, <2>4, TableSlotKeeps
  <2>6. TypeOK'
    BY <1>2, <1>8, <2>3 DEF TypeOK
  <2> QED
    BY <2>3, <2>5, <2>6 DEF TablePcs
<1>9. ASSUME req[r].pc \in {"l1", "l2", "select"}
      PROVE  /\ req[r] \in TableRequest /\ req[r].version \in Versions
             /\ req[r].version <= version /\ req[r].user \in UserRights
  <2>1. req[r] \in TableRequest /\ req[r].version # None
    BY <1>9, KindOf DEF TypeOK, TableInv
  <2>2. req[r].version <= version
    BY <1>9, <2>1 DEF TableInv
  <2> QED
    BY <2>1, <2>2, TableFields
<1>10. l1 \in [Versions -> RowsType \cup {None}] /\ l2 \in [Versions -> RowsType \cup {None}]
  BY DEF TypeOK
<1>11. CASE LookUpL1(r)
  <2>1. req[r].pc = "l1" /\ UNCHANGED <<verCache, l1, l2>>
    BY <1>3, <1>11 DEF LookUpL1
  <2>2. CASE l1[req[r].version] = None
    <3>1. Goto(r, "l2")
      BY <1>11, <2>2 DEF LookUpL1
    <3> QED
      BY <1>1, <1>7, <2>1, <3>1
  <2>3. CASE l1[req[r].version] # None
    <3>1. AnswerTable(r, l1[req[r].version])
      BY <1>11, <2>3 DEF LookUpL1
    <3>2. l1[req[r].version] \in RowsType
      BY <1>9, <1>10, <2>1, <2>3
    <3>3. SoundRows(l1[req[r].version], req[r].version)
      BY <1>9, <2>1 DEF TableInv, TableCacheSound, SoundRows
    <3> QED
      BY <1>1, <1>8, <1>10, <2>1, <3>1, <3>2, <3>3
  <2> QED
    BY <2>2, <2>3
<1>12. CASE LookUpL2(r)
  <2>1. req[r].pc = "l2" /\ UNCHANGED <<verCache, l2>>
    BY <1>12 DEF LookUpL2
  <2>2. CASE Goto(r, "select") /\ UNCHANGED l1
    BY <1>1, <1>7, <2>1, <2>2
  <2>3. CASE /\ l2[req[r].version] # None
             /\ l1' = [l1 EXCEPT ![req[r].version] = l2[req[r].version]]
             /\ AnswerTable(r, l2[req[r].version])
    <3>1. l2[req[r].version] \in RowsType
      BY <1>9, <1>10, <2>1, <2>3
    <3>2. SoundRows(l2[req[r].version], req[r].version)
      BY <1>9, <2>1 DEF TableInv, TableCacheSound, SoundRows
    <3>3. /\ l1' \in [Versions -> RowsType \cup {None}]
          /\ \A v \in Versions : l1'[v] = l1[v] \/ SoundRows(l1'[v], v)
      BY <1>10, <2>3, <3>1, <3>2
    <3> QED
      BY <1>1, <1>8, <1>10, <2>1, <2>3, <3>1, <3>2, <3>3
  <2> QED
    BY <1>12, <2>2, <2>3 DEF LookUpL2
<1>13. CASE Select(r)
  <2>1. req[r].pc = "select" /\ UNCHANGED <<verCache, l2>>
    BY <1>13 DEF Select
  <2>2. CASE UNCHANGED l1 /\ req' = [req EXCEPT ![r] = Idle]
    <3>1. /\ req' \in [Requests -> RequestType] /\ req'[r].pc = "done"
          /\ \A q \in Requests : q # r => req'[q] = req[q]
      BY <2>2, IdleType, SlotType
    <3>2. TableInv'
      BY <1>1, <2>1, <2>2, <3>1, TableFrame DEF TablePcs, caches
    <3>3. TypeOK'
      BY <1>2, <2>1, <2>2, <3>1 DEF TypeOK
    <3> QED
      BY <1>1, <3>1, <3>2, <3>3
  <2>3. CASE Take(r, Rows(version, TRUE))
    <3> DEFINE rows == Rows(version, TRUE)
    <3>1. rows \in RowsType /\ rows.asCounted /\ rows.version = version
      BY DEF Rows, RowsType, TypeOK
    <3>2. l1' = [l1 EXCEPT ![req[r].version] = rows]
      BY <2>3 DEF Take
    <3>3. req' = [req EXCEPT ![r] = [pc |-> "store", user |-> req[r].user,
                                     version |-> req[r].version, rows |-> rows]]
      BY <2>3 DEF Take, TypeOK
    <3> HIDE DEF rows
    <3>4. /\ req' \in [Requests -> RequestType]
          /\ \A q \in Requests : q # r => req'[q] = req[q]
          /\ req'[r].pc = "store" /\ req'[r].version = req[r].version /\ req'[r].rows = rows
      BY <1>9, <2>1, <3>1, <3>3, TableAnswers
    <3>5. req[r].version <= version /\ version >= req[r].version /\ req[r].version # None
      BY <1>9, <2>1, ReadsAssumption DEF TypeOK, Versions, TableInv
    <3>6. SoundRows(rows, req[r].version)
      BY <3>1, <3>5 DEF SoundRows
    <3>7. /\ l1' \in [Versions -> RowsType \cup {None}]
          /\ \A v \in Versions : l1'[v] = l1[v] \/ SoundRows(l1'[v], v)
      BY <1>9, <1>10, <2>1, <3>1, <3>2, <3>6
    <3>8. TableSlotGood(r)'
      BY <1>1, <3>1, <3>4, <3>5 DEF TableSlotGood
    <3>9. TableInv'
      BY <1>1, <2>1, <3>4, <3>7, <3>8, TableSlotKeeps
    <3>10. TypeOK'
      BY <1>2, <2>1, <3>4, <3>7 DEF TypeOK
    <3> QED
      BY <1>1, <3>4, <3>9, <3>10 DEF TablePcs
  <2> QED
    BY <1>13, <2>2, <2>3 DEF Select
<1>14. CASE StoreL2(r)
  <2>1. /\ req[r].pc = "store" /\ UNCHANGED <<verCache, l1>> /\ AnswerTable(r, req[r].rows)
        /\ UNCHANGED l2 \/ l2' = [l2 EXCEPT ![req[r].version] = req[r].rows]
    BY <1>14 DEF StoreL2
  <2>2. req[r].rows \in RowsType /\ req[r].version \in Versions \cup {None}
    BY <2>1, KindOf DEF TypeOK, TableAnswer
  <2>3. SoundRows(req[r].rows, req[r].version)
    BY <2>1 DEF TableInv, SoundRows
  <2>4. /\ l2' \in [Versions -> RowsType \cup {None}]
        /\ \A v \in Versions : l2'[v] = l2[v] \/ SoundRows(l2'[v], v)
    BY <1>10, <2>1, <2>2, <2>3
  <2> QED
    BY <1>1, <1>8, <1>10, <2>1, <2>2, <2>3, <2>4
<1> QED
  BY <1>4, <1>5, <1>6, <1>11, <1>12, <1>13, <1>14

-----------------------------------------------------------------------------
(* The inductive invariant                                                  *)

\* A promotion and the other requests of Access leave the reads alone.
LEMMA AccessTypes ==
  ASSUME TypeOK, AccountsInv, AccessNext, UNCHANGED <<files, eda, version, caches>>
  PROVE  TypeOK' /\ \A q \in Requests : req'[q] = req[q] \/ req'[q].pc \in {"promoting", "done"}
<1>1. ASSUME NEW r \in Requests, StartPromote(r)
      PROVE  /\ req' \in [Requests -> RequestType]
             /\ \A q \in Requests : req'[q] = req[q] \/ req'[q].pc \in {"promoting", "done"}
  <2>1. PICK n \in tokens, emails \in SUBSET Emails \ {{}} : \E u \in Caller(n) :
          req' = [req EXCEPT ![r] =
            [pc |-> "promoting", user |-> u, emails |-> emails,
             snapshot |-> {a.id : a \in {x \in accounts : x.email \in emails}}]]
    BY <1>1 DEF StartPromote
  <2>2. PICK u \in Caller(n) :
          req' = [req EXCEPT ![r] =
            [pc |-> "promoting", user |-> u, emails |-> emails,
             snapshot |-> {a.id : a \in {x \in accounts : x.email \in emails}}]]
    BY <2>1
  <2> DEFINE ids == {a.id : a \in {x \in accounts : x.email \in emails}}
             v == [pc |-> "promoting", user |-> u, emails |-> emails, snapshot |-> ids]
  <2>3. ids \in SUBSET Nat
    BY DEF AccountsInv, Account
  <2>4. v \in Promotion
    <3> HIDE DEF ids
    <3> QED
      BY <2>3, CallerType DEF Promotion
  <2>5. v \in RequestType /\ v.pc = "promoting" /\ req' = [req EXCEPT ![r] = v]
    BY <2>2, <2>4 DEF RequestType
  <2> HIDE DEF v
  <2> QED
    BY <2>5, SlotType
<1>2. ASSUME NEW r \in Requests, CommitPromote(r)
      PROVE  /\ req' \in [Requests -> RequestType]
             /\ \A q \in Requests : req'[q] = req[q] \/ req'[q].pc \in {"promoting", "done"}
  <2>1. req' = [req EXCEPT ![r] = Idle]
    BY <1>2 DEF CommitPromote, Promote, Drop
  <2> QED
    BY <2>1, IdleType, SlotType
<1>3. ASSUME UNCHANGED req
      PROVE  /\ req' \in [Requests -> RequestType]
             /\ \A q \in Requests : req'[q] = req[q] \/ req'[q].pc \in {"promoting", "done"}
  BY <1>3 DEF TypeOK
<1>4. /\ req' \in [Requests -> RequestType]
      /\ \A q \in Requests : req'[q] = req[q] \/ req'[q].pc \in {"promoting", "done"}
  BY <1>1, <1>2, <1>3 DEF AccessNext, GetToken, GenerateKey, ExpireToken, CreateAccount,
     DeleteAccount, SetRole, RetireKey
<1> QED
  BY <1>4 DEF TypeOK, files, caches

\* Every step keeps the inductive invariant.
LEMMA ReadsStep == ReadsInv /\ [Next]_vars => ReadsInv'
<1> SUFFICES ASSUME ReadsInv, [Next]_vars PROVE ReadsInv'
  OBVIOUS
<1>0. TypeOK /\ AccountsInv /\ EdaInv /\ TableInv
  BY DEF ReadsInv
<1>1. CASE AccessNext /\ UNCHANGED <<files, eda, version, caches>>
  <2>1. TypeOK' /\ \A q \in Requests : req'[q] = req[q] \/ req'[q].pc \in {"promoting", "done"}
    BY <1>0, <1>1, AccessTypes
  <2>2. AccountsInv'
    BY <1>0, <1>1, AccessKeeps
  <2>3. EdaInv'
    BY <1>0, <1>1, <2>1, EdaFrame DEF EdaPcs, files
  <2>4. TableInv'
    BY <1>0, <1>1, <2>1, TableFrame DEF TablePcs
  <2> QED
    BY <2>1, <2>2, <2>3, <2>4 DEF ReadsInv
<1>2. ASSUME NEW r \in Requests, Read(r) PROVE ReadsInv'
  <2>1. CASE StartEda(r) \/ ClearEda(r) \/ LookUpEda(r) \/ ReadFile(r) \/ StoreEda(r)
    <3>1. /\ TypeOK' /\ EdaInv' /\ UNCHANGED <<who, version, caches>>
          /\ \A q \in Requests : q # r => req'[q] = req[q]
          /\ req'[r].pc \in EdaPcs \cup {"done"}
      BY <1>0, <2>1, EdaStep
    <3>2. AccountsInv' /\ TableInv'
      BY <1>0, <3>1, AccountsFrame, TableFrame DEF EdaPcs, TablePcs
    <3> QED
      BY <3>1, <3>2 DEF ReadsInv
  <2>2. CASE \/ StartTable(r) \/ LookUpVersion(r) \/ Describe(r) \/ LookUpL1(r) \/ LookUpL2(r)
             \/ Select(r) \/ StoreL2(r)
    <3>1. /\ TypeOK' /\ TableInv' /\ UNCHANGED <<who, batches, had, eda>>
          /\ \A q \in Requests : q # r => req'[q] = req[q]
          /\ req'[r].pc \in TablePcs \cup {"done"}
      BY <1>0, <2>2, TableStep
    <3>2. AccountsInv' /\ EdaInv'
      BY <1>0, <3>1, AccountsFrame, EdaFrame DEF EdaPcs, TablePcs
    <3> QED
      BY <3>1, <3>2 DEF ReadsInv
  <2>3. CASE Reply(r)
    <3>1. req' = [req EXCEPT ![r] = Idle] /\ UNCHANGED <<who, changes, files, eda, version, caches>>
      BY <2>3 DEF Reply
    <3>2. /\ req' \in [Requests -> RequestType] /\ req'[r].pc = "done"
          /\ \A q \in Requests : q # r => req'[q] = req[q]
      BY <1>0, <3>1, IdleType, SlotType
    <3>3. TypeOK'
      BY <1>0, <3>1, <3>2 DEF TypeOK, files, caches
    <3>4. AccountsInv' /\ EdaInv' /\ TableInv'
      BY <1>0, <3>1, <3>2, AccountsFrame, EdaFrame, TableFrame DEF EdaPcs, TablePcs, files
    <3> QED
      BY <3>3, <3>4 DEF ReadsInv
  <2> QED
    BY <1>2, <2>1, <2>2, <2>3 DEF Read
<1>3. ASSUME UNCHANGED <<who, req, version, caches>>, TypeOK', EdaInv' PROVE ReadsInv'
  BY <1>0, <1>3, AccountsFrame, TableFrame DEF ReadsInv
<1>4. ASSUME UNCHANGED <<who, req, files, eda>>, TypeOK', TableInv' PROVE ReadsInv'
  BY <1>0, <1>4, AccountsFrame, EdaFrame DEF ReadsInv, files
<1>5. CASE ChangeBatch
  <2>1. PICK b \in Batches, fs \in BatchFiles \cup {None} :
          /\ batches' = [batches EXCEPT ![b] = fs]
          /\ had' = IF fs = None THEN had ELSE had \cup {<<b, fs>>}
    BY <1>5 DEF ChangeBatch
  <2>2. UNCHANGED <<who, req, eda, version, caches>>
    BY <1>5 DEF ChangeBatch
  <2>3. TypeOK'
    BY <1>0, <2>1, <2>2 DEF TypeOK, caches
  <2>4. had \subseteq had' /\ \A c \in Batches : batches'[c] # None => <<c, batches'[c]>> \in had'
    BY <1>0, <2>1 DEF EdaInv, TypeOK
  <2>5. EdaInv'
    BY <1>0, <2>2, <2>4 DEF EdaInv, EdaAnswerHonest, InputOf
  <2> QED
    BY <1>3, <2>2, <2>3, <2>5
<1>6. CASE RemoveBlob
  <2>1. UNCHANGED <<who, req, batches, had, eda, version, caches>>
    BY <1>6 DEF RemoveBlob
  <2>2. TypeOK' /\ EdaInv'
    BY <1>0, <2>1, EdaFrame DEF TypeOK, caches
  <2> QED
    BY <1>3, <2>1, <2>2
<1>7. CASE WriteTable
  <2>1. UNCHANGED <<who, req, files, eda, caches>> /\ version' = version + 1
        /\ version < MaxVersions
    BY <1>7 DEF WriteTable
  <2>2. version' \in Versions /\ \A v \in Versions : v <= version => v <= version'
    BY <1>0, <2>1, ReadsAssumption DEF TypeOK, Versions
  <2>3. TypeOK'
    BY <1>0, <2>1, <2>2 DEF TypeOK, files, caches
  <2>4. TableInv'
    <3>1. verCache # None => verCache \in Versions
      BY <1>0 DEF TypeOK
    <3>2. ASSUME NEW q \in Requests,
                 req[q].pc \in {"describe", "l1", "l2", "select", "store", "table"}
          PROVE  req[q].version = None \/ req[q].version <= version'
      <4>1. req[q].version \in Versions \cup {None}
        BY <1>0, <3>2, KindOf DEF TypeOK, TableRequest, TableAnswer
      <4> QED
        BY <1>0, <2>2, <3>2, <4>1 DEF TableInv
    <3> QED
      BY <1>0, <2>1, <2>2, <3>1, <3>2 DEF TableInv, TableCacheSound, caches
  <2> QED
    BY <1>4, <2>1, <2>3, <2>4
<1>8. ASSUME NEW b \in Batches, ExpireEda(b) PROVE ReadsInv'
  <2>1. /\ UNCHANGED <<who, req, changes, files, version, caches>>
        /\ eda' = [eda EXCEPT ![b] = None]
    BY <1>8 DEF ExpireEda
  <2>2. TypeOK'
    BY <1>0, <2>1 DEF TypeOK, files, caches
  <2>3. \A c \in Batches : eda'[c] # None => eda'[c] = eda[c]
    <3>1. eda \in [Batches -> (SUBSET Files) \cup {None}]
      BY <1>0 DEF TypeOK
    <3> QED
      BY <2>1, <3>1
  <2>4. EdaInv'
    BY <1>0, <2>1, <2>3 DEF EdaInv, EdaAnswerHonest, InputOf, files
  <2> QED
    BY <1>3, <2>1, <2>2, <2>4
<1>9. CASE ExpireVersion
  <2>1. UNCHANGED <<who, req, files, eda, version, l1, l2>> /\ verCache' = None
    BY <1>9 DEF ExpireVersion
  <2>2. TypeOK'
    BY <1>0, <2>1 DEF TypeOK, files
  <2>3. TableInv'
    BY <1>0, <2>1 DEF TableInv, TableCacheSound
  <2> QED
    BY <1>4, <2>1, <2>2, <2>3
<1>10. ASSUME NEW v \in Versions, ExpireL1(v) PROVE ReadsInv'
  <2>1. UNCHANGED <<who, req, files, eda, version, verCache, l2>> /\ l1' = [l1 EXCEPT ![v] = None]
    BY <1>10 DEF ExpireL1
  <2>2. TypeOK'
    BY <1>0, <2>1 DEF TypeOK, files
  <2>3. \A w \in Versions : l1'[w] = l1[w] \/ l1'[w] = None
    BY <1>0, <2>1 DEF TypeOK
  <2>4. TableInv'
    BY <1>0, <2>1, <2>3 DEF TableInv, TableCacheSound
  <2> QED
    BY <1>4, <2>1, <2>2, <2>4
<1>11. CASE Restart
  <2>1. /\ req' = [r \in Requests |-> Idle]
        /\ eda' = [b \in Batches |-> None]
        /\ verCache' = None /\ l1' = [v \in Versions |-> None]
        /\ UNCHANGED <<who, files, version, l2>>
    BY <1>11 DEF Restart
  <2>2. \A r \in Requests : req'[r].pc = "done"
    BY <2>1, IdleType
  <2>3. TypeOK'
    BY <1>0, <2>1, IdleType DEF TypeOK, files
  <2>4. AccountsInv'
    BY <1>0, <2>1, <2>2, AccountsFrame
  <2>5. EdaInv'
    BY <1>0, <2>1, <2>2 DEF EdaInv, EdaAnswerHonest, InputOf, files
  <2>6. TableInv'
    BY <1>0, <2>1, <2>2 DEF TableInv, TableCacheSound
  <2> QED
    BY <2>3, <2>4, <2>5, <2>6 DEF ReadsInv
<1>12. CASE UNCHANGED vars
  <2>1. UNCHANGED <<who, req, batches, had, eda, version, caches>>
    BY <1>12 DEF vars, files
  <2>2. TypeOK' /\ EdaInv'
    BY <1>0, <2>1, EdaFrame DEF TypeOK, caches
  <2> QED
    BY <1>3, <2>1, <2>2
<1> QED
  BY <1>1, <1>2, <1>5, <1>6, <1>7, <1>8, <1>9, <1>10, <1>11, <1>12 DEF Next

\* The first state: nothing is cached, nobody was promoted, and accounts have
\* their ids.
LEMMA ReadsInit == Init => ReadsInv
<1> SUFFICES ASSUME Init PROVE ReadsInv
  OBVIOUS
<1>1. AccessInit
  BY DEF Init
<1>2. Cardinality(FirstAccounts) \in Nat
  BY AccessAssumption, FS_CardinalityType
<1>3. \A r \in Requests : req[r].pc = "done" /\ req[r] \in RequestType
  BY <1>1, IdleType DEF AccessInit
<1>4. AccountsInv
  <2>1. \A a \in accounts : a \in Account /\ a.id < nextId
    BY <1>1, <1>2, AccessAssumption DEF AccessInit, Account
  <2>2. \A a, b \in accounts : a.id = b.id => a = b
    BY <1>1, AccessAssumption DEF AccessInit
  <2>3. keys = {} /\ promoted = {} /\ nextId \in Nat \ {0}
    BY <1>1, <1>2 DEF AccessInit
  <2> QED
    BY <1>3, <2>1, <2>2, <2>3 DEF AccountsInv, PromotionsRecorded
<1>5. TypeOK
  <2>1. /\ req \in [Requests -> RequestType]
        /\ batches \in [Batches -> BatchFiles \cup {None}]
    BY <1>1, <1>3, ReadsAssumption DEF Init, AccessInit
  <2>2. 1 \in Versions
    BY ReadsAssumption DEF Versions
  <2> QED
    BY <2>1, <2>2 DEF Init, TypeOK
<1>6. EdaInv
  BY <1>3 DEF Init, EdaInv, EdaAnswerHonest
<1>7. TableInv
  BY <1>3 DEF Init, TableInv, TableCacheSound
<1> QED
  BY <1>4, <1>5, <1>6, <1>7 DEF ReadsInv

-----------------------------------------------------------------------------
(* Theorems                                                                 *)

\* The inductive invariant holds in every reachable state.
THEOREM ReadsInvariance == Spec => []ReadsInv
  BY ReadsInit, ReadsStep, PTL DEF Spec

\* set_datakinders leaves a history row of every promotion it commits, as long
\* as the account that asked for it exists.
THEOREM PromotionsAreRecorded == Spec => []PromotionsRecorded
<1>1. ReadsInv => PromotionsRecorded
  BY DEF ReadsInv, AccountsInv
<1> QED
  BY <1>1, ReadsInvariance, PTL

\* get_eda_data answers, cached or not, with input files the batch once had
\* together, and only callers who may read them.
THEOREM EdaAnswersAreHonest == Spec => []EdaAnswerHonest
<1>1. ReadsInv => EdaAnswerHonest
  BY DEF ReadsInv, EdaInv
<1> QED
  BY <1>1, ReadsInvariance, PTL

\* fetch_table_data never caches or answers, under a version, rows that are
\* older than it or incomplete.
THEOREM TableCachesAreSound == Spec => []TableCacheSound
<1>1. ReadsInv => TableCacheSound
  BY DEF ReadsInv, TableInv
<1> QED
  BY <1>1, ReadsInvariance, PTL
=============================================================================
