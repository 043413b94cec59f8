------------------------------- MODULE Access -------------------------------
(***************************************************************************)
(* Who calls: accounts, which the front end writes, API keys, tokens, and   *)
(* the administrative requests of main.py.  A token holds a name only; every *)
(* request looks up what that name may do, in the snapshot of its           *)
(* transaction.  Reads extends this module with the cached reads.           *)
(***************************************************************************)
EXTENDS Naturals, FiniteSets

CONSTANTS
  Requests,    \* request threads, each serving one request at a time
  Emails,      \* email addresses of accounts
  Insts,       \* institutions
  Issuers,     \* API_KEY_ISSUERS: names whose owners may generate keys
  Roles,       \* access types of accounts and keys
  FirstAccounts,
  Loads,       \* bound: what the threads may serve in one behaviour, each with
               \* how much may change around them in it
  None

ASSUME AccessAssumption ==
  /\ "DATAKINDER" \in Roles
  /\ \A l \in DOMAIN Loads : l \in [Requests -> {"admin", "eda", "table"}] /\ Loads[l] \in Nat
  /\ IsFiniteSet(FirstAccounts)
  /\ FirstAccounts \subseteq [id: 1..Cardinality(FirstAccounts), email: Emails,
                              inst: Insts \cup {None}, role: Roles]
  /\ \A a, b \in FirstAccounts : a.id = b.id => a = b

VARIABLES
  load,      \* one of the Loads; requests of different kinds share no state
  accounts,  \* rows of users: [id, email, inst, role]
  keys,      \* rows of apikey: [id, inst, role, enduser, usable]
  tokens,    \* names in tokens that have not expired
  history,   \* rows of account_history: <<acting account, account changed>>
  promoted,  \* the promotions there have been, in the same form
  nextId,    \* ids are never given twice
  req,       \* what each request thread does
  changes

who == <<load, accounts, keys, tokens, history, promoted, nextId>>

Idle == [pc |-> "done"]

Initial == [id |-> 0, inst |-> None, role |-> "DATAKINDER"]  \* the initial API key

Ids == {a.id : a \in accounts}

\* What a token names: an account by its email, a key by its id.
Named(email, key) == [email |-> email, key |-> key]

\* get_user
Caller(name) ==
  IF name = Named(None, 0) THEN {Initial}
  ELSE {a \in accounts : a.email = name.email} \cup {k \in keys : k.id = name.key}

MayRead(user, inst) == user.role = "DATAKINDER" \/ user.inst = inst
FullAccess(user) == user.role \in {"DATAKINDER", "MODEL_OWNER", "DATA_OWNER"}

\* Something around the requests changes.
Change == changes < Loads[load] /\ changes' = changes + 1

\* Bound: accounts, keys and tokens change only where a thread promotes.
AccountsChange == (\E r \in Requests : load[r] = "admin") /\ Change

-----------------------------------------------------------------------------
(* Tokens                                                                   *)

\* authenticate_api_key: a usable key of the institution in the header; with
\* an end user, the key must allow it and the account be of that institution.
NamesFor(k, inst, email) ==
  IF email = None THEN {Named(None, k.id)}
  ELSE {Named(a.email, 0) : a \in {x \in accounts :
          x.email = email /\ k.enduser /\ (inst = None \/ x.inst = inst)}}

GetToken ==
  /\ \/ tokens' = tokens \cup {Named(None, 0)}
     \/ \E k \in keys, email \in Emails \cup {None} :
          /\ k.usable
          /\ \E n \in NamesFor(k, k.inst, email) : tokens' = tokens \cup {n}
  /\ tokens' # tokens
  /\ UNCHANGED <<load, accounts, keys, history, promoted, nextId, req, changes>>

ExpireToken(n) ==
  /\ n \in tokens /\ AccountsChange /\ tokens' = tokens \ {n}
  /\ UNCHANGED <<load, accounts, keys, history, promoted, nextId, req>>

-----------------------------------------------------------------------------
(* set_datakinders                                                          *)

StartPromote(r) ==
  /\ req[r].pc = "done" /\ load[r] = "admin"
  /\ \E n \in tokens, emails \in SUBSET Emails \ {{}} : \E u \in Caller(n) :
       /\ u.role = "DATAKINDER"
       /\ req' = [req EXCEPT ![r] =
            [pc |-> "promoting", user |-> u, emails |-> emails,
             snapshot |-> {a.id : a \in {x \in accounts : x.email \in emails}}]]
  /\ UNCHANGED <<who, changes>>

Drop(r) == req' = [req EXCEPT ![r] = Idle] /\ UNCHANGED who

Changed(r) == {a \in accounts : a.email \in req[r].emails /\ a.role # "DATAKINDER"}

\* UPDATE, history rows and commit; a history row names the caller's account,
\* so a caller without one (a key, or an account deleted since) breaks the
\* foreign key and everything is rolled back.
Promote(r, listed) ==
  /\ req[r].pc = "promoting"
  /\ IF listed # {} /\ req[r].user.id \notin Ids THEN Drop(r)
     ELSE /\ accounts' = (accounts \ Changed(r))
                           \cup {[a EXCEPT !.role = "DATAKINDER"] : a \in Changed(r)}
          /\ history' = history \cup ({req[r].user.id} \X listed)
          /\ promoted' = promoted
               \cup ({req[r].user.id} \X {a.id : a \in Changed(r)})
          /\ req' = [req EXCEPT ![r] = Idle]
          /\ UNCHANGED <<load, keys, tokens, nextId>>
  /\ UNCHANGED changes

\* Fault: the accounts are listed before they are updated.
CommitPromoteListedFirst(r) ==
  req[r].pc = "promoting" /\ Promote(r, req[r].snapshot)

\* The SELECT after the UPDATE sees the snapshot and the rows this
\* transaction has changed, which may be newer than the snapshot.
CommitPromote(r) ==
  req[r].pc = "promoting" /\ Promote(r, req[r].snapshot \cup {a.id : a \in Changed(r)})

-----------------------------------------------------------------------------
(* generate_api_key: (inst, access type) is unique but for keys without an  *)
(* institution; only Datakinder keys may allow end users.                   *)

GenerateKey ==
  \E n \in tokens \cap Issuers, inst \in Insts \cup {None}, role \in Roles, enduser \in BOOLEAN :
    /\ \E u \in Caller(n) : u.role = "DATAKINDER"
    /\ enduser => role = "DATAKINDER"
    /\ inst # None => ~\E k \in keys : k.inst = inst /\ k.role = role
    /\ AccountsChange
    /\ keys' = keys \cup {[id |-> nextId, inst |-> inst, role |-> role,
                           enduser |-> enduser, usable |-> TRUE]}
    /\ nextId' = nextId + 1
    /\ UNCHANGED <<load, accounts, tokens, history, promoted, req>>

-----------------------------------------------------------------------------
(* External: the front end's accounts and the operators' keys               *)

CreateAccount ==
  /\ \E e \in Emails \ {a.email : a \in accounts}, inst \in Insts \cup {None}, role \in Roles :
       accounts' = accounts \cup {[id |-> nextId, email |-> e, inst |-> inst, role |-> role]}
  /\ AccountsChange /\ nextId' = nextId + 1
  /\ UNCHANGED <<load, keys, tokens, history, promoted, req>>

\* The history rows of the account go with it (ON DELETE CASCADE).
DeleteAccount ==
  /\ \E a \in accounts :
       /\ accounts' = accounts \ {a}
       /\ history' = {h \in history : h[1] # a.id}
  /\ AccountsChange
  /\ UNCHANGED <<load, keys, tokens, promoted, nextId, req>>

SetRole ==
  /\ \E a \in accounts, role \in Roles :
       accounts' = (accounts \ {a}) \cup {[a EXCEPT !.role = role]}
  /\ AccountsChange
  /\ UNCHANGED <<load, keys, tokens, history, promoted, nextId, req>>

RetireKey ==
  /\ \E k \in keys : keys' = (keys \ {k}) \cup {[k EXCEPT !.usable = FALSE]}
  /\ AccountsChange
  /\ UNCHANGED <<load, accounts, tokens, history, promoted, nextId, req>>

AccessInit ==
  /\ load \in DOMAIN Loads
  /\ accounts = FirstAccounts /\ keys = {}
  /\ tokens = {Named(None, 0)} \cup {Named(a.email, 0) : a \in FirstAccounts}
  /\ history = {} /\ promoted = {} /\ nextId = Cardinality(FirstAccounts) + 1
  /\ req = [r \in Requests |-> Idle] /\ changes = 0

AccessNext ==
  \/ GetToken \/ GenerateKey
  \/ \E n \in tokens : ExpireToken(n)
  \/ \E r \in Requests : StartPromote(r) \/ CommitPromote(r)
  \/ CreateAccount \/ DeleteAccount \/ SetRole \/ RetireKey

\* Every account a request made a Datakinder has a history row that names the
\* account of the caller, as long as that account exists, also when accounts
\* are created, changed or deleted between the request's snapshot and its
\* UPDATE (set_datakinders).
PromotionsRecorded ==
  \A p \in promoted : p \in history \/ p[1] \notin Ids

Account == [id: Nat, email: Emails, inst: Insts \cup {None}, role: Roles]
Key == [id: Nat, inst: Insts \cup {None}, role: Roles, enduser: BOOLEAN, usable: BOOLEAN]
Promotion ==
  [pc: {"promoting"}, user: Account \cup Key \cup {Initial}, emails: SUBSET Emails,
   snapshot: SUBSET Nat]

\* The inductive invariant of accounts: an id names one account for ever, also
\* in the promotions there have been and those to come.
AccountsInv ==
  /\ accounts \subseteq Account /\ keys \subseteq Key
  /\ \A a, b \in accounts : a.id = b.id => a = b
  /\ nextId \in Nat \ {0}
  /\ \A a \in accounts \cup keys : a.id < nextId
  /\ \A r \in Requests : req[r].pc = "promoting" => req[r].user.id \in 0..nextId - 1
  /\ \A p \in promoted : p[1] \in 0..nextId - 1
  /\ PromotionsRecorded
=============================================================================
