---------------------------- MODULE AccountFiles ----------------------------
(***************************************************************************)
(* The account files of notion-manager and the pool built from them        *)
(* (internal/proxy/account.go, account_api.go, backup.go, internal/        *)
(* accountstore): imports, registrations, deletions, the disable switch,   *)
(* the rewriting of files after a refresh or a rejected login, reloads,    *)
(* backups and restores, failing writes and restarts.                      *)
(*                                                                         *)
(* An Account is a workspace identity (account_id).  Its file has its      *)
(* canonical name or, after a restore, the name made of the e-mail; both   *)
(* may be there.  An Obj is an *Account: handlers keep pointers to it      *)
(* after the pool has dropped or replaced it.                              *)
(*                                                                         *)
(* Every file access of the account handlers is made under the directory   *)
(* lock, inside which the lock of the path is taken and adds nothing; a    *)
(* file appears under its name by a rename, complete.  Reloads, backups    *)
(* and restores take no file lock: the maintenance gate keeps the last two *)
(* apart from the handlers that enter it.  The settings, and the files a   *)
(* restore puts back, are written in place: a failing write may leave them *)
(* cut off in the middle.                                                  *)
(***************************************************************************)
EXTENDS Naturals, FiniteSets

CONSTANTS
  Account,     \* the workspace identities
  Token,       \* the values of token_v2
  Logins,      \* the possible assignments of accounts and tokens to Notion users
  Handler,     \* the handler goroutines, one call each
  Scenarios,   \* the sets of kinds of calls that may come together
  Obj,         \* the *Account objects: bounds those that are alive at once
  MaxVisits,   \* bound on the calls of the backup handler, for every scenario
  MaxFaults,   \* bound on the failing file operations ...
  MaxUndoFaults, \* ... and on those more that fail in the rollback of a restore
  MaxCrashes,  \* bound on the restarts
  None         \* no file, no object, no account

Kinds == {"import", "register", "delete", "erase", "toggle", "refresh", "reject"}
Name == {"canonical", "email"} \X Account
Record == [token : Token, disabled : BOOLEAN, invalid : BOOLEAN]
Object == [acct : Account, token : Token, disabled : BOOLEAN, invalid : BOOLEAN]
\* The settings of the dashboard: "other" is what a start reads from a file cut off.
Setting == {"old", "new", "other"}

\* Every account belongs to a user that has a token: it was imported with one.
ASSUME FilesAssumption ==
  /\ Scenarios \subseteq SUBSET (Kinds \cup {"download", "restore"})
  /\ \A l \in Logins, a \in Account : \E t \in Token : l[t] = l[a]
  /\ IsFiniteSet(Handler) /\ IsFiniteSet(Account)
  /\ MaxVisits \in [Scenarios -> Nat]
  /\ MaxFaults \in Nat /\ MaxUndoFaults \in Nat /\ MaxCrashes \in Nat
  /\ None \notin Account \cup Token \cup Obj \cup Handler /\ None \notin Kinds
  /\ None \notin Record \cup Object

VARIABLES
  offered,   \* the scenario: never changes
  login,     \* the Notion user of every account and token: never changes
  files,     \* the account files on disk that can be parsed
  cutOff,    \* the accounts whose canonical name holds a file cut off in the middle
  heap,      \* the account objects
  pool,      \* pool.accounts, by identity
  dirKnown,  \* pool.accountsDir is set
  mutations, restoring,  \* the maintenance gate
  dirLock,   \* the holder of the directory lock
  call,      \* the locals of every handler
  admin,     \* the locals of the backup handler, which restoreMu serialises
  backup,    \* the content of the last downloaded backup
  config, settings,  \* the dashboard settings in the file ("torn": cut off) and in memory
  faults, crashes, visits,  \* bounds
  deleted,   \* history: the accounts whose deletion was answered
  astray     \* history: the accounts set apart by a failing read of their file or a
             \* failing step of a rollback, until they are activated or loaded again

gate == <<mutations, restoring>>
bounds == <<crashes, visits>>
vars == <<offered, login, files, cutOff, heap, pool, dirKnown, gate, dirLock, call, admin,
          backup, config, settings, faults, bounds, deleted, astray>>
fixed == <<offered, login>>
disk == <<files, cutOff, config>>
history == <<deleted, astray>>
backups == <<admin, backup, settings, visits>>

FilesOf(a) == {n \in Name : n[2] = a /\ files[n] # None}
Has(a, t) == pool[a] # None /\ heap[pool[a]].token = t
Listed == {n \in Name : files[n] # None}
InPool == {o \in Obj : \E a \in Account : pool[a] = o}
Used == InPool \cup UNION {call[h].objs : h \in Handler}

NewCall == [kind |-> None, pc |-> "ready", todo |-> {}, objs |-> {}, acct |-> None,
            token |-> None, prev |-> FALSE, read |-> None]
Idle == [pc |-> "idle", left |-> {}, snap |-> [n \in Name |-> None], target |-> [n \in Name |-> None],
         was |-> "old", lost |-> {}, unsaved |-> FALSE]

Done(h) == call' = [call EXCEPT ![h] = [NewCall EXCEPT !.pc = "done"]]

\* A file operation fails, as often as the bound allows.
Fault == faults < MaxFaults /\ faults' = faults + 1
UndoFault == faults < MaxFaults + MaxUndoFaults /\ faults' = faults + 1

\* A search that passes over the files it cannot read sees those of s only.
Sees(s, all) == IF s = all THEN UNCHANGED faults ELSE Fault

\* The ways to give every account of s an object of its own from free.
Places(s, free) == {f \in [s -> free] : \A a, b \in s : a # b => f[a] # f[b]}

\* New objects for the accounts of s, from the records r, in the pool p.  Objects
\* nobody points to any more are collected.
Fill(p, s, r) ==
  LET at == CHOOSE f \in Places(s, Obj \ Used) : TRUE
      of(o) == CHOOSE a \in s : at[a] = o IN
  /\ Places(s, Obj \ Used) # {}
  /\ pool' = [a \in Account |-> IF a \in s THEN at[a] ELSE p[a]]
  /\ heap' = [o \in Obj |-> IF \E a \in s : at[a] = o
                 THEN [acct |-> of(o), token |-> r[of(o)].token,
                       disabled |-> r[of(o)].disabled, invalid |-> r[of(o)].invalid]
                 ELSE IF o \in Used THEN heap[o] ELSE None]

\* The file an account of s is loaded from, when it has more than one.
Picks(s) == {f \in [s -> Name] : \A a \in s : f[a] \in FilesOf(a)}
LoadInto(p, s, pick) == Fill(p, s, [a \in s |-> files[pick[a]]])

\* A reload holds the lock of the pool from its beginning to its end.
PoolFree == \A h \in Handler : call[h].pc \notin {"list", "listed"}

-----------------------------------------------------------------------------
(* The maintenance gate.                                                   *)

\* Mutant: a handler does not look at a restore under way.
BeginUngated(h, kind, c) ==
  /\ call[h].pc = "ready" /\ kind \in offered
  /\ IF FALSE THEN Done(h) /\ UNCHANGED mutations
     ELSE /\ mutations' = mutations + 1
          /\ call' = [call EXCEPT ![h] = c]
  /\ UNCHANGED <<fixed, disk, heap, pool, dirKnown, restoring, dirLock, backups, faults,
                 crashes, history>>

\* beginAccountMutation, at the head of every handler that changes accounts; a
\* refused handler answers 409.  RecordAuthFailure does not enter it.
Begin(h, kind, c) ==
  /\ call[h].pc = "ready" /\ kind \in offered
  /\ IF restoring THEN Done(h) /\ UNCHANGED mutations
     ELSE /\ mutations' = mutations + 1
          /\ call' = [call EXCEPT ![h] = c]
  /\ UNCHANGED <<fixed, disk, heap, pool, dirKnown, restoring, dirLock, backups, faults,
                 crashes, history>>

\* endAccountMutation, deferred.
Leave(h) == Done(h) /\ mutations' = IF mutations > 0 THEN mutations - 1 ELSE mutations

EndCall(h) ==
  /\ call[h].pc = "end"
  /\ Leave(h)
  /\ UNCHANGED <<fixed, disk, heap, pool, dirKnown, restoring, dirLock, backups, faults,
                 crashes, history>>

Untouched == <<fixed, config, restoring, mutations, backups, crashes>>
Quiet == <<Untouched, cutOff, astray>>

-----------------------------------------------------------------------------
(* Imports and registrations.                                              *)

\* HandleAddAccount discovered these workspaces behind a token.
BeginImport(h) ==
  \E t \in Token, s \in SUBSET Account \ {{}} :
    /\ \A a \in s : login[a] = login[t]
    /\ \E kind \in {"import", "register"} :
         /\ kind = "register" => Cardinality(s) = 1
         /\ Begin(h, kind, [NewCall EXCEPT !.kind = kind, !.pc = "import", !.todo = s, !.token = t])

\* The pool has the account with this very token.
SkipImport(h) ==
  \E a \in call[h].todo :
    /\ call[h].pc = "import" /\ call[h].kind = "import" /\ PoolFree
    /\ Has(a, call[h].token)
    /\ call' = [call EXCEPT ![h].todo = @ \ {a}]
    /\ UNCHANGED <<Quiet, files, heap, pool, dirKnown, dirLock, faults, deleted>>

\* SaveAccountToFile, WriteAccountJSON: a fresh record under the file name found for
\* the identity, or under its canonical name.  When that fails an import is over and
\* a registration goes on to its reload.
SaveImport(h) ==
  \E a \in call[h].todo : \E s \in SUBSET FilesOf(a) :
    LET n == IF s = {} THEN <<"canonical", a>> ELSE CHOOSE m \in s : TRUE
        refused == Cardinality(s) > 1 \/ (s = {} /\ a \in cutOff)
        register == call[h].kind = "register" IN
    /\ call[h].pc = "import" /\ dirLock = None
    /\ ~ (call[h].kind = "import" /\ Has(a, call[h].token))
    /\ \/ /\ ~ refused /\ Sees(s, FilesOf(a))
          /\ files' = [files EXCEPT ![n] = [token |-> call[h].token, disabled |-> FALSE, invalid |-> FALSE]]
          /\ deleted' = deleted \ {a}
          /\ astray' = IF s = FilesOf(a) THEN astray ELSE astray \cup {a}
          /\ call' = [call EXCEPT ![h].todo = @ \ {a}, ![h].acct = a,
                        ![h].pc = IF register THEN "reload" ELSE "activate"]
       \/ /\ s = FilesOf(a)
          /\ IF refused THEN UNCHANGED faults ELSE Fault
          /\ call' = [call EXCEPT ![h].todo = {}, ![h].acct = a,
                        ![h].pc = IF register THEN "reload" ELSE "end"]
          /\ UNCHANGED <<files, history>>
    /\ UNCHANGED <<Untouched, cutOff, heap, pool, dirKnown, dirLock>>

\* Mutant: the directory lock is given up before the pool is changed.
LoadActiveUnlocked(h) ==
  LET a == call[h].acct IN
  \E s \in SUBSET FilesOf(a) :
    /\ call[h].pc = "activate" /\ dirLock = None
    /\ Sees(s, FilesOf(a))
    /\ UNCHANGED dirLock
    /\ IF Cardinality(s) = 1
       THEN /\ call' = [call EXCEPT ![h].pc = "add", ![h].read = files[CHOOSE n \in s : TRUE]]
            /\ UNCHANGED astray
       ELSE /\ call' = [call EXCEPT ![h].pc = "end"]
            /\ astray' = IF s = FilesOf(a) THEN astray ELSE astray \cup {a}
    /\ UNCHANGED <<Untouched, cutOff, files, heap, pool, dirKnown, deleted>>

\* ActivateAccountByIDFromDir: read the one file of the account; when there is not
\* exactly one that can be read, the call ends with an error ...
LoadActive(h) ==
  LET a == call[h].acct IN
  \E s \in SUBSET FilesOf(a) :
    /\ call[h].pc = "activate" /\ dirLock = None
    /\ Sees(s, FilesOf(a))
    /\ IF Cardinality(s) = 1
       THEN /\ dirLock' = h
            /\ call' = [call EXCEPT ![h].pc = "add", ![h].read = files[CHOOSE n \in s : TRUE]]
            /\ UNCHANGED astray
       ELSE /\ UNCHANGED dirLock
            /\ call' = [call EXCEPT ![h].pc = "end"]
            /\ astray' = IF s = FilesOf(a) THEN astray ELSE astray \cup {a}
    /\ UNCHANGED <<Untouched, cutOff, files, heap, pool, dirKnown, deleted>>

\* ... and, still under the directory lock, put it in the pool (AddAccount).
AddActive(h) ==
  LET a == call[h].acct IN
  /\ call[h].pc = "add" /\ PoolFree
  /\ Fill(pool, {a}, [b \in {a} |-> call[h].read])
  /\ dirKnown' = TRUE /\ dirLock' = None
  /\ astray' = IF Cardinality(FilesOf(a)) = 1 THEN astray \ {a} ELSE astray
  /\ call' = [call EXCEPT ![h].read = None, ![h].acct = None,
                          ![h].pc = IF call[h].todo = {} THEN "end" ELSE "import"]
  /\ UNCHANGED <<Untouched, cutOff, files, faults, deleted>>

\* All discovered accounts were in the pool already.
NothingToImport(h) ==
  /\ call[h].pc = "import" /\ call[h].todo = {}
  /\ call' = [call EXCEPT ![h].pc = "end"]
  /\ UNCHANGED <<Quiet, files, heap, pool, dirKnown, dirLock, faults, deleted>>

\* ReloadFromDir, at the end of a registration, under the lock of the pool but not the
\* one of the directory: the names in the directory are read ...
Reload(h) ==
  /\ call[h].pc = "reload" /\ PoolFree
  /\ dirKnown' = TRUE
  /\ \/ /\ call' = [call EXCEPT ![h].pc = "list", ![h].todo = Listed, ![h].acct = None]
        /\ UNCHANGED <<faults, astray>>
     \/ /\ Fault
        /\ call' = [call EXCEPT ![h].pc = "end", ![h].acct = None]
        /\ astray' = astray \cup {a \in Account : pool[a] = None /\ FilesOf(a) # {}}
  /\ UNCHANGED <<Untouched, cutOff, files, heap, pool, dirLock, deleted>>

\* ... then the files; one that is gone, that cannot be read or whose account the
\* pool has is passed over ...
ReadListed(h) ==
  \E n \in call[h].todo :
    /\ call[h].pc = "list"
    /\ \/ /\ files[n] # None /\ pool[n[2]] = None
          /\ call' = [call EXCEPT ![h].pc = "listed", ![h].todo = @ \ {n}, ![h].acct = n[2],
                                  ![h].read = files[n]]
          /\ UNCHANGED <<faults, astray>>
       \/ /\ files[n] = None \/ pool[n[2]] # None
          /\ call' = [call EXCEPT ![h].todo = @ \ {n}]
          /\ UNCHANGED <<faults, astray>>
       \/ /\ Fault
          /\ call' = [call EXCEPT ![h].todo = @ \ {n}]
          /\ astray' = IF pool[n[2]] = None THEN astray \cup {n[2]} ELSE astray
    /\ UNCHANGED <<Untouched, cutOff, files, heap, pool, dirKnown, dirLock, deleted>>

\* ... and what was read is put in the pool, whatever has become of the file.
AddListed(h) ==
  LET a == call[h].acct IN
  /\ call[h].pc = "listed"
  /\ Fill(pool, {a}, [b \in {a} |-> call[h].read])
  /\ call' = [call EXCEPT ![h].pc = "list", ![h].read = None, ![h].acct = None]
  /\ UNCHANGED <<Quiet, files, dirKnown, dirLock, faults, deleted>>

EndReload(h) ==
  /\ call[h].pc = "list" /\ call[h].todo = {}
  /\ call' = [call EXCEPT ![h].pc = "end"]
  /\ UNCHANGED <<Quiet, files, heap, pool, dirKnown, dirLock, faults, deleted>>

-----------------------------------------------------------------------------
(* Deletions.                                                              *)

\* Nobody else of the pool has the e-mail, that is the Notion user.
Unambiguous(a) == \A b \in Account : pool[b] # None /\ login[b] = login[a] => b = a

\* "erase" is a deletion by e-mail that may find a file only.
BeginDelete(h) ==
  \E a \in Account, kind \in {"delete", "erase"} :
    Begin(h, kind, [NewCall EXCEPT !.kind = kind, !.pc = "find", !.acct = a])

\* deleteAccountByID, deleteAccountByEmail: the account and its token as they are
\* now; an e-mail of several accounts is refused.
FindDeleted(h) ==
  LET a == call[h].acct IN
  /\ call[h].pc = "find" /\ PoolFree
  /\ \/ /\ pool[a] # None
        /\ call' = [call EXCEPT ![h].pc = "remove", ![h].token = heap[pool[a]].token]
     \/ /\ pool[a] = None \/ ~ Unambiguous(a)
        /\ call' = [call EXCEPT ![h].pc = "end"]
     \/ /\ call[h].kind = "erase" /\ \A b \in Account : login[b] = login[a] => pool[b] = None
        /\ call' = [call EXCEPT ![h].pc = "erase"]
  /\ UNCHANGED <<Quiet, files, heap, pool, dirKnown, dirLock, faults, deleted>>

\* DeleteAccountFileByEmail: the pool did not have the e-mail when it was asked, and
\* is not asked again; the one file with the e-mail is removed.
EraseFile(h) ==
  LET found == {n \in Listed : login[n[2]] = login[call[h].acct]} IN
  /\ call[h].pc = "erase" /\ dirLock = None
  /\ \/ /\ Cardinality(found) = 1
        /\ files' = [n \in Name |-> IF n \in found THEN None ELSE files[n]]
        /\ deleted' = deleted \cup {a \in Account : pool[a] = None /\ FilesOf(a) \cap found # {}}
        /\ UNCHANGED faults
     \/ /\ IF Cardinality(found) = 1 THEN Fault ELSE UNCHANGED faults
        /\ UNCHANGED <<files, deleted>>
  /\ call' = [call EXCEPT ![h].pc = "end"]
  /\ UNCHANGED <<Quiet, heap, pool, dirKnown, dirLock>>

\* The account and its one file still have that token.
Deletable(h) ==
  LET a == call[h].acct IN
  /\ Has(a, call[h].token)
  /\ Cardinality(FilesOf(a)) = 1
  /\ \A n \in FilesOf(a) : files[n].token = call[h].token

\* Mutant: an account whose file cannot be removed leaves the pool all the same.
DeleteFileAnyway(h) ==
  /\ call[h].pc = "remove" /\ dirLock = None
  /\ \/ /\ Deletable(h)
        /\ files' = [n \in Name |-> IF n[2] = call[h].acct THEN None ELSE files[n]]
        /\ UNCHANGED faults
     \/ /\ IF Deletable(h) THEN Fault ELSE UNCHANGED faults
        /\ UNCHANGED files
  /\ dirLock' = h
  /\ call' = [call EXCEPT ![h].pc = "drop"]
  /\ UNCHANGED <<Quiet, heap, pool, dirKnown, deleted>>

\* deleteAccountByAccountIdentity: the file first ...
DeleteFile(h) ==
  /\ call[h].pc = "remove" /\ dirLock = None
  /\ \/ /\ Deletable(h)
        /\ files' = [n \in Name |-> IF n[2] = call[h].acct THEN None ELSE files[n]]
        /\ dirLock' = h
        /\ call' = [call EXCEPT ![h].pc = "drop"]
        /\ UNCHANGED faults
     \/ /\ IF Deletable(h) THEN Fault ELSE UNCHANGED faults
        /\ call' = [call EXCEPT ![h].pc = "end"]
        /\ UNCHANGED <<files, dirLock>>
  /\ UNCHANGED <<Quiet, heap, pool, dirKnown, deleted>>

\* Mutant: the directory lock is not given up.
DropDeletedLocked(h) ==
  LET a == call[h].acct IN
  /\ call[h].pc = "drop" /\ PoolFree
  /\ pool' = [pool EXCEPT ![a] = IF Has(a, call[h].token) THEN None ELSE @]
  /\ deleted' = deleted \cup {a}
  /\ UNCHANGED dirLock
  /\ call' = [call EXCEPT ![h].pc = "end"]
  /\ UNCHANGED <<Quiet, files, heap, dirKnown, faults>>

\* ... then, still under the directory lock, the pool's entry, unless another
\* login has replaced it (RemoveAccountByAccountIDIfToken).
DropDeleted(h) ==
  LET a == call[h].acct IN
  /\ call[h].pc = "drop" /\ PoolFree
  /\ pool' = [pool EXCEPT ![a] = IF Has(a, call[h].token) THEN None ELSE @]
  /\ deleted' = deleted \cup {a}
  /\ dirLock' = None
  /\ call' = [call EXCEPT ![h].pc = "end"]
  /\ UNCHANGED <<Quiet, files, heap, dirKnown, faults>>

-----------------------------------------------------------------------------
(* Rewriting the files of objects.                                         *)

\* Mutant: the switch of the file is kept.
ReadSavedOldSwitch(h) ==
  \E o \in call[h].todo :
    LET a == heap[o].acct
        found == /\ Cardinality(FilesOf(a)) = 1
                 /\ \A n \in FilesOf(a) : files[n].token = heap[o].token IN
    /\ call[h].pc = "save" /\ dirLock = None
    /\ IF found
       THEN /\ dirLock' = h
            /\ call' = [call EXCEPT ![h].pc = "write", ![h].acct = CHOOSE n \in FilesOf(a) : TRUE,
                 ![h].read = [token |-> heap[o].token, disabled |-> \E n \in FilesOf(a) : files[n].disabled,
                              invalid |-> heap[o].invalid],
                 ![h].todo = @ \ {o}]
       ELSE /\ call' = [call EXCEPT ![h].pc = IF call[h].kind = "toggle" THEN "revert" ELSE "save",
                          ![h].todo = @ \ {o}]
            /\ UNCHANGED dirLock
    /\ UNCHANGED <<Quiet, files, heap, pool, dirKnown, faults, deleted>>

\* saveAccountFile: the file of the object's identity, read under the directory
\* lock, which must be the only one and have the object's token ...
ReadSaved(h) ==
  \E o \in call[h].todo :
    LET a == heap[o].acct
        found == /\ Cardinality(FilesOf(a)) = 1
                 /\ \A n \in FilesOf(a) : files[n].token = heap[o].token IN
    /\ call[h].pc = "save" /\ dirLock = None
    /\ IF found
       THEN /\ dirLock' = h
            /\ call' = [call EXCEPT ![h].pc = "write", ![h].acct = CHOOSE n \in FilesOf(a) : TRUE,
                 ![h].read = [token |-> heap[o].token, disabled |-> heap[o].disabled,
                              invalid |-> heap[o].invalid],
                 ![h].todo = @ \ {o}]
       ELSE /\ call' = [call EXCEPT ![h].pc = IF call[h].kind = "toggle" THEN "revert" ELSE "save",
                          ![h].todo = @ \ {o}]
            /\ UNCHANGED dirLock
    /\ UNCHANGED <<Quiet, files, heap, pool, dirKnown, faults, deleted>>

\* ... replaced by one with the state of the object: temporary file, rename.  The
\* rename creates the name again if it is gone.
WriteSaved(h) ==
  LET next(pc) == call' = [call EXCEPT ![h].pc = pc, ![h].acct = None, ![h].read = None] IN
  /\ call[h].pc = "write"
  /\ dirLock' = None
  /\ \/ /\ files' = [files EXCEPT ![call[h].acct] = call[h].read]
        /\ cutOff' = {a \in cutOff : call[h].acct # <<"canonical", a>>}
        /\ next("save")
        /\ UNCHANGED faults
     \/ /\ Fault
        /\ next(IF call[h].kind = "toggle" THEN "revert" ELSE "save")
        /\ UNCHANGED <<files, cutOff>>
  /\ UNCHANGED <<Untouched, heap, pool, dirKnown, history>>

SavedAll(h) ==
  /\ call[h].pc = "save" /\ call[h].todo = {}
  /\ call' = [call EXCEPT ![h] = [NewCall EXCEPT !.pc = IF call[h].kind = "reject" THEN "done" ELSE "end"]]
  /\ UNCHANGED <<Quiet, files, heap, pool, dirKnown, dirLock, faults, deleted>>

\* SaveAccounts, at the end of a refresh or of a check of all accounts.
BeginRefresh(h) ==
  Begin(h, "refresh", [NewCall EXCEPT !.kind = "refresh", !.pc = "snapshot"])

SnapshotPool(h) ==
  /\ call[h].pc = "snapshot" /\ PoolFree
  /\ call' = [call EXCEPT ![h].pc = "save", ![h].todo = InPool, ![h].objs = InPool]
  /\ UNCHANGED <<Quiet, files, heap, pool, dirKnown, dirLock, faults, deleted>>

\* HandleBulkAccountAction, disable or enable, also as a batch: the objects are
\* found first ...
BeginToggle(h) ==
  \E a \in Account, d \in BOOLEAN :
    Begin(h, "toggle", [NewCall EXCEPT !.kind = "toggle", !.acct = a, !.prev = d, !.pc = "resolve"])

Resolve(h) ==
  LET o == pool[call[h].acct] IN
  /\ call[h].pc = "resolve" /\ PoolFree
  /\ call' = [call EXCEPT ![h].acct = None, ![h].pc = IF o = None THEN "end" ELSE "flag",
                ![h].objs = {o} \ {None}]
  /\ UNCHANGED <<Quiet, files, heap, pool, dirKnown, dirLock, faults, deleted>>

\* ... and a worker sets the flag, keeping what it was, and saves the file.
SetFlag(h) ==
  \E o \in call[h].objs :
    /\ call[h].pc = "flag"
    /\ heap' = [heap EXCEPT ![o].disabled = call[h].prev]
    /\ call' = [call EXCEPT ![h].prev = heap[o].disabled, ![h].todo = {o}, ![h].pc = "save"]
    /\ UNCHANGED <<Quiet, files, pool, dirKnown, dirLock, faults, deleted>>

\* The file was not written: the flag as it was.
Revert(h) ==
  \E o \in call[h].objs :
    /\ call[h].pc = "revert"
    /\ heap' = [heap EXCEPT ![o].disabled = call[h].prev]
    /\ call' = [call EXCEPT ![h] = [NewCall EXCEPT !.pc = "end"]]
    /\ UNCHANGED <<Quiet, files, pool, dirKnown, dirLock, faults, deleted>>

\* RecordAuthFailure of the account of a request, outside the gate: the accounts
\* of the rejected login are collected ...
BeginReject(h) ==
  \E a \in Account :
    LET rejected == {pool[b] : b \in {c \in Account : /\ pool[c] # None /\ login[c] = login[a]
                                                      /\ heap[pool[c]].token = heap[pool[a]].token}} IN
    /\ call[h].pc = "ready" /\ "reject" \in offered /\ PoolFree
    /\ pool[a] # None
    /\ call' = [call EXCEPT ![h] = [NewCall EXCEPT !.kind = "reject", !.pc = "mark",
                  !.todo = rejected, !.objs = rejected, !.prev = dirKnown]]
    /\ UNCHANGED <<Quiet, files, heap, pool, dirKnown, dirLock, faults, deleted>>

\* ... marked one by one ...
Mark(h) ==
  \E o \in call[h].todo :
    /\ call[h].pc = "mark"
    /\ heap' = [heap EXCEPT ![o].invalid = TRUE]
    /\ call' = [call EXCEPT ![h].todo = @ \ {o}]
    /\ UNCHANGED <<Quiet, files, pool, dirKnown, dirLock, faults, deleted>>

\* ... and saved, if the pool knew its directory when they were collected.
Marked(h) ==
  /\ call[h].pc = "mark" /\ call[h].todo = {}
  /\ call' = [call EXCEPT ![h].pc = "save", ![h].todo = IF call[h].prev THEN call[h].objs ELSE {}]
  /\ UNCHANGED <<Quiet, files, heap, pool, dirKnown, dirLock, faults, deleted>>

-----------------------------------------------------------------------------
(* Backups, HandleAdminBackup.  restoreMu serialises its calls.            *)

Unmoved == <<fixed, heap, pool, dirKnown, mutations, dirLock, call, crashes, history>>

BeginDownload ==
  /\ admin.pc = "idle" /\ "download" \in offered /\ visits < MaxVisits[offered]
  /\ visits' = visits + 1
  /\ admin' = [Idle EXCEPT !.pc = "download", !.left = Listed]
  /\ UNCHANGED <<Unmoved, disk, restoring, backup, settings, faults>>

\* readBackupAccounts: the files as they are when they are read, one by one; one
\* that is gone fails the download.
ReadBackup ==
  \E n \in admin.left :
    /\ admin.pc = "download"
    /\ admin' = IF files[n] = None THEN Idle
                ELSE [admin EXCEPT !.left = @ \ {n}, !.snap[n] = files[n]]
    /\ UNCHANGED <<Unmoved, disk, restoring, backup, settings, visits, faults>>

EndDownload ==
  /\ admin.pc = "download" /\ admin.left = {}
  /\ backup' = admin.snap
  /\ admin' = Idle
  /\ UNCHANGED <<Unmoved, disk, restoring, settings, visits, faults>>

Kept == {n \in Name : backup[n] # None}

\* prepareRestoredAccounts refuses two records of one user or of one token.
Restorable ==
  \A m, n \in Kept : m # n => login[m[2]] # login[n[2]] /\ backup[m].token # backup[n].token

\* restoredAccountFilename: every account under the name made of its e-mail.
Target ==
  [n \in Name |-> IF n[1] = "email" /\ \E m \in Kept : m[2] = n[2]
                  THEN backup[CHOOSE m \in Kept : m[2] = n[2]] ELSE None]

\* handleBackupRestore: what it checks, beginAccountRestore.
BeginRestore ==
  /\ admin.pc = "idle" /\ "restore" \in offered /\ visits < MaxVisits[offered]
  /\ visits' = visits + 1
  /\ IF Restorable /\ ~ restoring /\ mutations = 0
     THEN /\ restoring' = TRUE
          /\ admin' = [Idle EXCEPT !.pc = "config", !.target = Target, !.was = settings]
     ELSE UNCHANGED <<restoring, admin>>
  /\ UNCHANGED <<Unmoved, disk, backup, settings, faults>>

EndRestore ==
  /\ admin.pc \in {"swapped", "undone"}
  /\ restoring' = FALSE
  /\ admin' = Idle
  /\ UNCHANGED <<Unmoved, disk, backup, settings, visits, faults>>

\* persistDashboardBackupSettings fails: the file is refused, as one cut off may be,
\* or written in place and then perhaps cut off.
PersistFails(fault) ==
  \/ config = "torn" /\ UNCHANGED <<config, faults>>
  \/ fault /\ config' \in {config, "torn"}

RestoreConfig ==
  /\ admin.pc = "config"
  /\ \/ /\ config' = "new"
        /\ admin' = [admin EXCEPT !.pc = "stage"]
        /\ UNCHANGED faults
     \/ /\ PersistFails(Fault)
        /\ admin' = [admin EXCEPT !.pc = "undone", !.snap = files, !.unsaved = TRUE]
  /\ UNCHANGED <<Unmoved, files, cutOff, restoring, backup, settings, visits>>

\* replaceAccountFilesAndPool: staging, snapshotRestoredAccountTargets.
StageRestore ==
  /\ admin.pc = "stage"
  /\ \/ /\ admin' = [admin EXCEPT !.pc = "clear", !.snap = files, !.left = Listed]
        /\ UNCHANGED faults
     \/ /\ Fault
        /\ admin' = [admin EXCEPT !.pc = "rewrite", !.snap = files]
  /\ UNCHANGED <<Unmoved, disk, restoring, backup, settings, visits>>

\* The accounts that were there are removed one by one.
ClearOne ==
  \E n \in admin.left :
    /\ admin.pc = "clear"
    /\ \/ /\ files' = [files EXCEPT ![n] = None]
          /\ admin' = [admin EXCEPT !.left = @ \ {n}]
          /\ UNCHANGED faults
       \/ /\ Fault
          /\ admin' = [admin EXCEPT !.pc = "undo", !.left = {}]
          /\ UNCHANGED files
    /\ UNCHANGED <<Unmoved, cutOff, config, restoring, backup, settings, visits>>

Cleared ==
  /\ admin.pc = "clear" /\ admin.left = {}
  /\ admin' = [admin EXCEPT !.pc = "move", !.left = {n \in Name : admin.target[n] # None}]
  /\ UNCHANGED <<Unmoved, disk, restoring, backup, settings, visits, faults>>

\* The staged files are renamed one by one.
MoveOne ==
  \E n \in admin.left :
    /\ admin.pc = "move"
    /\ \/ /\ files' = [files EXCEPT ![n] = admin.target[n]]
          /\ admin' = [admin EXCEPT !.left = @ \ {n}]
          /\ deleted' = deleted \ {n[2]}
          /\ UNCHANGED faults
       \/ /\ Fault
          /\ admin' = [admin EXCEPT !.pc = "undo",
               !.left = {m \in Name \ admin.left : admin.target[m] # None}]
          /\ UNCHANGED <<files, deleted>>
    /\ UNCHANGED <<fixed, heap, pool, dirKnown, mutations, dirLock, call, crashes, cutOff,
                   config, restoring, backup, settings, visits, astray>>

\* rollbackRestoreFiles: what was moved is removed; a failing removal is passed over ...
UndoOne ==
  \E n \in admin.left :
    /\ admin.pc = "undo"
    /\ \/ /\ files' = [files EXCEPT ![n] = None]
          /\ admin' = [admin EXCEPT !.left = @ \ {n}]
          /\ UNCHANGED <<faults, astray>>
       \/ /\ UndoFault
          /\ admin' = [admin EXCEPT !.left = @ \ {n}, !.lost = @ \cup {n}]
          /\ astray' = astray \cup {n[2]}
          /\ UNCHANGED files
    /\ UNCHANGED <<fixed, heap, pool, dirKnown, mutations, dirLock, call, crashes, cutOff,
                   config, restoring, backup, settings, visits, deleted>>

Undone ==
  /\ admin.pc = "undo" /\ admin.left = {}
  /\ admin' = [admin EXCEPT !.pc = "rewrite", !.left = {n \in Name : admin.snap[n] # None}]
  /\ UNCHANGED <<Unmoved, disk, restoring, backup, settings, visits, faults>>

\* ... and what was there is written back, in place; a failing write is logged, and
\* leaves what is under the name, nothing, or a file cut off.
RewriteOne ==
  \E n \in admin.left :
    /\ admin.pc = "rewrite"
    /\ \/ /\ files' = [files EXCEPT ![n] = admin.snap[n]]
          /\ admin' = [admin EXCEPT !.left = @ \ {n}, !.lost = @ \ {n}]
          /\ UNCHANGED <<faults, cutOff, astray>>
       \/ /\ UndoFault
          /\ \/ UNCHANGED <<files, cutOff>>
             \/ /\ files' = [files EXCEPT ![n] = None]
                /\ cutOff' = cutOff \cup {a \in Account : n = <<"canonical", a>>}
          /\ admin' = [admin EXCEPT !.left = @ \ {n}, !.lost = @ \cup {n}]
          /\ astray' = astray \cup {n[2]}
    /\ UNCHANGED <<fixed, heap, pool, dirKnown, mutations, dirLock, call, crashes,
                   config, restoring, backup, settings, visits, deleted>>

\* The settings from before, as the process has them, are written back too.
UndoConfig ==
  /\ admin.pc = "rewrite" /\ admin.left = {}
  /\ \/ /\ config' = admin.was
        /\ admin' = [admin EXCEPT !.pc = "undone"]
        /\ UNCHANGED faults
     \/ /\ PersistFails(UndoFault)
        /\ admin' = [admin EXCEPT !.pc = "undone", !.unsaved = TRUE]
  /\ UNCHANGED <<Unmoved, files, cutOff, restoring, backup, settings, visits>>

\* The pool is replaced; a restored account is not invalid in memory, whatever its
\* file says.  The settings take effect.
SwapPool ==
  LET s == {n[2] : n \in {m \in Name : admin.target[m] # None}}
      valid == [a \in s |-> [admin.target[<<"email", a>>] EXCEPT !.invalid = FALSE]] IN
  /\ admin.pc = "move" /\ admin.left = {}
  /\ Fill([a \in Account |-> None], s, valid)
  /\ settings' = "new"
  /\ astray' = {}
  /\ admin' = [admin EXCEPT !.pc = "swapped"]
  /\ UNCHANGED <<fixed, disk, dirKnown, gate, dirLock, call, crashes, backup, visits, faults, deleted>>

-----------------------------------------------------------------------------
\* The process ends at any point and starts again: loadStartupAccounts fills the
\* pool from the directory, up to a file it cannot read, and leaves pool.accountsDir
\* unset.
Restart ==
  LET all == {a \in Account : FilesOf(a) # {}} IN
  \E s \in SUBSET all :
    /\ crashes < MaxCrashes
    /\ crashes' = crashes + 1
    /\ Sees(s, all)
    /\ \E pick \in Picks(s) : LoadInto([a \in Account |-> None], s, pick)
    /\ astray' = {a \in all : a \notin s \/ Cardinality(FilesOf(a)) > 1}
    /\ dirKnown' = FALSE /\ mutations' = 0 /\ restoring' = FALSE /\ dirLock' = None
    /\ call' = [h \in Handler |-> IF call[h].pc = "ready" THEN call[h] ELSE [NewCall EXCEPT !.pc = "done"]]
    /\ admin' = Idle
    /\ settings' = IF config = "torn" THEN "other" ELSE config
    /\ UNCHANGED <<fixed, disk, backup, visits, deleted>>

-----------------------------------------------------------------------------
\* The process has just started on some files; a backup was taken earlier.
Init ==
  /\ offered \in Scenarios
  /\ login \in Logins
  /\ \E s \in SUBSET Account, other \in [Account -> Token] :
     LET token == [a \in Account |-> CHOOSE t \in Token : login[t] = login[a]] IN
       /\ \A a \in Account : IF "restore" \in offered THEN login[other[a]] = login[a]
                                                      ELSE other[a] = token[a]
       /\ files = [n \in Name |-> IF n[1] = "canonical" /\ n[2] \in s
                     THEN [token |-> token[n[2]], disabled |-> FALSE, invalid |-> FALSE] ELSE None]
       /\ backup = [n \in Name |-> IF n[1] = "canonical"
                     THEN [token |-> other[n[2]], disabled |-> FALSE, invalid |-> FALSE] ELSE None]
       /\ Places(s, Obj) # {}
       /\ \E at \in {CHOOSE f \in Places(s, Obj) : TRUE} :
            /\ pool = [a \in Account |-> IF a \in s THEN at[a] ELSE None]
            /\ heap = [o \in Obj |-> IF \E a \in s : at[a] = o
                         THEN LET a == CHOOSE b \in s : at[b] = o IN
                              [acct |-> a, token |-> token[a], disabled |-> FALSE, invalid |-> FALSE]
                         ELSE None]
  /\ dirKnown = FALSE /\ mutations = 0 /\ restoring = FALSE /\ dirLock = None
  /\ call = [h \in Handler |-> NewCall]
  /\ admin = Idle
  /\ config = "old" /\ settings = "old"
  /\ faults = 0 /\ crashes = 0 /\ visits = 0
  /\ deleted = {} /\ astray = {} /\ cutOff = {}

Start(h) ==
  BeginImport(h) \/ BeginDelete(h) \/ BeginRefresh(h) \/ BeginToggle(h) \/ BeginReject(h)

Continue(h) ==
  \/ SkipImport(h) \/ SaveImport(h) \/ LoadActive(h) \/ AddActive(h) \/ NothingToImport(h)
  \/ Reload(h) \/ ReadListed(h) \/ AddListed(h) \/ EndReload(h)
  \/ FindDeleted(h) \/ EraseFile(h) \/ DeleteFile(h) \/ DropDeleted(h)
  \/ SnapshotPool(h) \/ Resolve(h) \/ SetFlag(h) \/ Revert(h)
  \/ ReadSaved(h) \/ WriteSaved(h) \/ SavedAll(h)
  \/ Mark(h) \/ Marked(h) \/ EndCall(h)

Backup ==
  \/ BeginDownload \/ ReadBackup \/ EndDownload
  \/ BeginRestore \/ RestoreConfig \/ StageRestore \/ ClearOne \/ Cleared \/ MoveOne
  \/ UndoOne \/ Undone \/ RewriteOne \/ UndoConfig \/ SwapPool \/ EndRestore

Next == (\E h \in Handler : Start(h) \/ Continue(h)) \/ Backup \/ Restart

Spec == Init /\ [][Next]_vars

-----------------------------------------------------------------------------
(* Properties.                                                             *)

\* Every variable keeps its type; a handler that holds the directory lock is at
\* a point where the code holds it.
TypeOK ==
  /\ offered \in Scenarios /\ login \in Logins
  /\ files \in [Name -> Record \cup {None}]
  /\ backup \in [Name -> Record \cup {None}]
  /\ heap \in [Obj -> Object \cup {None}]
  /\ pool \in [Account -> Obj \cup {None}]
  /\ dirKnown \in BOOLEAN /\ mutations \in Nat /\ restoring \in BOOLEAN
  /\ dirLock \in Handler \cup {None}
  /\ \A h \in Handler : dirLock = h <=> call[h].pc \in {"add", "drop", "write"}
  /\ config \in Setting \cup {"torn"} /\ settings \in Setting
  /\ deleted \in SUBSET Account /\ astray \in SUBSET Account /\ cutOff \in SUBSET Account

\* "A concurrent delete must never be undone by a stale SaveAccounts snapshot",
\* nor by a late activation, a reload, a rejected login or a restart: an account
\* whose deletion was answered has no file and is not in the pool until it is
\* imported or restored again.  A deletion by e-mail does not wait for a reload, which
\* puts back in the pool what it has read of the removed file.
DeletedStaysDeleted ==
  \A a \in deleted : FilesOf(a) = {} /\ (pool[a] = None \/ {"register", "erase"} \subseteq offered)

Quiescent == admin.pc = "idle" /\ \A h \in Handler : call[h].pc \in {"ready", "done"}

\* Between calls the pool is what a restart would load: every account of the pool
\* has exactly one file, and every file is in the pool, whatever writes and removals
\* have failed or were interrupted; both have the same token.  Excluded are the
\* accounts with a file that could not be read when they were saved, activated, reloaded
\* or loaded at the start, or whose part of a rollback has failed; and the two cases where
\* the code does not care: the synchronous registration of an account the pool knows
\* renews its file only, and a deletion by e-mail of an account the pool does not know
\* removes its file only.
PoolIsOnDisk ==
  Quiescent =>
    \A a \in Account \ astray :
      /\ pool[a] = None => FilesOf(a) = {}
      /\ pool[a] # None => /\ Cardinality(FilesOf(a)) = 1 \/ "erase" \in offered
                           /\ "register" \in offered \/
                                \A n \in FilesOf(a) : files[n].token = heap[pool[a]].token

\* Between calls the switch of an account in memory is the one of its file, however
\* two administrators, a refresh and a rejected login overlap; a failing write, or an
\* account replaced under the handler, are excluded, where the code gives this up.
SwitchIsOnDisk ==
  Quiescent /\ faults = 0 /\ offered \cap {"import", "register"} = {} =>
    \A a \in Account : pool[a] # None =>
      \A n \in FilesOf(a) : files[n].disabled = heap[pool[a]].disabled

\* When a restore has succeeded the files, the pool and the settings are those of the
\* backup.  When it has failed the settings in memory are those from before, and so is
\* every file, and the file of the settings, that the rollback could handle: a failing
\* step loses its own file only.
RestoreIsExact ==
  /\ admin.pc = "swapped" =>
       /\ files = admin.target /\ config = "new" /\ settings = "new"
       /\ \A a \in Account : IF FilesOf(a) = {} THEN pool[a] = None
                             ELSE \A n \in FilesOf(a) : Has(a, files[n].token)
  /\ admin.pc = "undone" =>
       /\ \A n \in Name \ admin.lost : files[n] = admin.snap[n]
       /\ settings = admin.was /\ (admin.unsaved \/ config = settings)

\* A deleted account is not in the pool, whatever reload was under way.
DeletedNotInPool == \A a \in deleted : pool[a] = None

\* Between calls every account of the pool has a file.
PoolHasFiles ==
  Quiescent => \A a \in Account : pool[a] # None => FilesOf(a) # {}

\* "The state is persisted per workspace so a service restart cannot resurrect the
\* login": between calls an account invalid in memory is invalid in its file.
InvalidIsOnDisk ==
  Quiescent => \A a \in Account : pool[a] # None /\ heap[pool[a]].invalid =>
    \A n \in FilesOf(a) : files[n].invalid

=============================================================================
