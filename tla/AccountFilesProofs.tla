------------------------- MODULE AccountFilesProofs -------------------------
(***************************************************************************)
(* Proofs about AccountFiles, for any number of accounts, tokens, calls,   *)
(* failing file operations, visits of the backup handler and restarts.     *)
(*                                                                         *)
(* Types gives every local its type, by position; Gate counts the calls    *)
(* that entered the maintenance gate; Lone keeps reloads, which hold the   *)
(* lock of the pool, apart.  On top of them                                *)
(*   - Deletions: nobody is about to bring a deleted account back, but for *)
(*     a reload that a deletion by e-mail overlaps;                        *)
(*   - Settings, Restored: how far a restore and its rollback have come,   *)
(*     and what the rollback has lost;                                     *)
(*   - Sync: where pool and files differ, a call is about to change that,  *)
(*     or the account is astray; what a call has read under the directory  *)
(*     lock is still there; what a rollback has lost is astray (Strays);   *)
(*   - Unharmed: nothing is astray unless a file operation has failed;     *)
(*   - Switches: where a switch differs from the one of its file, a call   *)
(*     is about to save it.                                                *)
(* Disk is what Sync and Switches say of the files while a restore moves   *)
(* them: the files as they will be should it fail and all its rollback     *)
(* succeed; what does not succeed is astray.                               *)
(*                                                                         *)
(* RecordAuthFailure enters no gate, so a rejected login may save a file   *)
(* in the middle of a restore: RestoreIsExact fails then, as               *)
(* MCFilesReject.cfg shows.  Apart, that the scenario does not have both,  *)
(* is a hypothesis of the theorems about restores, the pool and the        *)
(* switches.  The deletions need none; DeletedStaysDeleted itself leaves   *)
(* out the pool where registrations and deletions by e-mail come together, *)
(* as MCFilesErase.cfg shows it must.                                      *)
(*                                                                         *)
(* The actions have a lemma each that says what they do (SaveEffect, ...), *)
(* which the invariants share.                                             *)
(***************************************************************************)
EXTENDS AccountFiles, FiniteSetTheorems, TLAPS
-----------------------------------------------------------------------------
(* Files and objects.                                                      *)

\* The files of an account are at most two, so they can be counted.
LEMMA FilesAreFinite ==
  ASSUME NEW a \in Account
  PROVE  IsFiniteSet(FilesOf(a)) /\ Cardinality(FilesOf(a)) \in Nat
<1>1. IsFiniteSet({<<"canonical", a>>} \cup {<<"email", a>>})
  BY FS_Singleton, FS_AddElement
<1>2. FilesOf(a) \subseteq {<<"canonical", a>>} \cup {<<"email", a>>} BY DEF FilesOf, Name
<1>3. QED BY <1>1, <1>2, FS_Subset, FS_CardinalityType

\* What the number of the files of an account says.
LEMMA FilesCounted ==
  ASSUME NEW a \in Account
  PROVE  /\ Cardinality(FilesOf(a)) = 1 <=> \E n \in Name : FilesOf(a) = {n}
         /\ Cardinality(FilesOf(a)) = 1 =>
              /\ (CHOOSE n \in FilesOf(a) : TRUE) \in Name
              /\ FilesOf(a) = {CHOOSE n \in FilesOf(a) : TRUE}
              /\ (CHOOSE n \in FilesOf(a) : TRUE)[2] = a
              /\ files[CHOOSE n \in FilesOf(a) : TRUE] # None
<1>1. Cardinality(FilesOf(a)) = 1 <=> \E x : FilesOf(a) = {x} BY FilesAreFinite, FS_Singleton
<1>2. FilesOf(a) \subseteq Name BY DEF FilesOf
<1>3. Cardinality(FilesOf(a)) = 1 <=> \E n \in Name : FilesOf(a) = {n} BY <1>1, <1>2
<1>4. ASSUME NEW n \in Name, FilesOf(a) = {n}
      PROVE  (CHOOSE m \in FilesOf(a) : TRUE) = n
  BY <1>4
<1>5. ASSUME NEW n \in Name, FilesOf(a) = {n}
      PROVE  n[2] = a /\ files[n] # None
  BY <1>5 DEF FilesOf
<1>6. QED BY <1>3, <1>4, <1>5

\* The new objects of Fill are new, and the others are what they were.
LEMMA FillEffect ==
  ASSUME NEW p \in [Account -> Obj \cup {None}], NEW s \in SUBSET Account, NEW r \in [s -> Record],
         heap \in [Obj -> Object \cup {None}],
         Fill(p, s, r)
  PROVE  /\ pool' \in [Account -> Obj \cup {None}]
         /\ heap' \in [Obj -> Object \cup {None}]
         /\ \A a \in s : /\ pool'[a] \in Obj \ Used
                         /\ heap'[pool'[a]] = [acct |-> a, token |-> r[a].token,
                              disabled |-> r[a].disabled, invalid |-> r[a].invalid]
         /\ \A a \in Account \ s : pool'[a] = p[a]
         /\ \A o \in Obj : o \in Used => heap'[o] = heap[o]
<1> DEFINE at == CHOOSE f \in Places(s, Obj \ Used) : TRUE
           of(o) == CHOOSE a \in s : at[a] = o
<1>1. at \in Places(s, Obj \ Used) BY DEF Fill
<1>2. /\ pool' = [a \in Account |-> IF a \in s THEN at[a] ELSE p[a]]
      /\ heap' = [o \in Obj |-> IF \E a \in s : at[a] = o
                     THEN [acct |-> of(o), token |-> r[of(o)].token,
                           disabled |-> r[of(o)].disabled, invalid |-> r[of(o)].invalid]
                     ELSE IF o \in Used THEN heap[o] ELSE None]
  BY DEF Fill
<1> HIDE DEF at
<1>3. at \in [s -> Obj \ Used] /\ \A a, b \in s : a # b => at[a] # at[b] BY <1>1 DEF Places
<1>4. ASSUME NEW a \in s PROVE of(at[a]) = a
  <2>1. \E b \in s : at[b] = at[a] OBVIOUS
  <2>2. of(at[a]) \in s /\ at[of(at[a])] = at[a] BY <2>1
  <2>3. QED BY <1>3, <2>2
<1>5. ASSUME NEW o \in Obj, \E a \in s : at[a] = o PROVE of(o) \in s
  BY <1>5
<1> HIDE DEF of
<1>6. ASSUME NEW a \in s
      PROVE  [acct |-> a, token |-> r[a].token, disabled |-> r[a].disabled,
              invalid |-> r[a].invalid] \in Object
  <2>1. r[a] \in Record OBVIOUS
  <2>2. QED BY <2>1 DEF Record, Object
<1>7. heap' \in [Obj -> Object \cup {None}]
  <2> SUFFICES ASSUME NEW o \in Obj
               PROVE  (IF \E a \in s : at[a] = o
                       THEN [acct |-> of(o), token |-> r[of(o)].token,
                             disabled |-> r[of(o)].disabled, invalid |-> r[of(o)].invalid]
                       ELSE IF o \in Used THEN heap[o] ELSE None) \in Object \cup {None}
    BY <1>2
  <2>1. QED BY <1>5, <1>6
<1>8. pool' \in [Account -> Obj \cup {None}] BY <1>2, <1>3
<1>9. ASSUME NEW a \in s
      PROVE  /\ pool'[a] \in Obj \ Used
             /\ heap'[pool'[a]] = [acct |-> a, token |-> r[a].token,
                  disabled |-> r[a].disabled, invalid |-> r[a].invalid]
  <2>1. pool'[a] = at[a] /\ at[a] \in Obj \ Used BY <1>2, <1>3
  <2>2. heap'[at[a]] = [acct |-> of(at[a]), token |-> r[of(at[a])].token,
           disabled |-> r[of(at[a])].disabled, invalid |-> r[of(at[a])].invalid]
    BY <1>2, <2>1
  <2>3. QED BY <1>4, <2>1, <2>2
<1>10. \A a \in Account \ s : pool'[a] = p[a] BY <1>2
<1>11. ASSUME NEW o \in Obj, o \in Used PROVE heap'[o] = heap[o]
  <2>1. ~ \E a \in s : at[a] = o BY <1>3, <1>11
  <2>2. QED BY <1>2, <1>11, <2>1
<1>12. QED BY <1>7, <1>8, <1>9, <1>10, <1>11

\* The one file that can be read among those of an account is one of them.
LEMMA OneRead ==
  ASSUME NEW a \in Account, NEW s \in SUBSET FilesOf(a), Cardinality(s) = 1
  PROVE  (CHOOSE n \in s : TRUE) \in FilesOf(a)
<1>1. IsFiniteSet(s) BY FilesAreFinite, FS_Subset
<1>2. PICK x : s = {x} BY <1>1, FS_Singleton
<1>3. QED BY <1>2

-----------------------------------------------------------------------------
(* The invariants.                                                         *)

Pcs == {"ready", "done", "end", "import", "activate", "add", "reload", "list", "listed", "find",
        "remove", "drop", "erase", "snapshot", "save", "write", "resolve", "flag", "revert", "mark"}
CallType ==
  [kind : Kinds \cup {None}, pc : Pcs, todo : SUBSET (Account \cup Obj \cup Name), objs : SUBSET Obj,
   acct : Account \cup Name \cup {None}, token : Token \cup {None}, prev : BOOLEAN,
   read : Record \cup {None}]
Locked == {"add", "drop", "write"}

\* The locals of a handler have the type that its position calls for.
CallOK(c) ==
  /\ c \in CallType
  /\ c.kind \in offered \cup {None}
  /\ c.pc = "import" => c.todo \subseteq Account /\ c.kind \in {"import", "register"}
  /\ c.pc \in {"import", "activate", "add", "reload"} => c.token \in Token
  /\ c.pc \in {"activate", "add"} => c.kind = "import" /\ c.todo \subseteq Account
  /\ c.pc \in {"reload", "list", "listed"} => c.kind = "register"
  /\ c.pc \in {"list", "listed"} => c.todo \subseteq Name
  /\ c.pc = "erase" => c.kind = "erase"
  /\ c.pc \in {"activate", "add", "reload", "listed", "find", "remove", "drop", "erase", "resolve"} =>
       c.acct \in Account
  /\ c.pc \in {"add", "listed"} => c.read \in Record
  /\ c.pc \in {"save", "write", "mark"} => c.todo \subseteq c.objs
  /\ c.pc = "write" => c.acct \in Name /\ c.read \in Record
  /\ c.kind = "reject" => c.pc \in {"mark", "save", "write"}

\* The objects somebody points to exist, those of the pool are of their account.
HeapOK ==
  /\ \A o \in Used : heap[o] \in Object
  /\ \A a \in Account : pool[a] # None => heap[pool[a]].acct = a

Restores == {"config", "stage", "clear", "move", "undo", "rewrite", "undone", "swapped"}
AdminType ==
  [pc : Restores \cup {"idle", "download"}, left : SUBSET Name,
   snap : [Name -> Record \cup {None}], target : [Name -> Record \cup {None}], was : Setting,
   lost : SUBSET Name, unsaved : BOOLEAN]
AdminOK ==
  /\ admin \in AdminType
  /\ \A n \in Name : n[1] # "email" => admin.target[n] = None

Types ==
  /\ TypeOK
  /\ call \in [Handler -> CallType]
  /\ \A h \in Handler : CallOK(call[h])
  /\ HeapOK
  /\ AdminOK

\* The handlers that entered the gate are counted, a restore runs alone among them.
Gated == {h \in Handler : call[h].pc \notin {"ready", "done"} /\ call[h].kind # "reject"}
Gate ==
  /\ mutations = Cardinality(Gated)
  /\ restoring <=> admin.pc \in Restores
  /\ restoring => Gated = {} /\ "restore" \in offered

\* A reload keeps the lock of the pool; what it has read is not in the pool yet.
Lone ==
  /\ \A g, h \in Handler :
       call[g].pc \in {"list", "listed"} /\ call[h].pc \in {"list", "listed"} => g = h
  /\ \A h \in Handler : call[h].pc = "listed" => pool[call[h].acct] = None

\* A deleted account has no file and is not in the pool, a deletion by e-mail during a
\* reload excepted ...
Overlap == {"register", "erase"} \subseteq offered
Gone ==
  \A a \in deleted : /\ pool[a] = None \/ Overlap
                     /\ \A n \in Name : n[2] = a => files[n] = None

\* ... no handler is about to bring one back, and what a deletion found in the pool is
\* still what it will drop ...
Harmless(h) ==
  /\ call[h].pc = "add" => call[h].acct \notin deleted
  /\ call[h].pc = "listed" => call[h].acct \notin deleted \/ Overlap
  /\ call[h].pc = "write" => call[h].acct[2] \notin deleted
  /\ call[h].pc = "drop" =>
       /\ Has(call[h].acct, call[h].token)
       /\ \A n \in Name : n[2] = call[h].acct => files[n] = None

\* ... and neither does a restore, nor its rollback.
Spared ==
  /\ admin.pc \in {"clear", "move", "undo", "rewrite"} =>
       \A n \in Name : admin.snap[n] # None => n[2] \notin deleted
  /\ admin.pc = "move" =>
       \A n \in Name \ admin.left : admin.target[n] # None => n[2] \notin deleted

Deletions == Gone /\ Spared /\ \A h \in Handler : Harmless(h)

\* A rejected login enters no gate.
Apart == ~ ({"reject", "restore"} \subseteq offered)

\* What a restore has done so far: config, settings.
Settings ==
  /\ admin.pc \in Restores \ {"swapped"} => settings = admin.was
  /\ admin.pc = "undone" => admin.unsaved \/ config = admin.was
  /\ admin.pc \in {"stage", "clear", "move", "swapped"} => config = "new"
  /\ admin.pc = "swapped" => settings = "new"

\* ... and the files, those lost in the rollback apart.
Restored ==
  /\ admin.pc \in {"config", "stage"} => admin.left = {}
  /\ admin.pc \in {"config", "stage", "clear", "move"} => admin.lost = {}
  /\ admin.pc = "clear" => \A n \in Name : files[n] = IF n \in admin.left THEN admin.snap[n] ELSE None
  /\ admin.pc = "move" => \A n \in Name : files[n] = IF n \in admin.left THEN None ELSE admin.target[n]
  /\ admin.pc = "undo" =>
       \/ \A n \in Name \ admin.lost :
            files[n] = IF n \in admin.left THEN admin.target[n] ELSE None
       \/ /\ admin.left = {} /\ admin.lost = {}
          /\ \A n \in Name : files[n] # None => files[n] = admin.snap[n]
  /\ admin.pc = "rewrite" =>
       \A n \in Name \ admin.lost :
         files[n] # admin.snap[n] => n \in admin.left /\ files[n] = None
  /\ admin.pc = "undone" => \A n \in Name \ admin.lost : files[n] = admin.snap[n]
  /\ admin.pc = "swapped" =>
       /\ files = admin.target
       /\ \A a \in Account : IF admin.target[<<"email", a>>] = None THEN pool[a] = None
                             ELSE Has(a, admin.target[<<"email", a>>].token)

\* The files, as they will be should the restore fail.
Disk == IF admin.pc \in {"clear", "move", "undo", "rewrite"} THEN admin.snap ELSE files
At(a, pcs) == \E h \in Handler : call[h].pc \in pcs /\ call[h].acct = a

\* A reload will list the file n, or has it on its list.
Listing(n) ==
  \E h \in Handler : \/ call[h].pc = "reload"
                     \/ call[h].pc \in {"list", "listed"} /\ n \in call[h].todo

\* An account has one file.  Where pool and files differ, a call is about to change that,
\* or the account is astray.
OneFile ==
  \A m, n \in Name : m[2] \notin astray /\ m[2] = n[2] /\ Disk[m] # None /\ Disk[n] # None => m = n
FilesInPool ==
  \A n \in Name : n[2] \notin astray /\ Disk[n] # None /\ pool[n[2]] = None =>
    At(n[2], {"activate", "add", "listed"}) \/ Listing(n)
PoolInFiles ==
  \A a \in Account \ astray : pool[a] # None /\ (\A n \in Name : n[2] = a => Disk[n] = None) =>
    "erase" \in offered \/ At(a, {"drop"})
SameTokens ==
  \A n \in Name : n[2] \notin astray /\ Disk[n] # None /\ pool[n[2]] # None =>
    \/ Disk[n].token = heap[pool[n[2]]].token
    \/ "register" \in offered \/ At(n[2], {"activate", "add"})
\* What a call has read under the directory lock is still there; so is what a reload has
\* read, unless a deletion by e-mail removes it.
ReadIsThere(h) ==
  /\ call[h].pc = "add" => \E n \in Name : n[2] = call[h].acct /\ files[n] = call[h].read
  /\ call[h].pc = "listed" =>
       "erase" \in offered \/ \E n \in Name : n[2] = call[h].acct /\ files[n] # None
  /\ call[h].pc = "write" => /\ files[call[h].acct] # None
                             /\ files[call[h].acct].token = call[h].read.token
\* What a rollback has lost is astray.
Strays == admin.pc \in Restores => \A n \in admin.lost : n[2] \in astray

Sync ==
  /\ OneFile /\ FilesInPool /\ PoolInFiles /\ SameTokens
  /\ \A h \in Handler : ReadIsThere(h)
  /\ Strays

\* Nothing is astray while no file operation has failed.
Unharmed == faults \in Nat /\ (faults = 0 => astray = {})

\* No write has failed, no import replaces an account.
Calm == faults = 0 /\ offered \cap {"import", "register"} = {}

\* The calls that write the file n, and those that are yet to save the object o.
Writing(n) == \E h \in Handler : call[h].pc = "write" /\ call[h].acct = n
Saving(o) == \E h \in Handler : call[h].pc \in {"save", "write"} /\ o \in call[h].todo

\* Where the switch of a file is not the one of the object, a call is about to save it,
\* and what a call is about to write is up to date or will be saved again.
SwitchSaved ==
  \A n \in Name : Disk[n] # None /\ pool[n[2]] # None /\ ~ Saving(pool[n[2]]) =>
    /\ Disk[n].disabled = heap[pool[n[2]]].disabled \/ Writing(n)
    /\ \A h \in Handler : call[h].pc = "write" /\ call[h].acct = n =>
         call[h].read.disabled = heap[pool[n[2]]].disabled

\* The objects of a call are those of the pool, or their accounts have left it; a flag is
\* put back only when the file is gone.
StillThere(h) ==
  call[h].pc \notin {"ready", "done"} => \A o \in call[h].objs :
    /\ pool[heap[o].acct] \in {o, None}
    /\ call[h].pc = "revert" => \A n \in Name : n[2] = heap[o].acct => Disk[n] = None
Switches == SwitchSaved /\ \A h \in Handler : StillThere(h)

\* A call that sets a switch has one object.
OneObject(h) ==
  /\ call[h].pc = "snapshot" => call[h].kind # "toggle"
  /\ call[h].kind = "toggle" => \A o, p \in call[h].objs : o = p
-----------------------------------------------------------------------------
(* Types.                                                                  *)

\* The call that has not begun, and the one that is over.
LEMMA IdleCalls ==
  ASSUME Types
  PROVE  /\ CallOK(NewCall)
         /\ CallOK([NewCall EXCEPT !.pc = "done"])
         /\ CallOK([NewCall EXCEPT !.pc = "end"])
         /\ NewCall.objs = {}
  BY FilesAssumption DEF NewCall, CallOK, CallType, Pcs, Kinds

\* The accounts set apart, and those with a file cut off.
Marks == astray \in SUBSET Account /\ cutOff \in SUBSET Account

\* Objects that are pointed to stay objects of their account, when the pool stays.
LEMMA HeapKept ==
  ASSUME Types, pool' = pool,
         \A o \in Obj : o \in Used => heap'[o] \in Object /\ heap'[o].acct = heap[o].acct,
         \A g \in Handler : call'[g].objs \subseteq call[g].objs \cup InPool
  PROVE  HeapOK'
<1>1. InPool' = InPool BY DEF InPool
<1>2. Used' \subseteq Used BY <1>1 DEF Used
<1>3. Used \subseteq Obj BY DEF Used, InPool, Types, CallOK, CallType
<1>4. \A a \in Account : pool[a] # None => pool[a] \in Used /\ pool[a] \in Obj
  BY DEF Used, InPool, Types, TypeOK
<1>5. QED BY <1>2, <1>3, <1>4 DEF HeapOK, Types

\* So they do when the pool is filled.
LEMMA HeapFilled ==
  ASSUME Types, NEW p \in [Account -> Obj \cup {None}], NEW s \in SUBSET Account,
         NEW r \in [s -> Record],
         \A a \in Account \ s : p[a] = pool[a] \/ p[a] = None,
         Fill(p, s, r),
         \A g \in Handler : call'[g].objs \subseteq call[g].objs
  PROVE  /\ HeapOK'
         /\ pool' \in [Account -> Obj \cup {None}]
         /\ heap' \in [Obj -> Object \cup {None}]
<1>1. /\ pool' \in [Account -> Obj \cup {None}]
      /\ heap' \in [Obj -> Object \cup {None}]
      /\ \A a \in s : /\ pool'[a] \in Obj \ Used
                      /\ heap'[pool'[a]] = [acct |-> a, token |-> r[a].token,
                           disabled |-> r[a].disabled, invalid |-> r[a].invalid]
      /\ \A a \in Account \ s : pool'[a] = p[a]
      /\ \A o \in Obj : o \in Used => heap'[o] = heap[o]
  BY FillEffect DEF Types, TypeOK
<1>2. Used \subseteq Obj /\ \A o \in Used : heap[o] \in Object
  BY DEF Used, InPool, Types, CallOK, CallType, HeapOK
<1>3. ASSUME NEW a \in Account, pool'[a] # None
      PROVE  heap'[pool'[a]] \in Object /\ heap'[pool'[a]].acct = a
  <2>1. CASE a \in s
    <3>1. r[a] \in Record BY <2>1
    <3>2. heap'[pool'[a]] = [acct |-> a, token |-> r[a].token,
             disabled |-> r[a].disabled, invalid |-> r[a].invalid]
      BY <1>1, <2>1
    <3>3. QED BY <3>1, <3>2 DEF Record, Object
  <2>2. CASE a \notin s
    <3>1. pool'[a] = pool[a] /\ pool[a] # None BY <1>1, <1>3, <2>2
    <3>2. pool[a] \in Used BY <3>1 DEF Used, InPool, Types, TypeOK
    <3>3. QED BY <1>1, <1>2, <3>1, <3>2 DEF Types, HeapOK
  <2>3. QED BY <2>1, <2>2
<1>4. ASSUME NEW o \in Used' PROVE heap'[o] \in Object
  <2>1. CASE \E a \in Account : pool'[a] = o
    <3>1. PICK a \in Account : pool'[a] = o BY <2>1
    <3>2. o \in Obj BY <1>4 DEF Used, InPool, Types, CallOK, CallType
    <3>3. o # None BY <3>2, FilesAssumption
    <3>4. QED BY <1>3, <3>1, <3>3
  <2>2. CASE \E g \in Handler : o \in call'[g].objs
    <3>1. o \in Used BY <2>2 DEF Used
    <3>2. QED BY <1>1, <1>2, <3>1
  <2>3. QED BY <1>4, <2>1, <2>2 DEF Used, InPool
<1>5. QED BY <1>1, <1>3, <1>4 DEF HeapOK

\* A handler's step keeps the types when it leaves itself and what it changes in order.
LEMMA TypesByCall ==
  ASSUME Types, Marks', NEW h \in Handler,
         UNCHANGED <<fixed, config, backups, restoring>>,
         call' = [call EXCEPT ![h] = call'[h]], CallOK(call'[h]),
         files' \in [Name -> Record \cup {None}],
         heap' \in [Obj -> Object \cup {None}],
         pool' \in [Account -> Obj \cup {None}],
         dirKnown' \in BOOLEAN, mutations' \in Nat,
         call'[h].pc \in Locked => dirLock' = h /\ dirLock \in {h, None},
         call'[h].pc \notin Locked => dirLock' = IF dirLock = h THEN None ELSE dirLock,
         deleted' \in SUBSET Account,
         HeapOK'
  PROVE  Types'
<1>1. call' \in [Handler -> CallType] BY DEF Types, CallOK
<1>2. \A g \in Handler \ {h} : call'[g] = call[g] BY DEF Types
<1>3. \A g \in Handler : CallOK(call[g])' BY <1>2 DEF Types, CallOK, fixed
<1>4. None \notin Handler BY FilesAssumption
<1>5. \A g \in Handler : dirLock' = g <=> call'[g].pc \in {"add", "drop", "write"}
  <2>1. \A g \in Handler : dirLock = g <=> call[g].pc \in {"add", "drop", "write"}
    BY DEF Types, TypeOK
  <2>2. QED BY <1>2, <1>4, <2>1 DEF Locked
<1>6. dirLock' \in Handler \cup {None} BY DEF Types, TypeOK
<1>7. AdminOK' BY DEF Types, AdminOK, AdminType, backups, fixed
<1>8. TypeOK' BY <1>5, <1>6 DEF Types, TypeOK, Marks, fixed, backups
<1>9. QED BY <1>1, <1>3, <1>7, <1>8 DEF Types

\* A step that changes nothing but the call.
LEMMA TypesByCallOnly ==
  ASSUME Types, Marks', NEW h \in Handler,
         UNCHANGED <<fixed, config, backups, restoring, files, heap, pool, dirKnown, dirLock, deleted>>,
         mutations' \in Nat,
         call' = [call EXCEPT ![h] = call'[h]], CallOK(call'[h]),
         call'[h].objs \subseteq call[h].objs \cup InPool,
         call[h].pc \notin Locked, call'[h].pc \notin Locked
  PROVE  Types'
<1>1. \A g \in Handler : call'[g].objs \subseteq call[g].objs \cup InPool BY DEF Types
<1>2. \A o \in Obj : o \in Used => heap'[o] \in Object /\ heap'[o].acct = heap[o].acct
  BY DEF Types, HeapOK
<1>3. HeapOK' BY <1>1, <1>2, HeapKept
<1>4. dirLock # h BY DEF Types, TypeOK, Locked
<1>5. QED BY <1>3, <1>4, TypesByCall DEF Types, TypeOK

\* A handler that enters the gate, or is refused.
LEMMA BeginTypes ==
  ASSUME Types, Marks', NEW h \in Handler, NEW kind, NEW c, Begin(h, kind, c),
         CallOK(c), c.objs = {}, c.pc \notin Locked
  PROVE  Types'
<1>1. /\ CallOK([NewCall EXCEPT !.pc = "done"])
      /\ [NewCall EXCEPT !.pc = "done"].pc = "done"
      /\ [NewCall EXCEPT !.pc = "done"].objs = {}
  BY IdleCalls DEF NewCall
<1>2. /\ UNCHANGED <<fixed, config, backups, restoring, files, heap, pool, dirKnown, dirLock, deleted>>
      /\ call[h].pc = "ready"
  BY DEF Begin, disk, history
<1>3. \E d \in {c, [NewCall EXCEPT !.pc = "done"]} :
        call' = [call EXCEPT ![h] = d] /\ (mutations' = mutations \/ mutations' = mutations + 1)
  BY DEF Begin, Done
<1>4. mutations' \in Nat BY <1>3 DEF Types, TypeOK
<1>5. PICK d \in {c, [NewCall EXCEPT !.pc = "done"]} : call' = [call EXCEPT ![h] = d] BY <1>3
<1>6. CallOK(d) /\ d.pc \notin Locked /\ d.objs = {} BY <1>1, <1>5 DEF Locked
<1>7. call'[h] = d /\ call' = [call EXCEPT ![h] = call'[h]] BY <1>5 DEF Types
<1>8. QED BY <1>2, <1>4, <1>6, <1>7, TypesByCallOnly DEF Locked

\* The first step of a call.
LEMMA StartTypes ==
  ASSUME Types, Marks', NEW h \in Handler, Start(h)
  PROVE  Types'
<1>1. CASE BeginImport(h)
  <2>1. PICK t \in Token, s \in SUBSET Account \ {{}}, kind \in {"import", "register"} :
          Begin(h, kind, [NewCall EXCEPT !.kind = kind, !.pc = "import", !.todo = s, !.token = t])
    BY <1>1 DEF BeginImport
  <2> DEFINE c == [NewCall EXCEPT !.kind = kind, !.pc = "import", !.todo = s, !.token = t]
  <2>2. kind \in offered BY <2>1 DEF Begin
  <2>3. CallOK(c) /\ c.objs = {} /\ c.pc \notin Locked
    BY <2>2, FilesAssumption DEF CallOK, CallType, NewCall, Kinds, Pcs, Locked
  <2>4. QED BY <2>1, <2>3, BeginTypes
<1>2. CASE BeginDelete(h)
  <2>1. PICK a \in Account, kind \in {"delete", "erase"} :
          Begin(h, kind, [NewCall EXCEPT !.kind = kind, !.pc = "find", !.acct = a])
    BY <1>2 DEF BeginDelete
  <2> DEFINE c == [NewCall EXCEPT !.kind = kind, !.pc = "find", !.acct = a]
  <2>2. kind \in offered BY <2>1 DEF Begin
  <2>3. CallOK(c) /\ c.objs = {} /\ c.pc \notin Locked
    BY <2>2, FilesAssumption DEF CallOK, CallType, NewCall, Kinds, Pcs, Locked
  <2>4. QED BY <2>1, <2>3, BeginTypes
<1>3. CASE BeginRefresh(h)
  <2> DEFINE c == [NewCall EXCEPT !.kind = "refresh", !.pc = "snapshot"]
  <2>1. Begin(h, "refresh", c) BY <1>3 DEF BeginRefresh
  <2>2. "refresh" \in offered BY <2>1 DEF Begin
  <2>3. CallOK(c) /\ c.objs = {} /\ c.pc \notin Locked
    BY <2>2, FilesAssumption DEF CallOK, CallType, NewCall, Kinds, Pcs, Locked
  <2>4. QED BY <2>1, <2>3, BeginTypes
<1>4. CASE BeginToggle(h)
  <2>1. PICK a \in Account, d \in BOOLEAN :
          Begin(h, "toggle", [NewCall EXCEPT !.kind = "toggle", !.acct = a, !.prev = d, !.pc = "resolve"])
    BY <1>4 DEF BeginToggle
  <2> DEFINE c == [NewCall EXCEPT !.kind = "toggle", !.acct = a, !.prev = d, !.pc = "resolve"]
  <2>2. "toggle" \in offered BY <2>1 DEF Begin
  <2>3. CallOK(c) /\ c.objs = {} /\ c.pc \notin Locked
    BY <2>2, FilesAssumption DEF CallOK, CallType, NewCall, Kinds, Pcs, Locked
  <2>4. QED BY <2>1, <2>3, BeginTypes
<1>5. CASE BeginReject(h)
  <2>1. PICK s \in SUBSET InPool :
          /\ call' = [call EXCEPT ![h] = [NewCall EXCEPT !.kind = "reject", !.pc = "mark",
                        !.todo = s, !.objs = s, !.prev = dirKnown]]
          /\ call[h].pc = "ready" /\ "reject" \in offered
          /\ UNCHANGED <<Quiet, files, heap, pool, dirKnown, dirLock, faults, deleted>>
    <3>1. PICK a \in Account :
            LET rejected == {pool[b] : b \in {c \in Account : /\ pool[c] # None /\ login[c] = login[a]
                                                              /\ heap[pool[c]].token = heap[pool[a]].token}} IN
            /\ call[h].pc = "ready" /\ "reject" \in offered
            /\ call' = [call EXCEPT ![h] = [NewCall EXCEPT !.kind = "reject", !.pc = "mark",
                          !.todo = rejected, !.objs = rejected, !.prev = dirKnown]]
            /\ UNCHANGED <<Quiet, files, heap, pool, dirKnown, dirLock, faults, deleted>>
      BY <1>5 DEF BeginReject
    <3> DEFINE rejected == {pool[b] : b \in {c \in Account : /\ pool[c] # None /\ login[c] = login[a]
                                              /\ heap[pool[c]].token = heap[pool[a]].token}}
    <3>2. rejected \in SUBSET InPool BY DEF InPool, Types, TypeOK
    <3>3. QED BY <3>1, <3>2
  <2> DEFINE c == [NewCall EXCEPT !.kind = "reject", !.pc = "mark",
                     !.todo = s, !.objs = s, !.prev = dirKnown]
  <2>2. s \in SUBSET Obj /\ dirKnown \in BOOLEAN BY DEF InPool, Types, TypeOK
  <2>3. CallOK(c) /\ c.objs = s /\ c.pc \notin Locked
    BY <2>1, <2>2, FilesAssumption DEF CallOK, CallType, NewCall, Kinds, Pcs, Locked
  <2> HIDE DEF c
  <2>4. call'[h] = c /\ call' = [call EXCEPT ![h] = call'[h]] BY <2>1 DEF Types, c
  <2>5. UNCHANGED <<fixed, config, backups, restoring, files, heap, pool, dirKnown, dirLock, deleted>>
        /\ mutations' \in Nat
    BY <2>1 DEF Quiet, Untouched, Types, TypeOK
  <2>6. QED BY <2>1, <2>3, <2>4, <2>5, TypesByCallOnly DEF Locked
<1>6. QED BY <1>1, <1>2, <1>3, <1>4, <1>5 DEF Start

\* The steps of a call that change nothing but the call.
LEMMA CallOnlyTypes ==
  ASSUME Types, Marks', NEW h \in Handler,
         \/ SkipImport(h) \/ NothingToImport(h) \/ FindDeleted(h) \/ SnapshotPool(h)
         \/ Resolve(h) \/ Marked(h) \/ SavedAll(h) \/ EndCall(h) \/ EndReload(h)
  PROVE  Types'
<1> DEFINE Rest == UNCHANGED <<fixed, config, backups, restoring, files, heap, pool, dirKnown,
                               dirLock, deleted>>
<1>0. call[h] \in CallType /\ CallOK(call[h]) BY DEF Types
<1> SUFFICES /\ Rest /\ mutations' \in Nat
             /\ call' = [call EXCEPT ![h] = call'[h]]
             /\ CallOK(call'[h])
             /\ call'[h].objs \subseteq call[h].objs \cup InPool
             /\ call[h].pc \notin Locked /\ call'[h].pc \notin Locked
  BY TypesByCallOnly
<1>1. CASE SkipImport(h)
  <2>1. PICK a \in call[h].todo :
          /\ call[h].pc = "import" /\ call[h].kind = "import"
          /\ call' = [call EXCEPT ![h].todo = @ \ {a}]
          /\ UNCHANGED <<Quiet, files, heap, pool, dirKnown, dirLock, faults, deleted>>
    BY <1>1 DEF SkipImport
  <2>2. Rest /\ mutations' \in Nat BY <2>1 DEF Quiet, Untouched, Types, TypeOK
  <2>3. call' = [call EXCEPT ![h] = [call[h] EXCEPT !.todo = @ \ {a}]] BY <2>1 DEF Types
  <2>4. call'[h] = [call[h] EXCEPT !.todo = @ \ {a}] BY <2>3 DEF Types
  <2>5. CallOK(call'[h]) /\ call'[h].objs = call[h].objs /\ call'[h].pc = "import"
    BY <1>0, <2>1, <2>4 DEF CallOK, CallType
  <2>6. QED BY <2>1, <2>2, <2>3, <2>4, <2>5 DEF Locked
<1>2. CASE NothingToImport(h)
  <2>1. /\ call[h].pc = "import"
        /\ call' = [call EXCEPT ![h] = [call[h] EXCEPT !.pc = "end"]]
        /\ call'[h] = [call[h] EXCEPT !.pc = "end"]
    BY <1>2 DEF NothingToImport, Types
  <2>2. Rest /\ mutations' \in Nat BY <1>2 DEF NothingToImport, Quiet, Untouched, Types, TypeOK
  <2>3. CallOK(call'[h]) /\ call'[h].objs = call[h].objs /\ call'[h].pc = "end"
    BY <1>0, <2>1 DEF CallOK, CallType, Pcs
  <2>4. QED BY <2>1, <2>2, <2>3 DEF Locked
<1>3. CASE FindDeleted(h)
  <2>1. /\ call[h].pc = "find"
        /\ \/ /\ pool[call[h].acct] # None
              /\ call' = [call EXCEPT ![h].pc = "remove", ![h].token = heap[pool[call[h].acct]].token]
           \/ call' = [call EXCEPT ![h].pc = "end"]
           \/ call[h].kind = "erase" /\ call' = [call EXCEPT ![h].pc = "erase"]
    BY <1>3 DEF FindDeleted
  <2>2. Rest /\ mutations' \in Nat BY <1>3 DEF FindDeleted, Quiet, Untouched, Types, TypeOK
  <2>3. call[h].acct \in Account BY <1>0, <2>1 DEF CallOK
  <2>4. CASE /\ pool[call[h].acct] # None
             /\ call' = [call EXCEPT ![h].pc = "remove", ![h].token = heap[pool[call[h].acct]].token]
    <3>1. heap[pool[call[h].acct]] \in Object
      BY <2>3, <2>4 DEF Types, HeapOK, Used, InPool, TypeOK
    <3>2. PICK t \in Token : t = heap[pool[call[h].acct]].token BY <3>1 DEF Object
    <3>3. /\ call' = [call EXCEPT ![h] = [call[h] EXCEPT !.pc = "remove", !.token = t]]
          /\ call'[h] = [call[h] EXCEPT !.pc = "remove", !.token = t]
      BY <2>4, <3>2 DEF Types
    <3>4. CallOK(call'[h]) /\ call'[h].objs = call[h].objs /\ call'[h].pc = "remove"
      <4>1. call[h].pc = "find" /\ t \in Token BY <2>1
      <4>2. call'[h] = [call[h] EXCEPT !.pc = "remove", !.token = t] BY <3>3
      <4>3. call'[h] \in CallType BY <1>0, <4>1, <4>2 DEF CallType, Pcs
      <4>4. QED BY <1>0, <4>1, <4>2, <4>3 DEF CallOK, CallType
    <3>5. QED BY <2>1, <2>2, <3>3, <3>4 DEF Locked
  <2>5. CASE call' = [call EXCEPT ![h].pc = "end"]
    <3>3. /\ call' = [call EXCEPT ![h] = [call[h] EXCEPT !.pc = "end"]]
          /\ call'[h] = [call[h] EXCEPT !.pc = "end"]
      BY <2>5 DEF Types
    <3>4. CallOK(call'[h]) /\ call'[h].objs = call[h].objs /\ call'[h].pc = "end"
      BY <1>0, <2>1, <3>3 DEF CallOK, CallType, Pcs
    <3>5. QED BY <2>1, <2>2, <3>3, <3>4 DEF Locked
  <2>6. CASE call[h].kind = "erase" /\ call' = [call EXCEPT ![h].pc = "erase"]
    <3>3. /\ call' = [call EXCEPT ![h] = [call[h] EXCEPT !.pc = "erase"]]
          /\ call'[h] = [call[h] EXCEPT !.pc = "erase"]
      BY <2>6 DEF Types
    <3>4. CallOK(call'[h]) /\ call'[h].objs = call[h].objs /\ call'[h].pc = "erase"
      BY <1>0, <2>1, <2>6, <3>3 DEF CallOK, CallType, Pcs
    <3>5. QED BY <2>1, <2>2, <3>3, <3>4 DEF Locked
  <2>7. QED BY <2>1, <2>4, <2>5, <2>6
<1>4. CASE SnapshotPool(h)
  <2>1. /\ call[h].pc = "snapshot"
        /\ call' = [call EXCEPT ![h] = [call[h] EXCEPT !.pc = "save", !.todo = InPool, !.objs = InPool]]
        /\ call'[h] = [call[h] EXCEPT !.pc = "save", !.todo = InPool, !.objs = InPool]
    BY <1>4 DEF SnapshotPool, Types
  <2>2. Rest /\ mutations' \in Nat BY <1>4 DEF SnapshotPool, Quiet, Untouched, Types, TypeOK
  <2>3. InPool \in SUBSET Obj BY DEF InPool
  <2>4. CallOK(call'[h]) /\ call'[h].objs = InPool /\ call'[h].pc = "save"
    <3>1. PICK s \in SUBSET Obj : s = InPool BY <2>3
    <3>2. call[h].pc = "snapshot" BY <2>1
    <3>3. call'[h] = [call[h] EXCEPT !.pc = "save", !.todo = s, !.objs = s] BY <2>1, <3>1
    <3>4. call'[h] \in CallType BY <1>0, <3>3 DEF CallType, Pcs
    <3>5. QED BY <1>0, <3>1, <3>2, <3>3, <3>4 DEF CallOK, CallType
  <2>5. QED BY <2>1, <2>2, <2>4 DEF Locked
<1>5. CASE Resolve(h)
  <2> DEFINE objs == {pool[call[h].acct]} \ {None}
             pc == IF pool[call[h].acct] = None THEN "end" ELSE "flag"
  <2>1. /\ call[h].pc = "resolve"
        /\ call' = [call EXCEPT ![h].acct = None, ![h].pc = pc, ![h].objs = objs]
    BY <1>5 DEF Resolve
  <2>2. Rest /\ mutations' \in Nat BY <1>5 DEF Resolve, Quiet, Untouched, Types, TypeOK
  <2>3. call[h].acct \in Account BY <1>0, <2>1 DEF CallOK
  <2>4. objs \in SUBSET Obj /\ objs \subseteq InPool BY <2>3 DEF InPool, Types, TypeOK
  <2>5. pc \in {"end", "flag"} OBVIOUS
  <2> HIDE DEF objs, pc
  <2>6. /\ call' = [call EXCEPT ![h] = [call[h] EXCEPT !.acct = None, !.pc = pc, !.objs = objs]]
        /\ call'[h] = [call[h] EXCEPT !.acct = None, !.pc = pc, !.objs = objs]
    BY <2>1 DEF Types
  <2>7. CallOK(call'[h]) /\ call'[h].objs = objs /\ call'[h].pc = pc
    BY <1>0, <2>1, <2>4, <2>5, <2>6 DEF CallOK, CallType, Pcs
  <2>8. QED BY <2>1, <2>2, <2>4, <2>5, <2>6, <2>7 DEF Locked
<1>6. CASE Marked(h)
  <2> DEFINE todo == IF call[h].prev THEN call[h].objs ELSE {}
  <2>1. /\ call[h].pc = "mark"
        /\ call' = [call EXCEPT ![h].pc = "save", ![h].todo = todo]
    BY <1>6 DEF Marked
  <2>2. Rest /\ mutations' \in Nat BY <1>6 DEF Marked, Quiet, Untouched, Types, TypeOK
  <2>3. todo \subseteq call[h].objs /\ todo \in SUBSET Obj BY <1>0 DEF CallType
  <2> HIDE DEF todo
  <2>4. /\ call' = [call EXCEPT ![h] = [call[h] EXCEPT !.pc = "save", !.todo = todo]]
        /\ call'[h] = [call[h] EXCEPT !.pc = "save", !.todo = todo]
    BY <2>1 DEF Types
  <2>5. CallOK(call'[h]) /\ call'[h].objs = call[h].objs /\ call'[h].pc = "save"
    BY <1>0, <2>1, <2>3, <2>4 DEF CallOK, CallType, Pcs
  <2>6. QED BY <2>1, <2>2, <2>4, <2>5 DEF Locked
<1>7. CASE SavedAll(h)
  <2> DEFINE c == [NewCall EXCEPT !.pc = IF call[h].kind = "reject" THEN "done" ELSE "end"]
  <2>1. call[h].pc = "save" /\ call' = [call EXCEPT ![h] = c] BY <1>7 DEF SavedAll
  <2>2. Rest /\ mutations' \in Nat BY <1>7 DEF SavedAll, Quiet, Untouched, Types, TypeOK
  <2>3. CallOK(c) /\ c.objs = {} /\ c.pc \in {"done", "end"} BY IdleCalls DEF NewCall
  <2> HIDE DEF c
  <2>4. call'[h] = c BY <2>1 DEF Types
  <2>5. QED BY <2>1, <2>2, <2>3, <2>4 DEF Locked
<1>8. CASE EndCall(h)
  <2> DEFINE c == [NewCall EXCEPT !.pc = "done"]
  <2>1. call[h].pc = "end" /\ call' = [call EXCEPT ![h] = c] BY <1>8 DEF EndCall, Leave, Done
  <2>2. Rest /\ mutations' \in Nat BY <1>8 DEF EndCall, Leave, disk, history, Types, TypeOK
  <2>3. CallOK(c) /\ c.objs = {} /\ c.pc = "done" BY IdleCalls DEF NewCall
  <2> HIDE DEF c
  <2>4. call'[h] = c BY <2>1 DEF Types
  <2>5. QED BY <2>1, <2>2, <2>3, <2>4 DEF Locked
<1>9. CASE EndReload(h)
  <2>1. /\ call[h].pc = "list"
        /\ call' = [call EXCEPT ![h] = [call[h] EXCEPT !.pc = "end"]]
        /\ call'[h] = [call[h] EXCEPT !.pc = "end"]
    BY <1>9 DEF EndReload, Types
  <2>2. Rest /\ mutations' \in Nat BY <1>9 DEF EndReload, Quiet, Untouched, Types, TypeOK
  <2>3. CallOK(call'[h]) /\ call'[h].objs = call[h].objs /\ call'[h].pc = "end"
    BY <1>0, <2>1 DEF CallOK, CallType, Pcs
  <2>4. QED BY <2>1, <2>2, <2>3 DEF Locked
<1>10. QED BY <1>1, <1>2, <1>3, <1>4, <1>5, <1>6, <1>7, <1>8, <1>9

\* A registration or an import that goes on after a step of its own.
LEMMA CallGoesOn ==
  ASSUME Types, Marks', NEW h \in Handler,
         UNCHANGED <<fixed, config, backups, restoring, heap, pool, mutations>>,
         files' \in [Name -> Record \cup {None}], dirKnown' \in BOOLEAN, deleted' \in SUBSET Account,
         call' = [call EXCEPT ![h] = call'[h]], CallOK(call'[h]), call'[h].objs = call[h].objs,
         call[h].pc \notin Locked, dirLock = None \/ call'[h].pc \notin Locked,
         dirLock' = IF call'[h].pc \in Locked THEN h ELSE dirLock
  PROVE  Types'
<1>1. \A g \in Handler : call'[g].objs \subseteq call[g].objs BY DEF Types
<1>2. \A o \in Obj : o \in Used => heap[o] \in Object BY DEF Types, HeapOK
<1>3. HeapOK' BY <1>1, <1>2, HeapKept
<1>4. dirLock # h BY DEF Types, TypeOK, Locked
<1>5. QED BY <1>3, <1>4, TypesByCall DEF Types, TypeOK

\* Imports.
LEMMA ImportTypes ==
  ASSUME Types, Marks', NEW h \in Handler, SaveImport(h) \/ LoadActive(h) \/ AddActive(h)
  PROVE  Types'
<1>0. call[h] \in CallType /\ CallOK(call[h]) BY DEF Types
<1>k. None \notin Handler /\ mutations \in Nat /\ dirKnown \in BOOLEAN /\ deleted \in SUBSET Account
      /\ files \in [Name -> Record \cup {None}]
  BY FilesAssumption DEF Types, TypeOK
<1>1. CASE SaveImport(h)
  <2> DEFINE new == [token |-> call[h].token, disabled |-> FALSE, invalid |-> FALSE]
             on == IF call[h].kind = "register" THEN "reload" ELSE "activate"
             off == IF call[h].kind = "register" THEN "reload" ELSE "end"
  <2>1. PICK a \in call[h].todo :
          \E n : /\ call[h].pc = "import" /\ dirLock = None
                 /\ \/ /\ files' = [files EXCEPT ![n] = new]
                       /\ deleted' = deleted \ {a}
                       /\ call' = [call EXCEPT ![h].todo = @ \ {a}, ![h].acct = a, ![h].pc = on]
                    \/ /\ call' = [call EXCEPT ![h].todo = {}, ![h].acct = a, ![h].pc = off]
                       /\ UNCHANGED <<files, history>>
                 /\ UNCHANGED <<Untouched, cutOff, heap, pool, dirKnown, dirLock>>
    BY <1>1 DEF SaveImport
  <2>2. PICK n : /\ call[h].pc = "import" /\ dirLock = None
                 /\ \/ /\ files' = [files EXCEPT ![n] = new]
                       /\ deleted' = deleted \ {a}
                       /\ call' = [call EXCEPT ![h].todo = @ \ {a}, ![h].acct = a, ![h].pc = on]
                    \/ /\ call' = [call EXCEPT ![h].todo = {}, ![h].acct = a, ![h].pc = off]
                       /\ UNCHANGED <<files, history>>
                 /\ UNCHANGED <<Untouched, cutOff, heap, pool, dirKnown, dirLock>>
    BY <2>1
  <2>3. a \in Account /\ call[h].token \in Token /\ call[h].kind \in {"import", "register"}
        /\ call[h].todo \subseteq Account
    BY <1>0, <2>1, <2>2 DEF CallOK
  <2>4. new \in Record BY <2>3 DEF Record
  <2> HIDE DEF new
  <2>5. files' \in [Name -> Record \cup {None}] /\ deleted' \in SUBSET Account
    BY <1>k, <2>2, <2>4 DEF history
  <2>6. PICK todo \in {call[h].todo \ {a}, {}}, pc \in {on, off} :
          call' = [call EXCEPT ![h].todo = todo, ![h].acct = a, ![h].pc = pc]
    BY <2>2
  <2>7. /\ pc \in {"reload", "activate", "end"}
        /\ pc = "activate" => call[h].kind = "import"
        /\ pc = "reload" => call[h].kind = "register"
    BY <2>3
  <2> HIDE DEF on, off
  <2>8. todo \in SUBSET (Account \cup Obj \cup Name) /\ todo \subseteq Account BY <2>3
  <2> DEFINE c == [call[h] EXCEPT !.todo = todo, !.acct = a, !.pc = pc]
  <2>9. call' = [call EXCEPT ![h] = c] BY <2>6 DEF Types
  <2>10. c \in CallType
    <3>1. pc \in Pcs BY <2>7 DEF Pcs
    <3>2. a \in Account BY <2>3
    <3> HIDE DEF on, off, new
    <3>3. QED BY <1>0, <2>8, <3>1, <3>2 DEF CallType
  <2>11. /\ c.pc = pc /\ c.todo = todo /\ c.acct = a /\ c.kind = call[h].kind
         /\ c.token = call[h].token /\ c.objs = call[h].objs
    BY <1>0 DEF CallType
  <2> HIDE DEF c
  <2>12. CallOK(c) /\ call'[h] = c
    <3>1. call'[h] = c BY <2>9 DEF Types
    <3>2. QED BY <1>0, <2>2, <2>3, <2>7, <2>8, <2>10, <2>11, <3>1 DEF CallOK
  <2>13. UNCHANGED <<fixed, config, backups, restoring, heap, pool, mutations, dirKnown, dirLock>>
    BY <2>2 DEF Untouched
  <2>14. QED BY <1>k, <2>2, <2>5, <2>7, <2>9, <2>11, <2>12, <2>13, CallGoesOn DEF Locked
<1>2. CASE LoadActive(h)
  <2> DEFINE a == call[h].acct
  <2>1. /\ call[h].pc = "activate" /\ dirLock = None
        /\ UNCHANGED <<Untouched, cutOff, files, heap, pool, dirKnown, deleted>>
        /\ \/ \E s \in SUBSET FilesOf(a) :
                /\ Cardinality(s) = 1
                /\ dirLock' = h
                /\ call' = [call EXCEPT ![h].pc = "add", ![h].read = files[CHOOSE n \in s : TRUE]]
           \/ call' = [call EXCEPT ![h].pc = "end"] /\ UNCHANGED dirLock
    BY <1>2 DEF LoadActive
  <2>2. a \in Account /\ call[h].token \in Token /\ call[h].kind = "import"
        /\ call[h].todo \subseteq Account
    BY <1>0, <2>1 DEF CallOK
  <2>3. UNCHANGED <<fixed, config, backups, restoring, heap, pool, mutations, dirKnown, deleted, files>>
    BY <2>1 DEF Untouched
  <2>4. CASE \E s \in SUBSET FilesOf(a) :
               /\ Cardinality(s) = 1
               /\ dirLock' = h
               /\ call' = [call EXCEPT ![h].pc = "add", ![h].read = files[CHOOSE n \in s : TRUE]]
    <3>1. PICK s \in SUBSET FilesOf(a) :
            /\ Cardinality(s) = 1
            /\ dirLock' = h
            /\ call' = [call EXCEPT ![h].pc = "add", ![h].read = files[CHOOSE n \in s : TRUE]]
      BY <2>4
    <3>2. PICK m \in FilesOf(a) : m = CHOOSE n \in s : TRUE BY <2>2, <3>1, OneRead
    <3>3. PICK r \in Record : r = files[m] BY <3>2 DEF FilesOf, Types, TypeOK
    <3> DEFINE c == [call[h] EXCEPT !.pc = "add", !.read = r]
    <3>4. call' = [call EXCEPT ![h] = c]
      <4>1. call' = [call EXCEPT ![h].pc = "add", ![h].read = r] BY <3>1, <3>2, <3>3
      <4>2. QED BY <4>1 DEF Types
    <3>5. c \in CallType BY <1>0 DEF CallType, Pcs
    <3>6. /\ c.pc = "add" /\ c.objs = call[h].objs /\ c.kind = call[h].kind /\ c.todo = call[h].todo
          /\ c.acct = call[h].acct /\ c.read = r /\ c.token = call[h].token
      BY <1>0 DEF CallType
    <3> HIDE DEF c
    <3>7. CallOK(c) BY <1>0, <2>1, <2>2, <3>5, <3>6 DEF CallOK
    <3>8. call'[h] = c BY <3>4 DEF Types
    <3>9. QED BY <1>k, <2>1, <2>3, <3>1, <3>4, <3>6, <3>7, <3>8, CallGoesOn DEF Locked
  <2>5. CASE call' = [call EXCEPT ![h].pc = "end"] /\ UNCHANGED dirLock
    <3>1. /\ call' = [call EXCEPT ![h] = [call[h] EXCEPT !.pc = "end"]]
          /\ call'[h] = [call[h] EXCEPT !.pc = "end"]
      BY <2>5 DEF Types
    <3>2. CallOK(call'[h]) /\ call'[h].objs = call[h].objs /\ call'[h].pc = "end"
      BY <1>0, <2>1, <3>1 DEF CallOK, CallType, Pcs
    <3>3. QED BY <1>k, <2>1, <2>3, <2>5, <3>1, <3>2, CallGoesOn DEF Locked
  <2>6. QED BY <2>1, <2>4, <2>5
<1>3. CASE AddActive(h)
  <2> DEFINE a == call[h].acct
             r == [b \in {a} |-> call[h].read]
             pc == IF call[h].todo = {} THEN "end" ELSE "import"
  <2>1. /\ call[h].pc = "add"
        /\ Fill(pool, {a}, r)
        /\ dirKnown' = TRUE /\ dirLock' = None
        /\ call' = [call EXCEPT ![h].read = None, ![h].acct = None, ![h].pc = pc]
        /\ UNCHANGED <<Untouched, cutOff, files, faults, deleted>>
    BY <1>3 DEF AddActive
  <2>2. a \in Account /\ call[h].read \in Record /\ call[h].token \in Token
        /\ call[h].kind = "import" /\ call[h].todo \subseteq Account
    BY <1>0, <2>1 DEF CallOK
  <2>3. pc \in {"end", "import"} OBVIOUS
  <2>4. {a} \in SUBSET Account /\ r \in [{a} -> Record] BY <2>2
  <2> HIDE DEF a, r, pc
  <2>5. call' = [call EXCEPT ![h] = [call[h] EXCEPT !.read = None, !.acct = None, !.pc = pc]]
    BY <2>1 DEF Types
  <2>6. call'[h] = [call[h] EXCEPT !.read = None, !.acct = None, !.pc = pc] BY <2>5 DEF Types
  <2>7. call'[h] \in CallType BY <1>0, <2>3, <2>6 DEF CallType, Pcs
  <2>8. CallOK(call'[h]) /\ call'[h].pc = pc /\ call'[h].objs = call[h].objs
    <3>1. call[h].pc = "add" BY <2>1
    <3>2. /\ call'[h].pc = pc /\ call'[h].objs = call[h].objs /\ call'[h].kind = call[h].kind
          /\ call'[h].todo = call[h].todo /\ call'[h].token = call[h].token
      BY <1>0, <2>6 DEF CallType
    <3>3. QED BY <1>0, <2>2, <2>3, <2>7, <3>1, <3>2 DEF CallOK
  <2>9. \A g \in Handler : call'[g].objs \subseteq call[g].objs BY <2>5, <2>8 DEF Types
  <2>10. pool \in [Account -> Obj \cup {None}] BY DEF Types, TypeOK
  <2>11. HeapOK' /\ pool' \in [Account -> Obj \cup {None}] /\ heap' \in [Obj -> Object \cup {None}]
    BY <2>1, <2>4, <2>9, <2>10, HeapFilled
  <2>12. /\ dirKnown' \in BOOLEAN /\ files' = files /\ mutations' = mutations /\ deleted' = deleted
         /\ UNCHANGED <<fixed, config, backups, restoring>>
    BY <2>1 DEF Untouched
  <2>13. call' = [call EXCEPT ![h] = call'[h]] BY <2>5, <2>6
  <2>14. dirLock = h BY <2>1 DEF Types, TypeOK
  <2>15. QED BY <2>1, <2>3, <2>8, <2>11, <2>12, <2>13, <2>14, TypesByCall DEF Types, TypeOK, Locked
<1>4. QED BY <1>1, <1>2, <1>3

\* Reloads.
LEMMA ReloadTypes ==
  ASSUME Types, Marks', NEW h \in Handler, Reload(h) \/ ReadListed(h) \/ AddListed(h)
  PROVE  Types'
<1>0. call[h] \in CallType /\ CallOK(call[h]) BY DEF Types
<1>k. None \notin Handler /\ mutations \in Nat /\ dirKnown \in BOOLEAN /\ deleted \in SUBSET Account
      /\ files \in [Name -> Record \cup {None}]
  BY FilesAssumption DEF Types, TypeOK
<1>1. CASE Reload(h)
  <2>1. /\ call[h].pc = "reload" /\ dirKnown' = TRUE
        /\ \/ call' = [call EXCEPT ![h].pc = "list", ![h].todo = Listed, ![h].acct = None]
           \/ call' = [call EXCEPT ![h].pc = "end", ![h].acct = None]
        /\ UNCHANGED <<Untouched, cutOff, files, heap, pool, dirLock, deleted>>
    BY <1>1 DEF Reload
  <2>2. PICK all \in SUBSET Name : all = Listed BY DEF Listed
  <2>3. UNCHANGED <<fixed, config, backups, restoring, heap, pool, mutations, files, dirLock, deleted>>
    BY <2>1 DEF Untouched
  <2>4. CASE call' = [call EXCEPT ![h].pc = "list", ![h].todo = Listed, ![h].acct = None]
    <3> DEFINE c == [call[h] EXCEPT !.pc = "list", !.todo = all, !.acct = None]
    <3>1. call' = [call EXCEPT ![h] = c] BY <2>2, <2>4 DEF Types
    <3>2. c \in CallType BY <1>0 DEF CallType, Pcs
    <3>3. c.pc = "list" /\ c.todo = all /\ c.kind = call[h].kind /\ c.objs = call[h].objs
      BY <1>0 DEF CallType
    <3> HIDE DEF c
    <3>4. CallOK(c) BY <1>0, <2>1, <3>2, <3>3 DEF CallOK
    <3>5. call'[h] = c BY <3>1 DEF Types
    <3>6. QED BY <1>k, <2>1, <2>3, <3>1, <3>3, <3>4, <3>5, CallGoesOn DEF Locked
  <2>5. CASE call' = [call EXCEPT ![h].pc = "end", ![h].acct = None]
    <3> DEFINE c == [call[h] EXCEPT !.pc = "end", !.acct = None]
    <3>1. call' = [call EXCEPT ![h] = c] BY <2>5 DEF Types
    <3>2. c \in CallType BY <1>0 DEF CallType, Pcs
    <3>3. c.pc = "end" /\ c.kind = call[h].kind /\ c.objs = call[h].objs
      BY <1>0 DEF CallType
    <3> HIDE DEF c
    <3>4. CallOK(c) BY <1>0, <2>1, <3>2, <3>3 DEF CallOK
    <3>5. call'[h] = c BY <3>1 DEF Types
    <3>6. QED BY <1>k, <2>1, <2>3, <3>1, <3>3, <3>4, <3>5, CallGoesOn DEF Locked
  <2>6. QED BY <2>1, <2>4, <2>5
<1>2. CASE ReadListed(h)
  <2>1. PICK n \in call[h].todo :
          /\ call[h].pc = "list"
          /\ \/ /\ files[n] # None
                /\ call' = [call EXCEPT ![h].pc = "listed", ![h].todo = @ \ {n}, ![h].acct = n[2],
                                        ![h].read = files[n]]
             \/ call' = [call EXCEPT ![h].todo = @ \ {n}]
          /\ UNCHANGED <<Untouched, cutOff, files, heap, pool, dirKnown, dirLock, deleted>>
    BY <1>2 DEF ReadListed
  <2>2. call[h].kind = "register" /\ call[h].todo \subseteq Name BY <1>0, <2>1 DEF CallOK
  <2>3. n \in Name /\ n[2] \in Account BY <2>1, <2>2 DEF Name
  <2>4. PICK todo \in SUBSET Name : todo = call[h].todo \ {n} BY <2>2
  <2>5. UNCHANGED <<fixed, config, backups, restoring, heap, pool, mutations, files, dirLock, deleted,
                    dirKnown>>
    BY <2>1 DEF Untouched
  <2>6. CASE files[n] # None /\ call' = [call EXCEPT ![h].pc = "listed", ![h].todo = @ \ {n},
                                           ![h].acct = n[2], ![h].read = files[n]]
    <3>1. PICK r \in Record : r = files[n] BY <1>k, <2>3, <2>6
    <3>2. call' = [call EXCEPT ![h] = [call[h] EXCEPT !.pc = "listed", !.todo = todo,
                                                      !.acct = n[2], !.read = r]]
      BY <1>0, <2>4, <2>6, <3>1 DEF Types
    <3>3. call'[h] = [call[h] EXCEPT !.pc = "listed", !.todo = todo, !.acct = n[2], !.read = r]
      BY <3>2 DEF Types
    <3>4. call'[h] \in CallType BY <1>0, <2>3, <3>3 DEF CallType, Pcs
    <3>5. /\ call'[h].pc = "listed" /\ call'[h].todo = todo /\ call'[h].kind = call[h].kind
          /\ call'[h].objs = call[h].objs /\ call'[h].acct = n[2] /\ call'[h].read = r
      BY <1>0, <3>3 DEF CallType
    <3>6. CallOK(call'[h]) BY <1>0, <2>2, <2>3, <3>4, <3>5 DEF CallOK
    <3>7. QED BY <1>k, <2>1, <2>5, <3>2, <3>3, <3>5, <3>6, CallGoesOn DEF Locked
  <2>7. CASE call' = [call EXCEPT ![h].todo = @ \ {n}]
    <3>2. call' = [call EXCEPT ![h] = [call[h] EXCEPT !.todo = todo]]
      BY <1>0, <2>4, <2>7 DEF Types
    <3>3. call'[h] = [call[h] EXCEPT !.todo = todo] BY <3>2 DEF Types
    <3>4. call'[h] \in CallType BY <1>0, <3>3 DEF CallType
    <3>5. /\ call'[h].pc = "list" /\ call'[h].todo = todo /\ call'[h].kind = call[h].kind
          /\ call'[h].objs = call[h].objs
      BY <1>0, <2>1, <3>3 DEF CallType
    <3>6. CallOK(call'[h]) BY <1>0, <2>2, <2>3, <3>4, <3>5 DEF CallOK
    <3>7. QED BY <1>k, <2>1, <2>5, <3>2, <3>3, <3>5, <3>6, CallGoesOn DEF Locked
  <2>8. QED BY <2>1, <2>6, <2>7
<1>3. CASE AddListed(h)
  <2> DEFINE a == call[h].acct
             r == [b \in {a} |-> call[h].read]
  <2>1. /\ call[h].pc = "listed"
        /\ Fill(pool, {a}, r)
        /\ call' = [call EXCEPT ![h].pc = "list", ![h].read = None, ![h].acct = None]
        /\ UNCHANGED <<Quiet, files, dirKnown, dirLock, faults, deleted>>
    BY <1>3 DEF AddListed
  <2>2. a \in Account /\ call[h].read \in Record /\ call[h].kind = "register"
        /\ call[h].todo \subseteq Name
    BY <1>0, <2>1 DEF CallOK
  <2>4. {a} \in SUBSET Account /\ r \in [{a} -> Record] BY <2>2
  <2> HIDE DEF a, r
  <2>5. call' = [call EXCEPT ![h] = [call[h] EXCEPT !.pc = "list", !.read = None, !.acct = None]]
    BY <2>1 DEF Types
  <2>6. call'[h] = [call[h] EXCEPT !.pc = "list", !.read = None, !.acct = None] BY <2>5 DEF Types
  <2>7. call'[h] \in CallType BY <1>0, <2>6 DEF CallType, Pcs
  <2>8. CallOK(call'[h]) /\ call'[h].pc = "list" /\ call'[h].objs = call[h].objs
    <3>1. /\ call'[h].pc = "list" /\ call'[h].objs = call[h].objs /\ call'[h].kind = call[h].kind
          /\ call'[h].todo = call[h].todo
      BY <1>0, <2>6 DEF CallType
    <3>2. QED BY <1>0, <2>1, <2>2, <2>7, <3>1 DEF CallOK
  <2>9. \A g \in Handler : call'[g].objs \subseteq call[g].objs BY <2>5, <2>8 DEF Types
  <2>10. pool \in [Account -> Obj \cup {None}] BY DEF Types, TypeOK
  <2>11. HeapOK' /\ pool' \in [Account -> Obj \cup {None}] /\ heap' \in [Obj -> Object \cup {None}]
    BY <2>1, <2>4, <2>9, <2>10, HeapFilled
  <2>12. /\ dirKnown' = dirKnown /\ files' = files /\ mutations' = mutations /\ deleted' = deleted
         /\ dirLock' = dirLock /\ UNCHANGED <<fixed, config, backups, restoring>>
    BY <2>1 DEF Quiet, Untouched
  <2>13. call' = [call EXCEPT ![h] = call'[h]] BY <2>5, <2>6
  <2>14. dirLock # h BY <2>1 DEF Types, TypeOK
  <2>15. QED BY <1>k, <2>1, <2>8, <2>11, <2>12, <2>13, <2>14, TypesByCall DEF Locked
<1>4. QED BY <1>1, <1>2, <1>3

\* Deletions.
LEMMA DeleteTypes ==
  ASSUME Types, Marks', NEW h \in Handler, EraseFile(h) \/ DeleteFile(h) \/ DropDeleted(h)
  PROVE  Types'
<1>0. call[h] \in CallType /\ CallOK(call[h]) BY DEF Types
<1>k. /\ \A o \in Obj : o \in Used => heap[o] \in Object
      /\ heap \in [Obj -> Object \cup {None}] /\ pool \in [Account -> Obj \cup {None}]
      /\ files \in [Name -> Record \cup {None}] /\ deleted \in SUBSET Account
      /\ dirKnown \in BOOLEAN /\ mutations \in Nat
  BY DEF Types, HeapOK, TypeOK
\* All three change only the position of the call.
<1>c. ASSUME NEW pc \in {"end", "drop"}, call' = [call EXCEPT ![h].pc = pc],
             call[h].pc \in {"erase", "remove", "drop"},
             pc = "drop" => call[h].pc = "remove"
      PROVE  /\ call' = [call EXCEPT ![h] = call'[h]] /\ CallOK(call'[h]) /\ call'[h].pc = pc
             /\ \A g \in Handler : call'[g].objs = call[g].objs
  <2>1. call' = [call EXCEPT ![h] = [call[h] EXCEPT !.pc = pc]] BY <1>c DEF Types
  <2>2. call'[h] = [call[h] EXCEPT !.pc = pc] BY <2>1 DEF Types
  <2>3. call'[h] \in CallType BY <1>0, <2>2 DEF CallType, Pcs
  <2>4. /\ call'[h].pc = pc /\ call'[h].objs = call[h].objs /\ call'[h].kind = call[h].kind
        /\ call'[h].acct = call[h].acct
    BY <1>0, <2>2 DEF CallType
  <2>5. call[h].kind # "reject" /\ call[h].acct \in Account BY <1>0, <1>c DEF CallOK
  <2>6. CallOK(call'[h]) BY <1>0, <1>c, <2>3, <2>4, <2>5 DEF CallOK
  <2>7. \A g \in Handler : call'[g].objs = call[g].objs BY <2>1, <2>4 DEF Types
  <2>8. QED BY <2>1, <2>2, <2>4, <2>6, <2>7
<1>1. CASE EraseFile(h)
  <2> DEFINE found == {n \in Listed : login[n[2]] = login[call[h].acct]}
  <2>1. /\ call[h].pc = "erase" /\ dirLock = None
        /\ \/ /\ files' = [n \in Name |-> IF n \in found THEN None ELSE files[n]]
              /\ deleted' = deleted \cup {a \in Account : pool[a] = None /\ FilesOf(a) \cap found # {}}
           \/ UNCHANGED <<files, deleted>>
        /\ call' = [call EXCEPT ![h].pc = "end"]
        /\ UNCHANGED <<Quiet, heap, pool, dirKnown, dirLock>>
    BY <1>1 DEF EraseFile
  <2>2. files' \in [Name -> Record \cup {None}] /\ deleted' \in SUBSET Account
    <3> HIDE DEF found
    <3>1. QED BY <1>k, <2>1
  <2>3. /\ call' = [call EXCEPT ![h] = call'[h]] /\ CallOK(call'[h]) /\ call'[h].pc = "end"
        /\ \A g \in Handler : call'[g].objs = call[g].objs
    BY <1>c, <2>1
  <2>4. /\ heap' = heap /\ pool' = pool /\ dirKnown' = dirKnown /\ mutations' = mutations
        /\ dirLock' = dirLock /\ dirLock = None
        /\ UNCHANGED <<fixed, config, backups, restoring>>
    BY <2>1 DEF Quiet, Untouched
  <2>5. HeapOK' BY <1>k, <2>3, <2>4, HeapKept
  <2>6. None \notin Handler BY FilesAssumption
  <2>7. QED BY <1>k, <2>2, <2>3, <2>4, <2>5, <2>6, TypesByCall DEF Locked
<1>2. CASE DeleteFile(h)
  <2>1. /\ call[h].pc = "remove" /\ dirLock = None
        /\ \/ /\ files' = [n \in Name |-> IF n[2] = call[h].acct THEN None ELSE files[n]]
              /\ dirLock' = h
              /\ call' = [call EXCEPT ![h].pc = "drop"]
           \/ /\ call' = [call EXCEPT ![h].pc = "end"]
              /\ UNCHANGED <<files, dirLock>>
        /\ UNCHANGED <<Quiet, heap, pool, dirKnown, deleted>>
    BY <1>2 DEF DeleteFile
  <2>2. files' \in [Name -> Record \cup {None}] BY <1>k, <2>1
  <2>3. PICK pc \in {"end", "drop"} :
          /\ call' = [call EXCEPT ![h].pc = pc]
          /\ dirLock' = IF pc = "drop" THEN h ELSE dirLock
    BY <2>1
  <2>4. /\ call' = [call EXCEPT ![h] = call'[h]] /\ CallOK(call'[h]) /\ call'[h].pc = pc
        /\ \A g \in Handler : call'[g].objs = call[g].objs
    BY <1>c, <2>1, <2>3
  <2>5. /\ heap' = heap /\ pool' = pool /\ dirKnown' = dirKnown /\ mutations' = mutations
        /\ dirLock = None /\ deleted' = deleted
        /\ UNCHANGED <<fixed, config, backups, restoring>>
    BY <2>1 DEF Quiet, Untouched
  <2>6. HeapOK' BY <1>k, <2>4, <2>5, HeapKept
  <2>7. None \notin Handler BY FilesAssumption
  <2>8. QED BY <1>k, <2>2, <2>3, <2>4, <2>5, <2>6, <2>7, TypesByCall DEF Locked
<1>3. CASE DropDeleted(h)
  <2> DEFINE a == call[h].acct
  <2>1. /\ call[h].pc = "drop"
        /\ pool' = [pool EXCEPT ![a] = IF Has(a, call[h].token) THEN None ELSE @]
        /\ deleted' = deleted \cup {a}
        /\ dirLock' = None
        /\ call' = [call EXCEPT ![h].pc = "end"]
        /\ UNCHANGED <<Quiet, files, heap, dirKnown, faults>>
    BY <1>3 DEF DropDeleted
  <2>2. a \in Account BY <1>0, <2>1 DEF CallOK
  <2> HIDE DEF a
  <2>3. pool' \in [Account -> Obj \cup {None}] /\ deleted' \in SUBSET Account
    BY <1>k, <2>1, <2>2
  <2>4. /\ call' = [call EXCEPT ![h] = call'[h]] /\ CallOK(call'[h]) /\ call'[h].pc = "end"
        /\ \A g \in Handler : call'[g].objs = call[g].objs
    BY <1>c, <2>1
  <2>5. /\ heap' = heap /\ files' = files /\ dirKnown' = dirKnown /\ mutations' = mutations
        /\ UNCHANGED <<fixed, config, backups, restoring>>
    BY <2>1 DEF Quiet, Untouched
  <2>6. dirLock = h BY <2>1 DEF Types, TypeOK
  <2>7. HeapOK'
    <3>1. \A b \in Account : pool'[b] # None => pool'[b] = pool[b] BY <1>k, <2>1, <2>2
    <3>2. None \notin Obj BY FilesAssumption
    <3>3. InPool' \subseteq InPool BY <3>1, <3>2 DEF InPool
    <3>4. Used' \subseteq Used BY <2>4, <3>3 DEF Used
    <3>5. QED BY <2>5, <3>1, <3>4 DEF HeapOK, Types
  <2>8. QED BY <1>k, <2>1, <2>3, <2>4, <2>5, <2>6, <2>7, TypesByCall DEF Locked
<1>4. QED BY <1>1, <1>2, <1>3

\* The steps that change an object.
LEMMA ObjectTypes ==
  ASSUME Types, Marks', NEW h \in Handler, SetFlag(h) \/ Revert(h) \/ Mark(h)
  PROVE  Types'
<1>0. call[h] \in CallType /\ CallOK(call[h]) BY DEF Types
<1>k. /\ heap \in [Obj -> Object \cup {None}] /\ pool \in [Account -> Obj \cup {None}]
      /\ files \in [Name -> Record \cup {None}] /\ deleted \in SUBSET Account
      /\ dirKnown \in BOOLEAN /\ mutations \in Nat
  BY DEF Types, HeapOK, TypeOK
\* The objects keep their accounts.
<1>h. ASSUME NEW o \in call[h].objs,
             \/ \E d \in BOOLEAN : heap' = [heap EXCEPT ![o].disabled = d]
             \/ heap' = [heap EXCEPT ![o].invalid = TRUE]
      PROVE  /\ heap' \in [Obj -> Object \cup {None}]
             /\ \A p \in Obj : p \in Used => heap'[p] \in Object /\ heap'[p].acct = heap[p].acct
             /\ heap[o] \in Object
  <2>1. o \in Obj /\ o \in Used BY <1>0 DEF CallType, Used
  <2>2. heap[o] \in Object /\ \A p \in Used : heap[p] \in Object BY <2>1 DEF Types, HeapOK
  <2>3. PICK x \in Object : heap' = [heap EXCEPT ![o] = x] /\ x.acct = heap[o].acct
    <3>1. CASE \E d \in BOOLEAN : heap' = [heap EXCEPT ![o].disabled = d]
      <4>1. PICK d \in BOOLEAN : heap' = [heap EXCEPT ![o].disabled = d] BY <3>1
      <4>2. [heap[o] EXCEPT !.disabled = d] \in Object
            /\ [heap[o] EXCEPT !.disabled = d].acct = heap[o].acct
        BY <2>2 DEF Object
      <4>3. heap' = [heap EXCEPT ![o] = [heap[o] EXCEPT !.disabled = d]] BY <1>k, <2>1, <4>1
      <4>4. QED BY <4>2, <4>3
    <3>2. CASE heap' = [heap EXCEPT ![o].invalid = TRUE]
      <4>2. [heap[o] EXCEPT !.invalid = TRUE] \in Object
            /\ [heap[o] EXCEPT !.invalid = TRUE].acct = heap[o].acct
        BY <2>2 DEF Object
      <4>3. heap' = [heap EXCEPT ![o] = [heap[o] EXCEPT !.invalid = TRUE]] BY <1>k, <2>1, <3>2
      <4>4. QED BY <4>2, <4>3
    <3>3. QED BY <1>h, <3>1, <3>2
  <2>4. QED BY <1>k, <2>1, <2>2, <2>3
\* Given what becomes of the call, the types are kept.
<1>q. ASSUME NEW c \in CallType, call' = [call EXCEPT ![h] = c], CallOK(c), c.objs \subseteq call[h].objs,
             call[h].pc \notin Locked, c.pc \notin Locked,
             UNCHANGED <<Quiet, files, pool, dirKnown, dirLock, deleted>>,
             NEW o \in call[h].objs,
             \/ \E d \in BOOLEAN : heap' = [heap EXCEPT ![o].disabled = d]
             \/ heap' = [heap EXCEPT ![o].invalid = TRUE]
      PROVE  Types'
  <2>1. call'[h] = c BY <1>q DEF Types
  <2>2. \A g \in Handler : call'[g].objs \subseteq call[g].objs BY <1>q DEF Types
  <2>3. /\ heap' \in [Obj -> Object \cup {None}]
        /\ \A p \in Obj : p \in Used => heap'[p] \in Object /\ heap'[p].acct = heap[p].acct
    BY <1>h, <1>q
  <2>4. HeapOK' BY <1>q, <2>2, <2>3, HeapKept
  <2>5. dirLock # h BY <1>q DEF Types, TypeOK, Locked
  <2>6. /\ UNCHANGED <<fixed, config, backups, restoring>> /\ mutations' = mutations
        /\ files' = files /\ pool' = pool /\ dirKnown' = dirKnown /\ dirLock' = dirLock
        /\ deleted' = deleted
    BY <1>q DEF Quiet, Untouched
  <2>7. QED BY <1>k, <1>q, <2>1, <2>3, <2>4, <2>5, <2>6, TypesByCall
<1>1. CASE SetFlag(h)
  <2>1. PICK o \in call[h].objs :
          /\ call[h].pc = "flag"
          /\ heap' = [heap EXCEPT ![o].disabled = call[h].prev]
          /\ call' = [call EXCEPT ![h].prev = heap[o].disabled, ![h].todo = {o}, ![h].pc = "save"]
          /\ UNCHANGED <<Quiet, files, pool, dirKnown, dirLock, faults, deleted>>
    BY <1>1 DEF SetFlag
  <2>2. call[h].prev \in BOOLEAN /\ o \in Obj BY <1>0 DEF CallType
  <2>3. heap[o] \in Object BY <1>h, <2>1, <2>2
  <2>4. PICK d \in BOOLEAN : d = heap[o].disabled BY <2>3 DEF Object
  <2> DEFINE c == [call[h] EXCEPT !.prev = d, !.todo = {o}, !.pc = "save"]
  <2>5. call' = [call EXCEPT ![h] = c] BY <2>1, <2>4 DEF Types
  <2>6. c \in CallType BY <1>0, <2>2 DEF CallType, Pcs
  <2>7. c.pc = "save" /\ c.objs = call[h].objs /\ c.kind = call[h].kind /\ c.todo = {o}
    BY <1>0 DEF CallType
  <2> HIDE DEF c
  <2>8. CallOK(c) BY <1>0, <2>1, <2>6, <2>7 DEF CallOK
  <2>9. UNCHANGED <<Quiet, files, pool, dirKnown, dirLock, deleted>> BY <2>1
  <2>10. QED BY <1>q, <2>1, <2>2, <2>5, <2>6, <2>7, <2>8, <2>9 DEF Locked
<1>2. CASE Revert(h)
  <2>1. PICK o \in call[h].objs :
          /\ call[h].pc = "revert"
          /\ heap' = [heap EXCEPT ![o].disabled = call[h].prev]
          /\ call' = [call EXCEPT ![h] = [NewCall EXCEPT !.pc = "end"]]
          /\ UNCHANGED <<Quiet, files, pool, dirKnown, dirLock, faults, deleted>>
    BY <1>2 DEF Revert
  <2>2. call[h].prev \in BOOLEAN BY <1>0 DEF CallType
  <2> DEFINE c == [NewCall EXCEPT !.pc = "end"]
  <2>3. CallOK(c) /\ c.pc = "end" /\ c.objs = {} BY IdleCalls DEF NewCall
  <2> HIDE DEF c
  <2>4. c \in CallType BY <2>3 DEF CallOK
  <2>5. call' = [call EXCEPT ![h] = c] BY <2>1 DEF c
  <2>6. QED BY <1>q, <2>1, <2>2, <2>3, <2>4, <2>5 DEF Locked
<1>3. CASE Mark(h)
  <2>1. PICK o \in call[h].todo :
          /\ call[h].pc = "mark"
          /\ heap' = [heap EXCEPT ![o].invalid = TRUE]
          /\ call' = [call EXCEPT ![h].todo = @ \ {o}]
          /\ UNCHANGED <<Quiet, files, pool, dirKnown, dirLock, faults, deleted>>
    BY <1>3 DEF Mark
  <2> DEFINE todo == call[h].todo \ {o}
             c == [call[h] EXCEPT !.todo = todo]
  <2>2. call[h].todo \subseteq call[h].objs BY <1>0, <2>1 DEF CallOK
  <2>3. todo \in SUBSET (Account \cup Obj \cup Name) BY <1>0 DEF CallType
  <2>4. call' = [call EXCEPT ![h] = c] BY <2>1 DEF Types
  <2>5. todo \subseteq call[h].objs BY <2>2
  <2> HIDE DEF todo
  <2>6. c \in CallType BY <1>0, <2>3 DEF CallType
  <2>7. c.pc = "mark" /\ c.objs = call[h].objs /\ c.kind = call[h].kind /\ c.todo = todo
    BY <1>0, <2>1 DEF CallType
  <2> HIDE DEF c
  <2>8. CallOK(c) BY <1>0, <2>1, <2>5, <2>6, <2>7 DEF CallOK
  <2>9. UNCHANGED <<Quiet, files, pool, dirKnown, dirLock, deleted>> BY <2>1
  <2>10. QED BY <1>q, <2>1, <2>2, <2>4, <2>6, <2>7, <2>8, <2>9 DEF Locked
<1>4. QED BY <1>1, <1>2, <1>3

\* The steps that save an object.
LEMMA SaveTypes ==
  ASSUME Types, Marks', NEW h \in Handler, ReadSaved(h) \/ WriteSaved(h)
  PROVE  Types'
<1>0. call[h] \in CallType /\ CallOK(call[h]) BY DEF Types
<1>k. /\ \A o \in Obj : o \in Used => heap[o] \in Object
      /\ heap \in [Obj -> Object \cup {None}] /\ pool \in [Account -> Obj \cup {None}]
      /\ files \in [Name -> Record \cup {None}] /\ deleted \in SUBSET Account
      /\ dirKnown \in BOOLEAN /\ mutations \in Nat
  BY DEF Types, HeapOK, TypeOK
<1>1. CASE ReadSaved(h)
  <2>1. PICK o \in call[h].todo :
          LET a == heap[o].acct
              found == /\ Cardinality(FilesOf(a)) = 1
                       /\ \A n \in FilesOf(a) : files[n].token = heap[o].token IN
          /\ call[h].pc = "save" /\ dirLock = None
          /\ IF found
             THEN /\ dirLock' = h
                  /\ call' = [call EXCEPT ![h].pc = "write", ![h].acct = CHOOSE n \in FilesOf(a) : TRUE,
                       ![h].read = [token |-> heap[o].token, disabled |-> heap[o].disabled,
                                    invalid |-> heap[o].invalid],
                       ![h].todo = @ \ {o}]
             ELSE /\ call' = [call EXCEPT ![h].pc = IF call[h].kind = "toggle" THEN "revert" ELSE "save",
                                ![h].todo = @ \ {o}]
                  /\ UNCHANGED dirLock
          /\ UNCHANGED <<Quiet, files, heap, pool, dirKnown, faults, deleted>>
    BY <1>1 DEF ReadSaved
  <2> DEFINE todo == call[h].todo \ {o}
  <2>2. call[h].pc = "save" /\ dirLock = None BY <2>1
  <2>3. call[h].todo \subseteq call[h].objs BY <1>0, <2>2 DEF CallOK
  <2>4. o \in Obj /\ o \in Used /\ heap[o] \in Object
    BY <1>0, <1>k, <2>3 DEF CallType, Used
  <2>5. heap[o].acct \in Account BY <2>4 DEF Object
  <2>6. todo \in SUBSET (Account \cup Obj \cup Name) /\ todo \subseteq call[h].objs
    BY <1>0, <2>3 DEF CallType
  <2>7. /\ heap' = heap /\ pool' = pool /\ files' = files /\ dirKnown' = dirKnown
        /\ mutations' = mutations /\ deleted' = deleted
        /\ UNCHANGED <<fixed, config, backups, restoring>>
    BY <2>1 DEF Quiet, Untouched
  <2>8. CASE /\ Cardinality(FilesOf(heap[o].acct)) = 1
             /\ \A n \in FilesOf(heap[o].acct) : files[n].token = heap[o].token
    <3>1. PICK n \in Name : n = CHOOSE m \in FilesOf(heap[o].acct) : TRUE
      BY <2>5, <2>8, FilesCounted
    <3>2. PICK r \in Record : r = [token |-> heap[o].token, disabled |-> heap[o].disabled,
                                   invalid |-> heap[o].invalid]
      BY <2>4 DEF Object, Record
    <3> DEFINE c == [call[h] EXCEPT !.pc = "write", !.acct = n, !.read = r, !.todo = todo]
    <3>3. call' = [call EXCEPT ![h].pc = "write", ![h].acct = n, ![h].read = r, ![h].todo = @ \ {o}]
          /\ dirLock' = h
      BY <2>1, <2>8, <3>1, <3>2
    <3>4. call' = [call EXCEPT ![h] = c] BY <3>3 DEF Types
    <3> HIDE DEF todo
    <3>5. c \in CallType BY <1>0, <2>6 DEF CallType, Pcs
    <3>6. /\ c.pc = "write" /\ c.objs = call[h].objs /\ c.kind = call[h].kind /\ c.todo = todo
          /\ c.acct = n /\ c.read = r
      BY <1>0 DEF CallType
    <3> HIDE DEF c
    <3>7. CallOK(c) BY <1>0, <2>2, <2>6, <3>5, <3>6 DEF CallOK
    <3>8. call'[h] = c BY <3>4 DEF Types
    <3>9. \A g \in Handler : call'[g].objs \subseteq call[g].objs BY <3>4, <3>6 DEF Types
    <3>10. HeapOK' BY <1>k, <2>7, <3>9, HeapKept
    <3>11. QED BY <1>k, <2>2, <2>7, <3>3, <3>4, <3>6, <3>7, <3>8, <3>10, TypesByCall DEF Locked
  <2>9. CASE ~ /\ Cardinality(FilesOf(heap[o].acct)) = 1
               /\ \A n \in FilesOf(heap[o].acct) : files[n].token = heap[o].token
    <3>1. PICK pc \in {"revert", "save"} :
            call' = [call EXCEPT ![h].pc = pc, ![h].todo = @ \ {o}] /\ dirLock' = dirLock
            /\ (pc = "revert" => call[h].kind = "toggle")
      BY <2>1, <2>9
    <3> DEFINE c == [call[h] EXCEPT !.pc = pc, !.todo = todo]
    <3>4. call' = [call EXCEPT ![h] = c] BY <3>1 DEF Types
    <3> HIDE DEF todo
    <3>5. c \in CallType BY <1>0, <2>6 DEF CallType, Pcs
    <3>6. c.pc = pc /\ c.objs = call[h].objs /\ c.kind = call[h].kind /\ c.todo = todo
      BY <1>0 DEF CallType
    <3> HIDE DEF c
    <3>7. CallOK(c) BY <1>0, <2>2, <2>6, <3>1, <3>5, <3>6 DEF CallOK
    <3>8. call'[h] = c BY <3>4 DEF Types
    <3>9. mutations' \in Nat BY <1>k, <2>7
    <3>10. QED BY <2>2, <2>7, <3>1, <3>4, <3>6, <3>7, <3>8, <3>9, TypesByCallOnly DEF Locked
  <2>10. QED BY <2>8, <2>9
<1>2. CASE WriteSaved(h)
  <2>1. PICK pc \in {"save", "revert"} :
          /\ call' = [call EXCEPT ![h].pc = pc, ![h].acct = None, ![h].read = None]
          /\ pc = "revert" => call[h].kind = "toggle"
          /\ files' = [files EXCEPT ![call[h].acct] = call[h].read] \/ files' = files
    BY <1>2 DEF WriteSaved
  <2>2. /\ call[h].pc = "write" /\ dirLock' = None
        /\ UNCHANGED <<Untouched, heap, pool, dirKnown, history>>
    BY <1>2 DEF WriteSaved
  <2>3. call[h].acct \in Name /\ call[h].read \in Record /\ call[h].todo \subseteq call[h].objs
    BY <1>0, <2>2 DEF CallOK
  <2>4. files' \in [Name -> Record \cup {None}] BY <1>k, <2>1, <2>3
  <2> DEFINE c == [call[h] EXCEPT !.pc = pc, !.acct = None, !.read = None]
  <2>5. call' = [call EXCEPT ![h] = c] BY <2>1 DEF Types
  <2>6. c \in CallType BY <1>0 DEF CallType, Pcs
  <2>7. c.pc = pc /\ c.objs = call[h].objs /\ c.kind = call[h].kind /\ c.todo = call[h].todo
    BY <1>0 DEF CallType
  <2> HIDE DEF c
  <2>8. CallOK(c) BY <1>0, <2>1, <2>2, <2>3, <2>6, <2>7 DEF CallOK
  <2>9. call'[h] = c BY <2>5 DEF Types
  <2>10. \A g \in Handler : call'[g].objs \subseteq call[g].objs BY <2>5, <2>7 DEF Types
  <2>11. /\ heap' = heap /\ pool' = pool /\ dirKnown' = dirKnown
         /\ mutations' = mutations /\ deleted' = deleted
         /\ UNCHANGED <<fixed, config, backups, restoring>>
    BY <2>2 DEF Untouched, history
  <2>12. HeapOK' BY <1>k, <2>10, <2>11, HeapKept
  <2>13. dirLock = h BY <2>2 DEF Types, TypeOK
  <2>14. QED BY <1>k, <2>2, <2>4, <2>5, <2>7, <2>8, <2>9, <2>11, <2>12, <2>13, TypesByCall DEF Locked
<1>3. QED BY <1>1, <1>2

\* A step of the backup handler that leaves the pool and the calls alone.
LEMMA TypesByAdmin ==
  ASSUME Types, Marks', UNCHANGED <<fixed, heap, pool, dirKnown, mutations, dirLock, call>>,
         AdminOK', files' \in [Name -> Record \cup {None}], backup' \in [Name -> Record \cup {None}],
         config' \in Setting \cup {"torn"}, settings' \in Setting, restoring' \in BOOLEAN,
         deleted' \in SUBSET Account
  PROVE  Types'
<1>1. Used' = Used BY DEF Used, InPool
<1>2. HeapOK' BY <1>1 DEF Types, HeapOK
<1>3. TypeOK' BY DEF Types, TypeOK, Marks, fixed
<1>4. \A h \in Handler : CallOK(call[h])' BY DEF Types, CallOK, fixed
<1>5. QED BY <1>2, <1>3, <1>4 DEF Types

\* What a restore puts back has names made of e-mails.
LEMMA TargetType ==
  ASSUME Types
  PROVE  /\ Target \in [Name -> Record \cup {None}]
         /\ \A n \in Name : n[1] # "email" => Target[n] = None
<1>1. ASSUME NEW n \in Name, \E m \in Kept : m[2] = n[2]
      PROVE  backup[CHOOSE m \in Kept : m[2] = n[2]] \in Record \cup {None}
  <2>1. (CHOOSE m \in Kept : m[2] = n[2]) \in Name BY <1>1 DEF Kept
  <2>2. QED BY <2>1 DEF Types, TypeOK
<1>2. QED BY <1>1 DEF Target

\* The steps of the backup handler before and after the files are touched.
LEMMA VisitTypes ==
  ASSUME Types, Marks', \/ BeginDownload \/ ReadBackup \/ EndDownload \/ BeginRestore \/ RestoreConfig
                \/ StageRestore \/ UndoConfig \/ EndRestore
  PROVE  Types'
<1>0. /\ admin \in AdminType /\ \A n \in Name : n[1] # "email" => admin.target[n] = None
      /\ files \in [Name -> Record \cup {None}] /\ backup \in [Name -> Record \cup {None}]
      /\ config \in Setting \cup {"torn"} /\ settings \in Setting /\ restoring \in BOOLEAN
      /\ deleted \in SUBSET Account
  BY DEF Types, AdminOK, TypeOK
<1>1. CASE BeginDownload
  <2>1. /\ admin' = [Idle EXCEPT !.pc = "download", !.left = Listed]
        /\ UNCHANGED <<Unmoved, disk, restoring, backup, settings>>
    BY <1>1 DEF BeginDownload
  <2>2. Listed \in SUBSET Name BY DEF Listed
  <2>3. /\ [Idle EXCEPT !.pc = "download", !.left = Listed] \in AdminType
        /\ \A n \in Name : [Idle EXCEPT !.pc = "download", !.left = Listed].target[n] = None
    BY <2>2 DEF Idle, AdminType, Setting
  <2>4. AdminOK' BY <2>1, <2>3 DEF AdminOK
  <2>5. QED BY <1>0, <2>1, <2>4, TypesByAdmin DEF Unmoved, history, disk
<1>2. CASE ReadBackup
  <2>1. PICK n \in admin.left :
          /\ admin.pc = "download"
          /\ admin' = IF files[n] = None THEN Idle
                      ELSE [admin EXCEPT !.left = @ \ {n}, !.snap[n] = files[n]]
          /\ UNCHANGED <<Unmoved, disk, restoring, backup, settings, visits, faults>>
    BY <1>2 DEF ReadBackup
  <2>2. n \in Name BY <1>0 DEF AdminType
  <2>3. AdminOK'
    <3>1. CASE files[n] = None
      <4>1. Idle \in AdminType /\ \A m \in Name : Idle.target[m] = None
        BY DEF Idle, AdminType, Setting
      <4>2. QED BY <2>1, <3>1, <4>1 DEF AdminOK
    <3>2. CASE files[n] # None
      <4> DEFINE left == admin.left \ {n}
                 snap == [admin.snap EXCEPT ![n] = files[n]]
      <4>1. left \in SUBSET Name /\ snap \in [Name -> Record \cup {None}]
        BY <1>0, <2>2 DEF AdminType
      <4>2. admin' = [admin EXCEPT !.left = left, !.snap = snap] BY <2>1, <3>2 DEF AdminType
      <4> HIDE DEF left, snap
      <4>3. admin' \in AdminType /\ admin'.target = admin.target BY <1>0, <4>1, <4>2 DEF AdminType
      <4>4. QED BY <1>0, <4>3 DEF AdminOK
    <3>3. QED BY <3>1, <3>2
  <2>4. QED BY <1>0, <2>1, <2>3, TypesByAdmin DEF Unmoved, history, disk
<1>3. CASE EndDownload
  <2>1. backup' = admin.snap /\ admin' = Idle /\ UNCHANGED <<Unmoved, disk, restoring, settings, visits, faults>>
    BY <1>3 DEF EndDownload
  <2>2. Idle \in AdminType /\ \A m \in Name : Idle.target[m] = None BY DEF Idle, AdminType, Setting
  <2>3. AdminOK' BY <2>1, <2>2 DEF AdminOK
  <2>4. backup' \in [Name -> Record \cup {None}] BY <1>0, <2>1 DEF AdminType
  <2>5. QED BY <1>0, <2>1, <2>3, <2>4, TypesByAdmin DEF Unmoved, history, disk
<1>4. CASE BeginRestore
  <2>1. /\ \/ restoring' = TRUE /\ admin' = [Idle EXCEPT !.pc = "config", !.target = Target, !.was = settings]
           \/ UNCHANGED <<restoring, admin>>
        /\ UNCHANGED <<Unmoved, disk, backup, settings, faults>>
    BY <1>4 DEF BeginRestore
  <2>2. AdminOK'
    <3>1. PICK target : target = Target OBVIOUS
    <3>2. /\ target \in [Name -> Record \cup {None}]
          /\ \A n \in Name : n[1] # "email" => target[n] = None
      BY <3>1, TargetType
    <3> DEFINE x == [Idle EXCEPT !.pc = "config", !.target = target, !.was = settings]
    <3>3. x \in AdminType /\ x.target = target
      BY <1>0, <3>2 DEF Idle, AdminType, Restores
    <3> HIDE DEF x
    <3>4. admin' = x \/ admin' = admin BY <2>1, <3>1 DEF x
    <3>5. QED BY <1>0, <3>2, <3>3, <3>4 DEF AdminOK
  <2>3. restoring' \in BOOLEAN BY <1>0, <2>1
  <2>4. QED BY <1>0, <2>1, <2>2, <2>3, TypesByAdmin DEF Unmoved, history, disk
<1>5. CASE RestoreConfig
  <2>1. /\ config' \in {"new", config, "torn"}
        /\ \/ admin' = [admin EXCEPT !.pc = "stage"]
           \/ admin' = [admin EXCEPT !.pc = "undone", !.snap = files, !.unsaved = TRUE]
        /\ UNCHANGED <<Unmoved, files, restoring, backup, settings, visits>>
    BY <1>5 DEF RestoreConfig, PersistFails
  <2>2. AdminOK' BY <1>0, <2>1 DEF AdminOK, AdminType, Restores
  <2>3. config' \in Setting \cup {"torn"} BY <1>0, <2>1 DEF Setting
  <2>4. QED BY <1>0, <2>1, <2>2, <2>3, TypesByAdmin DEF Unmoved, history, disk
<1>6. CASE StageRestore
  <2>1. /\ \/ admin' = [admin EXCEPT !.pc = "clear", !.snap = files, !.left = Listed]
           \/ admin' = [admin EXCEPT !.pc = "rewrite", !.snap = files]
        /\ UNCHANGED <<Unmoved, disk, restoring, backup, settings, visits>>
    BY <1>6 DEF StageRestore
  <2>2. Listed \in SUBSET Name BY DEF Listed
  <2>3. AdminOK'
    <3>1. PICK left \in SUBSET Name :
            \/ admin' = [admin EXCEPT !.pc = "clear", !.snap = files, !.left = left]
            \/ admin' = [admin EXCEPT !.pc = "rewrite", !.snap = files]
      BY <2>1, <2>2
    <3>2. QED BY <1>0, <3>1 DEF AdminOK, AdminType, Restores
  <2>4. QED BY <1>0, <2>1, <2>3, TypesByAdmin DEF Unmoved, history, disk
<1>7. CASE UndoConfig
  <2>1. /\ config' \in {admin.was, config, "torn"}
        /\ \/ admin' = [admin EXCEPT !.pc = "undone"]
           \/ admin' = [admin EXCEPT !.pc = "undone", !.unsaved = TRUE]
        /\ UNCHANGED <<Unmoved, files, restoring, backup, settings, visits>>
    BY <1>7 DEF UndoConfig, PersistFails
  <2>2. AdminOK' BY <1>0, <2>1 DEF AdminOK, AdminType, Restores
  <2>3. config' \in Setting \cup {"torn"} BY <1>0, <2>1 DEF AdminType
  <2>4. QED BY <1>0, <2>1, <2>2, <2>3, TypesByAdmin DEF Unmoved, history, disk
<1>8. CASE EndRestore
  <2>1. restoring' = FALSE /\ admin' = Idle /\ UNCHANGED <<Unmoved, disk, backup, settings, visits, faults>>
    BY <1>8 DEF EndRestore
  <2>2. Idle \in AdminType /\ \A m \in Name : Idle.target[m] = None BY DEF Idle, AdminType, Setting
  <2>3. AdminOK' BY <2>1, <2>2 DEF AdminOK
  <2>4. QED BY <1>0, <2>1, <2>3, TypesByAdmin DEF Unmoved, history, disk
<1>9. QED BY <1>1, <1>2, <1>3, <1>4, <1>5, <1>6, <1>7, <1>8

\* The steps of a restore on the files.
LEMMA RestoreTypes ==
  ASSUME Types, Marks', ClearOne \/ Cleared \/ MoveOne \/ UndoOne \/ Undone \/ RewriteOne
  PROVE  Types'
<1>0. /\ admin \in AdminType /\ \A n \in Name : n[1] # "email" => admin.target[n] = None
      /\ files \in [Name -> Record \cup {None}] /\ backup \in [Name -> Record \cup {None}]
      /\ config \in Setting \cup {"torn"} /\ settings \in Setting /\ restoring \in BOOLEAN
      /\ deleted \in SUBSET Account
  BY DEF Types, AdminOK, TypeOK
<1>1. \E left, lost \in SUBSET Name, pc \in Restores :
        admin' = [admin EXCEPT !.pc = pc, !.left = left, !.lost = lost]
  <2>0. admin = [admin EXCEPT !.pc = admin.pc, !.left = admin.left, !.lost = admin.lost]
        /\ admin.lost \in SUBSET Name /\ admin.left \in SUBSET Name
    BY <1>0 DEF AdminType
  <2>1. CASE ClearOne
    <3>1. PICK n \in admin.left :
            /\ admin.pc = "clear"
            /\ \/ admin' = [admin EXCEPT !.left = @ \ {n}]
               \/ admin' = [admin EXCEPT !.pc = "undo", !.left = {}]
      BY <2>1 DEF ClearOne
    <3>2. \/ admin' = [admin EXCEPT !.pc = "clear", !.left = admin.left \ {n}, !.lost = admin.lost]
          \/ admin' = [admin EXCEPT !.pc = "undo", !.left = {}, !.lost = admin.lost]
      BY <1>0, <3>1 DEF AdminType
    <3>3. admin.left \ {n} \in SUBSET Name /\ {} \in SUBSET Name /\ {"clear", "undo"} \subseteq Restores
      BY <2>0 DEF Restores
    <3>4. QED BY <2>0, <3>2, <3>3
  <2>2. CASE Cleared
    <3> DEFINE all == {n \in Name : admin.target[n] # None}
    <3>1. admin' = [admin EXCEPT !.pc = "move", !.left = all, !.lost = admin.lost]
      BY <1>0, <2>2 DEF Cleared, AdminType
    <3>2. all \in SUBSET Name /\ "move" \in Restores BY DEF Restores
    <3> HIDE DEF all
    <3>3. QED BY <2>0, <3>1, <3>2
  <2>3. CASE MoveOne
    <3>1. PICK n \in admin.left :
            /\ admin.pc = "move"
            /\ \/ admin' = [admin EXCEPT !.left = @ \ {n}]
               \/ admin' = [admin EXCEPT !.pc = "undo",
                             !.left = {m \in Name \ admin.left : admin.target[m] # None}]
      BY <2>3 DEF MoveOne
    <3> DEFINE moved == {m \in Name \ admin.left : admin.target[m] # None}
    <3>2. \/ admin' = [admin EXCEPT !.pc = "move", !.left = admin.left \ {n}, !.lost = admin.lost]
          \/ admin' = [admin EXCEPT !.pc = "undo", !.left = moved, !.lost = admin.lost]
      BY <1>0, <3>1 DEF AdminType
    <3>3. /\ admin.left \ {n} \in SUBSET Name /\ {"move", "undo"} \subseteq Restores
          /\ moved \in SUBSET Name
      BY <2>0 DEF Restores
    <3> HIDE DEF moved
    <3>4. QED BY <2>0, <3>2, <3>3
  <2>4. CASE UndoOne \/ RewriteOne
    <3>1. PICK n \in admin.left :
            /\ admin.pc \in {"undo", "rewrite"}
            /\ \/ admin' = [admin EXCEPT !.left = @ \ {n}]
               \/ admin' = [admin EXCEPT !.left = @ \ {n}, !.lost = @ \cup {n}]
               \/ admin' = [admin EXCEPT !.left = @ \ {n}, !.lost = @ \ {n}]
      BY <2>4 DEF UndoOne, RewriteOne
    <3>2. \E lost \in {admin.lost, admin.lost \cup {n}, admin.lost \ {n}} :
            admin' = [admin EXCEPT !.pc = admin.pc, !.left = admin.left \ {n}, !.lost = lost]
      BY <1>0, <3>1 DEF AdminType
    <3>3. /\ admin.left \ {n} \in SUBSET Name /\ admin.lost \cup {n} \in SUBSET Name
          /\ admin.lost \ {n} \in SUBSET Name /\ admin.pc \in Restores
      BY <2>0, <3>1 DEF Restores
    <3>4. QED BY <2>0, <3>2, <3>3
  <2>5. CASE Undone
    <3> DEFINE all == {n \in Name : admin.snap[n] # None}
    <3>1. admin' = [admin EXCEPT !.pc = "rewrite", !.left = all, !.lost = admin.lost]
      BY <1>0, <2>5 DEF Undone, AdminType
    <3>2. all \in SUBSET Name /\ "rewrite" \in Restores BY DEF Restores
    <3> HIDE DEF all
    <3>3. QED BY <2>0, <3>1, <3>2
  <2>6. QED BY <2>1, <2>2, <2>3, <2>4, <2>5
<1>2. AdminOK'
  <2>1. PICK left \in SUBSET Name, lost \in SUBSET Name, pc \in Restores :
          admin' = [admin EXCEPT !.pc = pc, !.left = left, !.lost = lost]
    BY <1>1
  <2>2. admin' \in AdminType /\ admin'.target = admin.target BY <1>0, <2>1 DEF AdminType
  <2>3. QED BY <1>0, <2>2 DEF AdminOK
<1>3. /\ files' \in [Name -> Record \cup {None}] /\ deleted' \in SUBSET Account
      /\ UNCHANGED <<fixed, heap, pool, dirKnown, mutations, dirLock, call, config, restoring, backup, settings>>
  <2>1. \A n \in admin.left : n \in Name /\ admin.snap[n] \in Record \cup {None}
                              /\ admin.target[n] \in Record \cup {None}
    BY <1>0 DEF AdminType
  <2>2. CASE ClearOne BY <1>0, <2>1, <2>2 DEF ClearOne, Unmoved, history
  <2>3. CASE Cleared BY <1>0, <2>3 DEF Cleared, Unmoved, history, disk
  <2>4. CASE MoveOne BY <1>0, <2>1, <2>4 DEF MoveOne
  <2>5. CASE UndoOne BY <1>0, <2>1, <2>5 DEF UndoOne, Unmoved, history
  <2>6. CASE Undone BY <1>0, <2>6 DEF Undone, Unmoved, history, disk
  <2>7. CASE RewriteOne BY <1>0, <2>1, <2>7 DEF RewriteOne, Unmoved, history
  <2>8. QED BY <2>2, <2>3, <2>4, <2>5, <2>6, <2>7
<1>4. QED BY <1>0, <1>2, <1>3, TypesByAdmin

\* The records the pool is filled from.
LEMMA Loaded ==
  ASSUME Types, NEW s \in SUBSET Account, NEW pick \in Picks(s)
  PROVE  /\ [a \in s |-> files[pick[a]]] \in [s -> Record]
         /\ \A a \in s : pick[a] \in Name /\ pick[a][2] = a /\ files[pick[a]] # None
<1>1. \A a \in s : pick[a] \in Name /\ pick[a][2] = a /\ files[pick[a]] # None
  BY DEF Picks, FilesOf
<1>2. \A n \in Name : files[n] # None => files[n] \in Record BY DEF Types, TypeOK
<1>3. QED BY <1>1, <1>2

\* What a restore fills the pool from.
LEMMA SwapFills ==
  ASSUME Types, SwapPool
  PROVE  \E s \in SUBSET Account : \E r \in [s -> Record] :
           /\ Fill([a \in Account |-> None], s, r)
           /\ \A a \in Account : a \in s <=> admin.target[<<"email", a>>] # None
           /\ \A a \in s : /\ r[a].token = admin.target[<<"email", a>>].token
                           /\ r[a].disabled = admin.target[<<"email", a>>].disabled
<1> DEFINE s == {n[2] : n \in {m \in Name : admin.target[m] # None}}
           r == [a \in s |-> [admin.target[<<"email", a>>] EXCEPT !.invalid = FALSE]]
<1>1. Fill([a \in Account |-> None], s, r) BY DEF SwapPool
<1>2. /\ admin.target \in [Name -> Record \cup {None}]
      /\ \A n \in Name : n[1] # "email" => admin.target[n] = None
  BY DEF Types, AdminOK, AdminType
<1>3. \A n \in Name : n[2] \in Account /\ n = <<n[1], n[2]>> BY DEF Name
<1>4. \A a \in Account : <<"email", a>> \in Name /\ <<"email", a>>[2] = a BY DEF Name
<1>5. s \in SUBSET Account BY <1>3
<1>6. ASSUME NEW a \in Account PROVE a \in s <=> admin.target[<<"email", a>>] # None
  <2>1. CASE a \in s
    <3>1. PICK n \in Name : admin.target[n] # None /\ n[2] = a BY <2>1
    <3>2. n = <<"email", a>> BY <1>2, <1>3, <3>1
    <3>3. QED BY <2>1, <3>1, <3>2
  <2>2. CASE admin.target[<<"email", a>>] # None
    <3>1. a \in s BY <1>4, <2>2
    <3>2. QED BY <2>2, <3>1
  <2>3. QED BY <2>1, <2>2
<1> HIDE DEF s
<1>7. ASSUME NEW a \in s
      PROVE  /\ r[a] \in Record
             /\ r[a].token = admin.target[<<"email", a>>].token
             /\ r[a].disabled = admin.target[<<"email", a>>].disabled
  <2>1. a \in Account BY <1>5
  <2>2. admin.target[<<"email", a>>] \in Record BY <1>2, <1>4, <1>6, <2>1
  <2>3. r[a] = [admin.target[<<"email", a>>] EXCEPT !.invalid = FALSE] OBVIOUS
  <2> HIDE DEF r
  <2>4. QED BY <2>2, <2>3 DEF Record
<1>8. r \in [s -> Record]
  <2>1. \A a \in s : [admin.target[<<"email", a>>] EXCEPT !.invalid = FALSE] \in Record BY <1>7
  <2>2. QED BY <2>1
<1> HIDE DEF r
<1>9. QED BY <1>1, <1>5, <1>6, <1>7, <1>8

\* The pool is filled anew, by a restore or a start.
LEMMA RefillTypes ==
  ASSUME Types, Marks', SwapPool \/ Restart
  PROVE  Types'
<1>0. /\ admin \in AdminType /\ \A n \in Name : n[1] # "email" => admin.target[n] = None
      /\ files \in [Name -> Record \cup {None}] /\ backup \in [Name -> Record \cup {None}]
      /\ config \in Setting \cup {"torn"} /\ settings \in Setting /\ restoring \in BOOLEAN
      /\ deleted \in SUBSET Account /\ mutations \in Nat
  BY DEF Types, AdminOK, TypeOK
<1> DEFINE empty == [a \in Account |-> None]
<1>e. empty \in [Account -> Obj \cup {None}] /\ \A a \in Account : empty[a] = None OBVIOUS
<1> HIDE DEF empty
<1>1. CASE SwapPool
  <2>0. PICK s \in SUBSET Account : \E r \in [s -> Record] : Fill(empty, s, r)
    BY <1>1, SwapFills DEF empty
  <2>1. PICK r \in [s -> Record] : Fill(empty, s, r) BY <2>0
  <2>2. /\ settings' = "new" /\ admin' = [admin EXCEPT !.pc = "swapped"]
        /\ UNCHANGED <<fixed, disk, dirKnown, gate, dirLock, call, crashes, backup, visits, faults, deleted>>
    BY <1>1 DEF SwapPool
  <2>3. \A g \in Handler : call'[g].objs \subseteq call[g].objs BY <2>2
  <2>4. HeapOK' /\ pool' \in [Account -> Obj \cup {None}] /\ heap' \in [Obj -> Object \cup {None}]
    BY <1>e, <2>1, <2>3, HeapFilled
  <2>5. AdminOK' BY <1>0, <2>2 DEF AdminOK, AdminType, Restores
  <2>6. TypeOK' BY <1>0, <2>2, <2>4 DEF Types, TypeOK, Marks, Setting, fixed, disk, gate
  <2>7. call' \in [Handler -> CallType] /\ \A h \in Handler : CallOK(call[h])'
    BY <2>2 DEF Types, CallOK, fixed
  <2>8. QED BY <2>4, <2>5, <2>6, <2>7 DEF Types
<1>2. CASE Restart
  <2>0. PICK s \in SUBSET Account : \E pick \in Picks(s) : LoadInto(empty, s, pick)
    BY <1>2 DEF Restart, empty
  <2>1. PICK pick \in Picks(s) : LoadInto(empty, s, pick) BY <2>0
  <2> DEFINE r == [a \in s |-> files[pick[a]]]
  <2>2. r \in [s -> Record] BY <2>1, Loaded
  <2>3. Fill(empty, s, r) BY <2>1 DEF LoadInto
  <2> HIDE DEF r
  <2> DEFINE c(h) == IF call[h].pc = "ready" THEN call[h] ELSE [NewCall EXCEPT !.pc = "done"]
  <2>4. /\ dirKnown' = FALSE /\ mutations' = 0 /\ restoring' = FALSE /\ dirLock' = None
        /\ call' = [h \in Handler |-> c(h)]
        /\ admin' = Idle /\ settings' = IF config = "torn" THEN "other" ELSE config
        /\ UNCHANGED <<fixed, disk, backup, visits, deleted>>
    BY <1>2 DEF Restart
  <2>5. \A h \in Handler : /\ CallOK(c(h)) /\ c(h) \in CallType
                           /\ c(h).objs \subseteq call[h].objs
                           /\ c(h).pc \in {"ready", "done"}
    <3>1. /\ CallOK([NewCall EXCEPT !.pc = "done"])
          /\ [NewCall EXCEPT !.pc = "done"].pc = "done"
          /\ [NewCall EXCEPT !.pc = "done"].objs = {}
      BY IdleCalls DEF NewCall
    <3>2. QED BY <3>1 DEF Types, CallOK
  <2> HIDE DEF c
  <2>6. \A h \in Handler : call'[h] = c(h) BY <2>4
  <2>7. \A g \in Handler : call'[g].objs \subseteq call[g].objs BY <2>5, <2>6
  <2>8. HeapOK' /\ pool' \in [Account -> Obj \cup {None}] /\ heap' \in [Obj -> Object \cup {None}]
    BY <1>e, <2>2, <2>3, <2>7, HeapFilled
  <2>9. call' \in [Handler -> CallType] BY <2>4, <2>5
  <2>10. \A h \in Handler : CallOK(call[h])' BY <2>4, <2>5, <2>6 DEF CallOK, fixed
  <2>11. Idle \in AdminType /\ \A m \in Name : Idle.target[m] = None BY DEF Idle, AdminType, Setting
  <2>12. AdminOK' BY <2>4, <2>11 DEF AdminOK
  <2>13. \A h \in Handler : dirLock' = h <=> call'[h].pc \in {"add", "drop", "write"}
    <3>1. \A h \in Handler : dirLock' # h BY <2>4, FilesAssumption
    <3>2. QED BY <2>5, <2>6, <3>1
  <2>14. TypeOK'
    <3>1. settings' \in Setting BY <1>0, <2>4 DEF Setting
    <3>2. QED BY <1>0, <2>4, <2>8, <2>13, <3>1 DEF Types, TypeOK, Marks, fixed, disk
  <2>15. QED BY <2>8, <2>9, <2>10, <2>12, <2>14 DEF Types
<1>3. QED BY <1>1, <1>2

\* What the first state is: files of some accounts, and an object of its own for each.
LEMMA InitEffect ==
  ASSUME Init
  PROVE  \E s \in SUBSET Account, token, other \in [Account -> Token] :
           /\ files = [n \in Name |-> IF n[1] = "canonical" /\ n[2] \in s
                         THEN [token |-> token[n[2]], disabled |-> FALSE, invalid |-> FALSE] ELSE None]
           /\ backup = [n \in Name |-> IF n[1] = "canonical"
                         THEN [token |-> other[n[2]], disabled |-> FALSE, invalid |-> FALSE] ELSE None]
           /\ pool \in [Account -> Obj \cup {None}] /\ heap \in [Obj -> Object \cup {None}]
           /\ \A a \in s : pool[a] \in Obj /\ heap[pool[a]] = [acct |-> a, token |-> token[a],
                                                                disabled |-> FALSE, invalid |-> FALSE]
           /\ \A a \in Account \ s : pool[a] = None
<1>1. PICK s \in SUBSET Account, other \in [Account -> Token] :
        LET token == [a \in Account |-> CHOOSE t \in Token : login[t] = login[a]] IN
          /\ \A a \in Account : IF "restore" \in offered THEN login[other[a]] = login[a]
                                                         ELSE other[a] = token[a]
          /\ files = [n \in Name |-> IF n[1] = "canonical" /\ n[2] \in s
                        THEN [token |-> token[n[2]], disabled |-> FALSE, invalid |-> FALSE] ELSE None]
          /\ backup = [n \in Name |-> IF n[1] = "canonical"
                        THEN [token |-> other[n[2]], disabled |-> FALSE, invalid |-> FALSE] ELSE None]
          /\ Places(s, Obj) # {}
          /\ \E at \in {CHOOSE f \in Places(s, Obj) : TRUE} :
               /\ pool = [a \in Account |-> IF a \in s THEN at[a] ELSE None]
               /\ heap = [o \in Obj |-> IF \E a \in s : at[a] = o
                            THEN LET a == CHOOSE b \in s : at[b] = o IN
                                 [acct |-> a, token |-> token[a], disabled |-> FALSE, invalid |-> FALSE]
                            ELSE None]
  BY Zenon DEF Init
<1> DEFINE token == [a \in Account |-> CHOOSE t \in Token : login[t] = login[a]]
<1>2. token \in [Account -> Token]
  <2>1. login \in Logins BY DEF Init
  <2>2. \A a \in Account : \E t \in Token : login[t] = login[a] BY <2>1, FilesAssumption
  <2>3. \A a \in Account : (CHOOSE t \in Token : login[t] = login[a]) \in Token BY <2>2
  <2>4. QED BY <2>3
<1>3. /\ files = [n \in Name |-> IF n[1] = "canonical" /\ n[2] \in s
                    THEN [token |-> token[n[2]], disabled |-> FALSE, invalid |-> FALSE] ELSE None]
      /\ backup = [n \in Name |-> IF n[1] = "canonical"
                    THEN [token |-> other[n[2]], disabled |-> FALSE, invalid |-> FALSE] ELSE None]
      /\ Places(s, Obj) # {}
  BY <1>1
<1>p. PICK at \in {CHOOSE f \in Places(s, Obj) : TRUE} :
        /\ pool = [a \in Account |-> IF a \in s THEN at[a] ELSE None]
        /\ heap = [o \in Obj |-> IF \E a \in s : at[a] = o
                     THEN LET a == CHOOSE b \in s : at[b] = o IN
                          [acct |-> a, token |-> token[a], disabled |-> FALSE, invalid |-> FALSE]
                     ELSE None]
  BY <1>1
<1> DEFINE of(o) == CHOOSE b \in s : at[b] = o
<1>q. /\ at \in Places(s, Obj)
      /\ pool = [a \in Account |-> IF a \in s THEN at[a] ELSE None]
      /\ heap = [o \in Obj |-> IF \E a \in s : at[a] = o
                   THEN [acct |-> of(o), token |-> token[of(o)], disabled |-> FALSE, invalid |-> FALSE]
                   ELSE None]
  BY <1>3, <1>p
<1> HIDE DEF token
<1>4. at \in [s -> Obj] /\ \A a, b \in s : a # b => at[a] # at[b] BY <1>q DEF Places
<1>5. ASSUME NEW a \in s PROVE of(at[a]) = a
  <2>1. \E b \in s : at[b] = at[a] OBVIOUS
  <2>2. of(at[a]) \in s /\ at[of(at[a])] = at[a] BY <2>1
  <2>3. QED BY <1>4, <2>2
<1>6. \A o \in Obj : (\E a \in s : at[a] = o) => of(o) \in s OBVIOUS
<1> HIDE DEF of
<1>7. \A a \in s : [acct |-> a, token |-> token[a], disabled |-> FALSE, invalid |-> FALSE] \in Object
  BY <1>2 DEF Object
<1>8. heap \in [Obj -> Object \cup {None}]
  <2>1. \A o \in Obj : (IF \E a \in s : at[a] = o
                        THEN [acct |-> of(o), token |-> token[of(o)], disabled |-> FALSE, invalid |-> FALSE]
                        ELSE None) \in Object \cup {None}
    BY <1>6, <1>7
  <2>2. QED BY <1>q, <2>1
<1>9. ASSUME NEW a \in s
      PROVE  /\ pool[a] = at[a] /\ at[a] \in Obj
             /\ heap[at[a]] = [acct |-> a, token |-> token[a], disabled |-> FALSE, invalid |-> FALSE]
  BY <1>q, <1>4, <1>5
<1>10. \A a \in Account \ s : pool[a] = None BY <1>q
<1>11. pool \in [Account -> Obj \cup {None}] BY <1>q, <1>4
<1>12. \A a \in s : pool[a] \in Obj /\ heap[pool[a]] = [acct |-> a, token |-> token[a],
                                                      disabled |-> FALSE, invalid |-> FALSE]
  BY <1>9
<1>13. WITNESS s \in SUBSET Account, token \in [Account -> Token], other \in [Account -> Token]
<1>14. QED BY <1>3, <1>8, <1>10, <1>11, <1>12

\* The types hold initially.
LEMMA InitTypes ==
  ASSUME Init
  PROVE  Types
<1>1. PICK s \in SUBSET Account, token, other \in [Account -> Token] :
        /\ files = [n \in Name |-> IF n[1] = "canonical" /\ n[2] \in s
                      THEN [token |-> token[n[2]], disabled |-> FALSE, invalid |-> FALSE] ELSE None]
        /\ backup = [n \in Name |-> IF n[1] = "canonical"
                      THEN [token |-> other[n[2]], disabled |-> FALSE, invalid |-> FALSE] ELSE None]
        /\ pool \in [Account -> Obj \cup {None}] /\ heap \in [Obj -> Object \cup {None}]
        /\ \A a \in s : pool[a] \in Obj /\ heap[pool[a]] = [acct |-> a, token |-> token[a],
                                                             disabled |-> FALSE, invalid |-> FALSE]
        /\ \A a \in Account \ s : pool[a] = None
  BY InitEffect
<1>2. \A a \in s : [acct |-> a, token |-> token[a], disabled |-> FALSE, invalid |-> FALSE] \in Object
  BY <1>1 DEF Object
<1>3. call = [h \in Handler |-> NewCall] /\ admin = Idle BY DEF Init
<1>4. NewCall \in CallType /\ CallOK(NewCall) /\ NewCall.objs = {} /\ NewCall.pc = "ready"
  BY FilesAssumption DEF NewCall, CallOK, CallType, Pcs, Kinds
<1>5. Used = InPool
  <2>1. \A h \in Handler : call[h].objs = {} BY <1>3, <1>4
  <2>2. QED BY <2>1 DEF Used
<1>6. HeapOK
  <2>1. ASSUME NEW o \in InPool PROVE heap[o] \in Object
    <3>1. PICK a \in Account : pool[a] = o /\ o \in Obj BY <2>1 DEF InPool
    <3>2. o # None BY <3>1, FilesAssumption
    <3>3. a \in s BY <1>1, <3>1, <3>2
    <3>4. QED BY <1>1, <1>2, <3>1, <3>3
  <2>2. ASSUME NEW a \in Account, pool[a] # None PROVE heap[pool[a]].acct = a
    <3>1. a \in s BY <1>1, <2>2
    <3>2. heap[pool[a]] = [acct |-> a, token |-> token[a], disabled |-> FALSE, invalid |-> FALSE]
      BY <1>1, <3>1
    <3>3. QED BY <3>2
  <2>3. QED BY <1>5, <2>1, <2>2 DEF HeapOK
<1>7. AdminOK BY <1>3 DEF AdminOK, Idle, AdminType, Setting
<1>8. files \in [Name -> Record \cup {None}] /\ backup \in [Name -> Record \cup {None}]
  <2>1. \A n \in Name : n[2] \in Account BY DEF Name
  <2>2. \A n \in Name : /\ [token |-> token[n[2]], disabled |-> FALSE, invalid |-> FALSE] \in Record
                        /\ [token |-> other[n[2]], disabled |-> FALSE, invalid |-> FALSE] \in Record
    BY <2>1 DEF Record
  <2>3. QED BY <1>1, <2>2
<1>9. \A h \in Handler : dirLock = h <=> call[h].pc \in {"add", "drop", "write"}
  <2>1. dirLock = None BY DEF Init
  <2>2. QED BY <1>3, <1>4, <2>1, FilesAssumption
<1>10. TypeOK BY <1>1, <1>8, <1>9 DEF TypeOK, Init, Setting
<1>11. QED BY <1>3, <1>4, <1>6, <1>7, <1>10 DEF Types

\* Only accounts are set apart.
LEMMA MarksNext ==
  ASSUME Types, [Next]_vars
  PROVE  Marks'
<1>0. Marks /\ admin.left \subseteq Name /\ \A n \in Name : n[2] \in Account
  BY DEF Types, TypeOK, Marks, AdminOK, AdminType, Name
<1>1. CASE \E h \in Handler : Start(h) \/ Continue(h)
  <2>1. PICK h \in Handler : Start(h) \/ Continue(h) BY <1>1
  <2>2. CASE Start(h)
    BY <1>0, <2>2 DEF Start, BeginImport, BeginDelete, BeginRefresh, BeginToggle, BeginReject, Begin,
                      Marks, disk, history, Quiet
  <2>3. CASE SaveImport(h) \/ LoadActive(h) \/ AddActive(h) \/ Reload(h) \/ ReadListed(h)
    <3>1. call[h].pc = "import" => call[h].todo \subseteq Account BY DEF Types, CallOK
    <3>2. call[h].pc \in {"activate", "add"} => call[h].acct \in Account BY DEF Types, CallOK
    <3>3. call[h].pc = "list" => call[h].todo \subseteq Name BY DEF Types, CallOK
    <3>4. cutOff' = cutOff
      BY <2>3 DEF SaveImport, LoadActive, AddActive, Reload, ReadListed
    <3>5. CASE SaveImport(h) BY <1>0, <3>1, <3>4, <3>5 DEF SaveImport, Marks, history
    <3>6. CASE LoadActive(h) BY <1>0, <3>2, <3>4, <3>6 DEF LoadActive, Marks
    <3>7. CASE AddActive(h) BY <1>0, <3>2, <3>4, <3>7 DEF AddActive, Marks
    <3>8. CASE Reload(h) BY <1>0, <3>4, <3>8 DEF Reload, Marks
    <3>9. CASE ReadListed(h) BY <1>0, <3>3, <3>4, <3>9 DEF ReadListed, Marks
    <3>10. QED BY <2>3, <3>5, <3>6, <3>7, <3>8, <3>9
  <2>4. CASE WriteSaved(h) \/ EndCall(h)
    BY <1>0, <2>4 DEF WriteSaved, EndCall, Marks, disk, history
  <2>5. CASE Continue(h) /\ UNCHANGED Quiet
    BY <1>0, <2>5 DEF Marks, Quiet
  <2>6. Continue(h) => \/ SaveImport(h) \/ LoadActive(h) \/ AddActive(h) \/ Reload(h)
                       \/ ReadListed(h) \/ WriteSaved(h) \/ EndCall(h) \/ UNCHANGED Quiet
    BY DEF Continue, SkipImport, NothingToImport, AddListed, EndReload, FindDeleted, EraseFile,
           DeleteFile, DropDeleted, SnapshotPool, Resolve, SetFlag, Revert, ReadSaved, SavedAll,
           Mark, Marked
  <2>7. QED BY <2>1, <2>2, <2>3, <2>4, <2>5, <2>6
<1>2. CASE Backup
  <2>1. CASE BeginDownload \/ ReadBackup \/ EndDownload \/ BeginRestore \/ StageRestore \/ Cleared
             \/ Undone \/ EndRestore
    BY <1>0, <2>1 DEF BeginDownload, ReadBackup, EndDownload, BeginRestore, StageRestore, Cleared,
                      Undone, EndRestore, Marks, Unmoved, disk, history
  <2>2. CASE RestoreConfig \/ ClearOne \/ UndoConfig \/ MoveOne
    BY <1>0, <2>2 DEF RestoreConfig, ClearOne, UndoConfig, MoveOne, Marks, Unmoved, history
  <2>3. CASE SwapPool BY <1>0, <2>3 DEF SwapPool, Marks, disk
  <2>4. CASE UndoOne BY <1>0, <2>4 DEF UndoOne, Marks
  <2>5. CASE RewriteOne BY <1>0, <2>5 DEF RewriteOne, Marks
  <2>6. QED BY <1>2, <2>1, <2>2, <2>3, <2>4, <2>5 DEF Backup
<1>3. CASE Restart BY <1>0, <1>3 DEF Restart, Marks, disk
<1>4. CASE UNCHANGED vars BY <1>0, <1>4 DEF vars, Marks
<1>5. QED BY <1>1, <1>2, <1>3, <1>4 DEF Next

\* Every step keeps the types.
LEMMA TypesNext ==
  ASSUME Types, [Next]_vars
  PROVE  Types'
<1>0. Marks' BY MarksNext
<1>1. CASE \E h \in Handler : Start(h) \/ Continue(h)
  <2>1. PICK h \in Handler : Start(h) \/ Continue(h) BY <1>1
  <2>2. CASE Start(h) BY <1>0, <2>2, StartTypes
  <2>3. CASE Continue(h)
    BY <1>0, <2>3, CallOnlyTypes, ImportTypes, ReloadTypes, DeleteTypes, ObjectTypes, SaveTypes
       DEF Continue
  <2>4. QED BY <2>1, <2>2, <2>3
<1>2. CASE Backup BY <1>0, <1>2, VisitTypes, RestoreTypes, RefillTypes DEF Backup
<1>3. CASE Restart BY <1>0, <1>3, RefillTypes
<1>4. CASE UNCHANGED vars
  <2>1. Used' = Used BY <1>4 DEF Used, InPool, vars
  <2>2. HeapOK' BY <1>4, <2>1 DEF HeapOK, Types, vars
  <2>3. TypeOK' BY <1>4 DEF TypeOK, Types, vars, gate
  <2>4. /\ call' \in [Handler -> CallType] /\ \A h \in Handler : CallOK(call[h])'
        /\ AdminOK'
    BY <1>4 DEF Types, CallOK, AdminOK, vars
  <2>5. QED BY <2>2, <2>3, <2>4 DEF Types
<1>5. QED BY <1>1, <1>2, <1>3, <1>4 DEF Next

\* Every variable keeps its type, and the directory lock is held where the code holds it.
THEOREM TypeCorrect == Spec => []TypeOK
<1>1. Init => Types BY InitTypes
<1>2. Types /\ [Next]_vars => Types' BY TypesNext
<1>3. Types => TypeOK BY DEF Types
<1>4. QED BY <1>1, <1>2, <1>3, PTL DEF Spec

-----------------------------------------------------------------------------
(* The maintenance gate.                                                   *)

\* A step in the middle of a call is about that call.
LEMMA MidStep ==
  ASSUME Types, NEW h \in Handler, Continue(h), ~ EndCall(h)
  PROVE  /\ \A g \in Handler \ {h} : call'[g] = call[g]
         /\ UNCHANGED Untouched
         /\ call[h].pc \notin {"ready", "done", "end"}
         /\ call'[h].kind \in {call[h].kind, None}
         /\ call'[h].pc # "ready"
         /\ IF call[h].kind = "reject" THEN call'[h].kind = "reject" \/ call'[h].pc = "done"
                                       ELSE call'[h].pc # "done"
<1>0. call \in [Handler -> CallType] /\ call[h] \in CallType BY DEF Types
<1>1. CASE SkipImport(h) BY <1>0, <1>1 DEF SkipImport, CallType, Quiet
<1>2. CASE SaveImport(h)
  <2>1. PICK a \in call[h].todo, pc \in {"activate", "reload", "end"} :
          /\ \E todo : call' = [call EXCEPT ![h].todo = todo, ![h].acct = a, ![h].pc = pc]
          /\ call[h].pc = "import" /\ UNCHANGED Untouched
    BY <1>2 DEF SaveImport, Quiet
  <2>2. call'[h].kind = call[h].kind /\ call'[h].pc = pc /\ \A g \in Handler \ {h} : call'[g] = call[g]
    BY <1>0, <2>1 DEF CallType
  <2>3. call[h].kind # "reject" BY <2>1 DEF Types, CallOK
  <2>4. QED BY <2>1, <2>2, <2>3
<1>3. CASE LoadActive(h)
  <2>1. call[h].pc = "activate" /\ UNCHANGED Untouched BY <1>3 DEF LoadActive, Quiet
  <2>2. PICK r : \/ call' = [call EXCEPT ![h].pc = "add", ![h].read = r]
                 \/ call' = [call EXCEPT ![h].pc = "end"]
    BY <1>3 DEF LoadActive, Quiet
  <2>3. call'[h].kind = call[h].kind /\ call'[h].pc \in {"add", "end"}
        /\ \A g \in Handler \ {h} : call'[g] = call[g]
    BY <1>0, <2>2 DEF CallType
  <2>4. call[h].kind # "reject" BY <2>1 DEF Types, CallOK
  <2>5. QED BY <2>1, <2>3, <2>4
<1>4. CASE AddActive(h)
  <2>1. PICK pc \in {"end", "import"} :
          /\ call' = [call EXCEPT ![h].read = None, ![h].acct = None, ![h].pc = pc]
          /\ call[h].pc = "add" /\ UNCHANGED Untouched
    BY <1>4 DEF AddActive, Quiet
  <2>2. call'[h].kind = call[h].kind /\ call'[h].pc = pc /\ \A g \in Handler \ {h} : call'[g] = call[g]
    BY <1>0, <2>1 DEF CallType
  <2>3. call[h].kind # "reject" BY <2>1 DEF Types, CallOK
  <2>4. QED BY <2>1, <2>2, <2>3
<1>5. CASE NothingToImport(h)
  <2>1. call' = [call EXCEPT ![h].pc = "end"] /\ call[h].pc = "import" /\ UNCHANGED Untouched
    BY <1>5 DEF NothingToImport, Quiet
  <2>2. call'[h].kind = call[h].kind /\ call'[h].pc = "end" /\ \A g \in Handler \ {h} : call'[g] = call[g]
    BY <1>0, <2>1 DEF CallType
  <2>3. call[h].kind # "reject" BY <2>1 DEF Types, CallOK
  <2>4. QED BY <2>1, <2>2, <2>3
<1>6. CASE Reload(h) \/ ReadListed(h) \/ AddListed(h) \/ EndReload(h)
  <2>1. UNCHANGED Untouched /\ call[h].pc \in {"reload", "list", "listed"}
    BY <1>6 DEF Reload, ReadListed, AddListed, EndReload, Quiet
  <2> DEFINE Goes(pc) == /\ call'[h].kind = call[h].kind /\ call'[h].pc = pc
                         /\ \A g \in Handler \ {h} : call'[g] = call[g]
  <2>2. ASSUME Reload(h) PROVE \E pc \in {"list", "listed", "end"} : Goes(pc)
    <3>1. CASE call' = [call EXCEPT ![h].pc = "list", ![h].todo = Listed, ![h].acct = None]
      <4>1. Goes("list") BY <1>0, <3>1 DEF CallType
      <4>2. QED BY <4>1
    <3>2. CASE call' = [call EXCEPT ![h].pc = "end", ![h].acct = None]
      <4>1. Goes("end") BY <1>0, <3>2 DEF CallType
      <4>2. QED BY <4>1
    <3>3. QED BY <2>2, <3>1, <3>2 DEF Reload
  <2>6. ASSUME ReadListed(h) PROVE \E pc \in {"list", "listed", "end"} : Goes(pc)
    <3>1. PICK n :
            \/ call' = [call EXCEPT ![h].pc = "listed", ![h].todo = @ \ {n}, ![h].acct = n[2],
                                    ![h].read = files[n]]
            \/ call' = [call EXCEPT ![h].todo = @ \ {n}] /\ call[h].pc = "list"
      BY <2>6 DEF ReadListed
    <3>2. PICK acct, r : acct = n[2] /\ r = files[n] OBVIOUS
    <3>3. \/ call' = [call EXCEPT ![h].pc = "listed", ![h].todo = @ \ {n}, ![h].acct = acct,
                                  ![h].read = r]
          \/ call' = [call EXCEPT ![h].todo = @ \ {n}] /\ call[h].pc = "list"
      BY <3>1, <3>2
    <3>4. Goes("listed") \/ Goes("list") BY <1>0, <3>3 DEF CallType
    <3>5. QED BY <3>4
  <2>7. ASSUME AddListed(h) PROVE \E pc \in {"list", "listed", "end"} : Goes(pc)
    <3>1. call' = [call EXCEPT ![h].pc = "list", ![h].read = None, ![h].acct = None]
      BY <2>7 DEF AddListed
    <3>2. Goes("list") BY <1>0, <3>1 DEF CallType
    <3>3. QED BY <3>2
  <2>8. ASSUME EndReload(h) PROVE \E pc \in {"list", "listed", "end"} : Goes(pc)
    <3>1. call' = [call EXCEPT ![h].pc = "end"] BY <2>8 DEF EndReload
    <3>2. Goes("end") BY <1>0, <3>1 DEF CallType
    <3>3. QED BY <3>2
  <2>3. \E pc \in {"list", "listed", "end"} : Goes(pc) BY <1>6, <2>2, <2>6, <2>7, <2>8
  <2>4. call[h].kind # "reject" BY <2>1 DEF Types, CallOK
  <2>5. QED BY <2>1, <2>3, <2>4
<1>7. CASE FindDeleted(h)
  <2>1. PICK pc, t :
          /\ pc \in {"remove", "end", "erase"}
          /\ \/ call' = [call EXCEPT ![h].pc = pc, ![h].token = t]
             \/ call' = [call EXCEPT ![h].pc = pc]
          /\ call[h].pc = "find" /\ UNCHANGED Untouched
    BY <1>7 DEF FindDeleted, Quiet
  <2>2. call'[h].kind = call[h].kind /\ call'[h].pc = pc /\ \A g \in Handler \ {h} : call'[g] = call[g]
    BY <1>0, <2>1 DEF CallType
  <2>3. call[h].kind # "reject" BY <2>1 DEF Types, CallOK
  <2>4. QED BY <2>1, <2>2, <2>3
<1>8. CASE EraseFile(h)
  <2>1. call' = [call EXCEPT ![h].pc = "end"] /\ call[h].pc = "erase" /\ UNCHANGED Untouched
    BY <1>8 DEF EraseFile, Quiet
  <2>2. call'[h].kind = call[h].kind /\ call'[h].pc = "end" /\ \A g \in Handler \ {h} : call'[g] = call[g]
    BY <1>0, <2>1 DEF CallType
  <2>3. call[h].kind # "reject" BY <2>1 DEF Types, CallOK
  <2>4. QED BY <2>1, <2>2, <2>3
<1>9. CASE DeleteFile(h)
  <2>1. PICK pc \in {"drop", "end"} :
          call' = [call EXCEPT ![h].pc = pc] /\ call[h].pc = "remove" /\ UNCHANGED Untouched
    BY <1>9 DEF DeleteFile, Quiet
  <2>2. call'[h].kind = call[h].kind /\ call'[h].pc = pc /\ \A g \in Handler \ {h} : call'[g] = call[g]
    BY <1>0, <2>1 DEF CallType
  <2>3. call[h].kind # "reject" BY <2>1 DEF Types, CallOK
  <2>4. QED BY <2>1, <2>2, <2>3
<1>10. CASE DropDeleted(h)
  <2>1. call' = [call EXCEPT ![h].pc = "end"] /\ call[h].pc = "drop" /\ UNCHANGED Untouched
    BY <1>10 DEF DropDeleted, Quiet
  <2>2. call'[h].kind = call[h].kind /\ call'[h].pc = "end" /\ \A g \in Handler \ {h} : call'[g] = call[g]
    BY <1>0, <2>1 DEF CallType
  <2>3. call[h].kind # "reject" BY <2>1 DEF Types, CallOK
  <2>4. QED BY <2>1, <2>2, <2>3
<1>11. CASE SnapshotPool(h)
  <2>1. call' = [call EXCEPT ![h].pc = "save", ![h].todo = InPool, ![h].objs = InPool]
        /\ call[h].pc = "snapshot" /\ UNCHANGED Untouched
    BY <1>11 DEF SnapshotPool, Quiet
  <2>2. call'[h].kind = call[h].kind /\ call'[h].pc = "save" /\ \A g \in Handler \ {h} : call'[g] = call[g]
    BY <1>0, <2>1 DEF CallType
  <2>3. call[h].kind # "reject" BY <2>1 DEF Types, CallOK
  <2>4. QED BY <2>1, <2>2, <2>3
<1>12. CASE Resolve(h)
  <2>1. PICK pc, objs :
          pc \in {"end", "flag"} /\ call' = [call EXCEPT ![h].acct = None, ![h].pc = pc, ![h].objs = objs]
          /\ call[h].pc = "resolve" /\ UNCHANGED Untouched
    BY <1>12 DEF Resolve, Quiet
  <2>2. call'[h].kind = call[h].kind /\ call'[h].pc = pc /\ \A g \in Handler \ {h} : call'[g] = call[g]
    BY <1>0, <2>1 DEF CallType
  <2>3. call[h].kind # "reject" BY <2>1 DEF Types, CallOK
  <2>4. QED BY <2>1, <2>2, <2>3
<1>13. CASE SetFlag(h)
  <2>1. PICK d, todo :
          call' = [call EXCEPT ![h].prev = d, ![h].todo = todo, ![h].pc = "save"]
          /\ call[h].pc = "flag" /\ UNCHANGED Untouched
    BY <1>13 DEF SetFlag, Quiet
  <2>2. call'[h].kind = call[h].kind /\ call'[h].pc = "save" /\ \A g \in Handler \ {h} : call'[g] = call[g]
    BY <1>0, <2>1 DEF CallType
  <2>3. call[h].kind # "reject" BY <2>1 DEF Types, CallOK
  <2>4. QED BY <2>1, <2>2, <2>3
<1>14. CASE Revert(h)
  <2>1. call' = [call EXCEPT ![h] = [NewCall EXCEPT !.pc = "end"]] /\ call[h].pc = "revert" /\ UNCHANGED Untouched
    BY <1>14 DEF Revert, Quiet
  <2>2. call'[h].kind = None /\ call'[h].pc = "end" /\ \A g \in Handler \ {h} : call'[g] = call[g]
    BY <1>0, <2>1 DEF NewCall
  <2>3. call[h].kind # "reject" BY <2>1 DEF Types, CallOK
  <2>4. QED BY <2>1, <2>2, <2>3
<1>15. CASE ReadSaved(h)
  <2>1. PICK o \in call[h].todo :
          LET a == heap[o].acct
              found == /\ Cardinality(FilesOf(a)) = 1
                       /\ \A n \in FilesOf(a) : files[n].token = heap[o].token IN
          /\ call[h].pc = "save" /\ dirLock = None
          /\ IF found
             THEN /\ dirLock' = h
                  /\ call' = [call EXCEPT ![h].pc = "write", ![h].acct = CHOOSE n \in FilesOf(a) : TRUE,
                       ![h].read = [token |-> heap[o].token, disabled |-> heap[o].disabled,
                                    invalid |-> heap[o].invalid],
                       ![h].todo = @ \ {o}]
             ELSE /\ call' = [call EXCEPT ![h].pc = IF call[h].kind = "toggle" THEN "revert" ELSE "save",
                                ![h].todo = @ \ {o}]
                  /\ UNCHANGED dirLock
          /\ UNCHANGED <<Quiet, files, heap, pool, dirKnown, faults, deleted>>
    BY <1>15 DEF ReadSaved, Quiet
  <2> DEFINE n == CHOOSE m \in FilesOf(heap[o].acct) : TRUE
             r == [token |-> heap[o].token, disabled |-> heap[o].disabled, invalid |-> heap[o].invalid]
  <2>2. /\ \/ call' = [call EXCEPT ![h].pc = "write", ![h].acct = n, ![h].read = r, ![h].todo = @ \ {o}]
           \/ call' = [call EXCEPT ![h].pc = "revert", ![h].todo = @ \ {o}]
           \/ call' = [call EXCEPT ![h].pc = "save", ![h].todo = @ \ {o}]
        /\ call[h].pc = "save" /\ UNCHANGED Untouched
    BY <2>1 DEF Quiet
  <2> HIDE DEF n, r
  <2>3. call'[h].kind = call[h].kind /\ call'[h].pc \in {"write", "revert", "save"}
        /\ \A g \in Handler \ {h} : call'[g] = call[g]
    BY <1>0, <2>2 DEF CallType
  <2>4. QED BY <2>2, <2>3
<1>16. CASE WriteSaved(h)
  <2>1. PICK pc \in {"revert", "save"} :
          /\ call' = [call EXCEPT ![h].pc = pc, ![h].acct = None, ![h].read = None]
          /\ call[h].pc = "write" /\ UNCHANGED Untouched
    BY <1>16 DEF WriteSaved, Quiet
  <2>2. call'[h].kind = call[h].kind /\ call'[h].pc = pc /\ \A g \in Handler \ {h} : call'[g] = call[g]
    BY <1>0, <2>1 DEF CallType
  <2>3. QED BY <2>1, <2>2
<1>17. CASE SavedAll(h)
  <2>1. /\ call' = [call EXCEPT ![h] = [NewCall EXCEPT !.pc = IF call[h].kind = "reject" THEN "done" ELSE "end"]]
        /\ call[h].pc = "save" /\ UNCHANGED Untouched
    BY <1>17 DEF SavedAll, Quiet
  <2>2. /\ call'[h].kind = None /\ call'[h].pc = IF call[h].kind = "reject" THEN "done" ELSE "end"
        /\ \A g \in Handler \ {h} : call'[g] = call[g]
    BY <1>0, <2>1 DEF NewCall
  <2>3. QED BY <2>1, <2>2
<1>18. CASE Mark(h)
  <2>1. PICK o : call' = [call EXCEPT ![h].todo = @ \ {o}] /\ call[h].pc = "mark" /\ UNCHANGED Untouched
    BY <1>18 DEF Mark, Quiet
  <2>2. call'[h].kind = call[h].kind /\ call'[h].pc = "mark" /\ \A g \in Handler \ {h} : call'[g] = call[g]
    BY <1>0, <2>1 DEF CallType
  <2>3. QED BY <2>1, <2>2
<1>19. CASE Marked(h)
  <2>1. PICK todo : /\ call' = [call EXCEPT ![h].pc = "save", ![h].todo = todo]
                    /\ call[h].pc = "mark" /\ UNCHANGED Untouched
    BY <1>19 DEF Marked, Quiet
  <2>2. call'[h].kind = call[h].kind /\ call'[h].pc = "save" /\ \A g \in Handler \ {h} : call'[g] = call[g]
    BY <1>0, <2>1 DEF CallType
  <2>3. QED BY <2>1, <2>2
<1>20. QED BY <1>1, <1>2, <1>3, <1>4, <1>5, <1>6, <1>7, <1>8, <1>9, <1>10, <1>11, <1>12, <1>13, <1>14,
              <1>15, <1>16, <1>17, <1>18, <1>19 DEF Continue

\* The first step of a call: it is refused, enters the gate, or is a rejected login.
LEMMA StartStep ==
  ASSUME Types, NEW h \in Handler, Start(h)
  PROVE  /\ \A g \in Handler \ {h} : call'[g] = call[g]
         /\ UNCHANGED <<fixed, disk, heap, pool, dirKnown, restoring, dirLock, backups, faults, history>>
         /\ call[h].pc = "ready"
         /\ \/ call'[h].pc = "done" /\ call'[h].objs = {} /\ mutations' = mutations
            \/ /\ ~ restoring /\ mutations' = mutations + 1
               /\ call'[h].pc \in {"import", "find", "snapshot", "resolve"}
               /\ call'[h].kind # "reject" /\ call'[h].objs = {}
            \/ /\ "reject" \in offered /\ mutations' = mutations
               /\ call'[h].pc = "mark" /\ call'[h].kind = "reject" /\ call'[h].objs \subseteq InPool
<1>0. call \in [Handler -> CallType] BY DEF Types
<1>b. ASSUME NEW kind, NEW c, Begin(h, kind, c), c.objs = {}, c.kind # "reject",
             c.pc \in {"import", "find", "snapshot", "resolve"}
      PROVE  /\ \A g \in Handler \ {h} : call'[g] = call[g]
             /\ UNCHANGED <<fixed, disk, heap, pool, dirKnown, restoring, dirLock, backups, faults, history>>
             /\ call[h].pc = "ready"
             /\ \/ call'[h].pc = "done" /\ call'[h].objs = {} /\ mutations' = mutations
                \/ /\ ~ restoring /\ mutations' = mutations + 1
                   /\ call'[h].pc \in {"import", "find", "snapshot", "resolve"}
                   /\ call'[h].kind # "reject" /\ call'[h].objs = {}
  <2>1. /\ call[h].pc = "ready"
        /\ UNCHANGED <<fixed, disk, heap, pool, dirKnown, restoring, dirLock, backups, faults, history>>
    BY <1>b DEF Begin
  <2>2. CASE restoring
    <3>1. call' = [call EXCEPT ![h] = [NewCall EXCEPT !.pc = "done"]] /\ mutations' = mutations
      BY <1>b, <2>2 DEF Begin, Done
    <3>2. /\ \A g \in Handler \ {h} : call'[g] = call[g]
          /\ call'[h].pc = "done" /\ call'[h].objs = {}
      BY <1>0, <3>1 DEF NewCall
    <3>3. QED BY <2>1, <3>1, <3>2
  <2>3. CASE ~ restoring
    <3>1. call' = [call EXCEPT ![h] = c] /\ mutations' = mutations + 1 BY <1>b, <2>3 DEF Begin
    <3>2. (\A g \in Handler \ {h} : call'[g] = call[g]) /\ call'[h] = c BY <1>0, <3>1
    <3>3. QED BY <1>b, <2>1, <2>3, <3>1, <3>2
  <2>4. QED BY <2>2, <2>3
<1>1. CASE BeginImport(h)
  <2>1. PICK t \in Token, s \in SUBSET Account \ {{}}, kind \in {"import", "register"} :
          Begin(h, kind, [NewCall EXCEPT !.kind = kind, !.pc = "import", !.todo = s, !.token = t])
    BY <1>1 DEF BeginImport
  <2> DEFINE c == [NewCall EXCEPT !.kind = kind, !.pc = "import", !.todo = s, !.token = t]
  <2>2. c.objs = {} /\ c.kind # "reject" /\ c.pc = "import" BY DEF NewCall
  <2> HIDE DEF c
  <2>3. Begin(h, kind, c) BY <2>1 DEF c
  <2>4. QED BY <1>b, <2>2, <2>3
<1>2. CASE BeginDelete(h)
  <2>1. PICK a \in Account, kind \in {"delete", "erase"} :
          Begin(h, kind, [NewCall EXCEPT !.kind = kind, !.pc = "find", !.acct = a])
    BY <1>2 DEF BeginDelete
  <2> DEFINE c == [NewCall EXCEPT !.kind = kind, !.pc = "find", !.acct = a]
  <2>2. c.objs = {} /\ c.kind # "reject" /\ c.pc = "find" BY DEF NewCall
  <2> HIDE DEF c
  <2>3. Begin(h, kind, c) BY <2>1 DEF c
  <2>4. QED BY <1>b, <2>2, <2>3
<1>3. CASE BeginRefresh(h)
  <2> DEFINE c == [NewCall EXCEPT !.kind = "refresh", !.pc = "snapshot"]
  <2>2. c.objs = {} /\ c.kind # "reject" /\ c.pc = "snapshot" BY DEF NewCall
  <2> HIDE DEF c
  <2>3. Begin(h, "refresh", c) BY <1>3 DEF BeginRefresh, c
  <2>4. QED BY <1>b, <2>2, <2>3
<1>4. CASE BeginToggle(h)
  <2>1. PICK a \in Account, d \in BOOLEAN :
          Begin(h, "toggle", [NewCall EXCEPT !.kind = "toggle", !.acct = a, !.prev = d, !.pc = "resolve"])
    BY <1>4 DEF BeginToggle
  <2> DEFINE c == [NewCall EXCEPT !.kind = "toggle", !.acct = a, !.prev = d, !.pc = "resolve"]
  <2>2. c.objs = {} /\ c.kind # "reject" /\ c.pc = "resolve" BY DEF NewCall
  <2> HIDE DEF c
  <2>3. Begin(h, "toggle", c) BY <2>1 DEF c
  <2>4. QED BY <1>b, <2>2, <2>3
<1>5. CASE BeginReject(h)
  <2>1. PICK a \in Account :
          LET rejected == {pool[b] : b \in {c \in Account : /\ pool[c] # None /\ login[c] = login[a]
                                                            /\ heap[pool[c]].token = heap[pool[a]].token}} IN
          /\ call[h].pc = "ready" /\ "reject" \in offered
          /\ call' = [call EXCEPT ![h] = [NewCall EXCEPT !.kind = "reject", !.pc = "mark",
                        !.todo = rejected, !.objs = rejected, !.prev = dirKnown]]
          /\ UNCHANGED <<Quiet, files, heap, pool, dirKnown, dirLock, faults, deleted>>
    BY <1>5 DEF BeginReject
  <2> DEFINE rejected == {pool[b] : b \in {c \in Account : /\ pool[c] # None /\ login[c] = login[a]
                                            /\ heap[pool[c]].token = heap[pool[a]].token}}
             c == [NewCall EXCEPT !.kind = "reject", !.pc = "mark",
                     !.todo = rejected, !.objs = rejected, !.prev = dirKnown]
  <2>2. rejected \subseteq InPool BY DEF InPool, Types, TypeOK
  <2>3. call[h].pc = "ready" /\ "reject" \in offered /\ call' = [call EXCEPT ![h] = c]
        /\ UNCHANGED <<Quiet, files, heap, pool, dirKnown, dirLock, faults, deleted>>
    BY <2>1
  <2> HIDE DEF rejected
  <2>4. c.kind = "reject" /\ c.pc = "mark" /\ c.objs = rejected BY DEF NewCall
  <2> HIDE DEF c
  <2>5. (\A g \in Handler \ {h} : call'[g] = call[g]) /\ call'[h] = c BY <1>0, <2>3
  <2>6. QED BY <2>2, <2>3, <2>4, <2>5 DEF Quiet, Untouched, disk, history
<1>6. QED BY <1>1, <1>2, <1>3, <1>4, <1>5 DEF Start

\* The end of a call that entered the gate.
LEMMA EndStep ==
  ASSUME Types, NEW h \in Handler, EndCall(h)
  PROVE  /\ \A g \in Handler \ {h} : call'[g] = call[g]
         /\ UNCHANGED <<fixed, disk, heap, pool, dirKnown, restoring, dirLock, backups, faults, history>>
         /\ call[h].pc = "end" /\ call[h].kind # "reject"
         /\ call'[h].pc = "done" /\ call'[h].objs = {}
         /\ mutations' = IF mutations > 0 THEN mutations - 1 ELSE mutations
<1>1. call' = [call EXCEPT ![h] = [NewCall EXCEPT !.pc = "done"]] BY DEF EndCall, Leave, Done
<1>2. call'[h].pc = "done" /\ call'[h].objs = {} /\ \A g \in Handler \ {h} : call'[g] = call[g]
  BY <1>1 DEF NewCall, Types
<1>3. call[h].pc = "end" BY DEF EndCall
<1>4. call[h].kind # "reject" BY <1>3 DEF Types, CallOK
<1>5. mutations' = IF mutations > 0 THEN mutations - 1 ELSE mutations BY DEF EndCall, Leave
<1>6. UNCHANGED <<fixed, disk, heap, pool, dirKnown, restoring, dirLock, backups, faults, history>>
  BY DEF EndCall
<1>7. QED BY <1>2, <1>3, <1>4, <1>5, <1>6

\* The handlers behind the gate can be counted.
LEMMA GatedFinite == IsFiniteSet(Gated) /\ Cardinality(Gated) \in Nat
<1>1. Gated \subseteq Handler /\ IsFiniteSet(Handler) BY FilesAssumption DEF Gated
<1>2. QED BY <1>1, FS_Subset, FS_CardinalityType

\* Every step keeps the gate.
LEMMA GateNext ==
  ASSUME Types, Gate, [Next]_vars
  PROVE  Gate'
<1>1. CASE \E h \in Handler : Start(h) \/ Continue(h)
  <2>1. PICK h \in Handler : Start(h) \/ Continue(h) BY <1>1
  <2>2. CASE Start(h)
    <3>1. /\ \A g \in Handler \ {h} : call'[g] = call[g]
          /\ UNCHANGED <<fixed, restoring, admin>> /\ call[h].pc = "ready"
          /\ \/ call'[h].pc = "done" /\ mutations' = mutations
             \/ /\ ~ restoring /\ mutations' = mutations + 1
                /\ call'[h].pc \in {"import", "find", "snapshot", "resolve"}
                /\ call'[h].kind # "reject"
             \/ mutations' = mutations /\ call'[h].kind = "reject"
      BY <2>2, StartStep DEF backups
    <3>2. CASE mutations' = mutations /\ (call'[h].pc = "done" \/ call'[h].kind = "reject")
      <4>1. Gated' = Gated BY <3>1, <3>2 DEF Gated
      <4>2. QED BY <3>1, <3>2, <4>1 DEF Gate, fixed
    <3>3. CASE /\ ~ restoring /\ mutations' = mutations + 1
               /\ call'[h].pc \in {"import", "find", "snapshot", "resolve"}
               /\ call'[h].kind # "reject"
      <4>1. Gated' = Gated \cup {h} /\ h \notin Gated BY <3>1, <3>3 DEF Gated
      <4>2. Cardinality(Gated \cup {h}) = Cardinality(Gated) + 1 BY <4>1, GatedFinite, FS_AddElement
      <4>3. QED BY <3>1, <3>3, <4>1, <4>2 DEF Gate, fixed
    <3>4. QED BY <3>1, <3>2, <3>3
  <2>3. CASE EndCall(h)
    <3>1. /\ \A g \in Handler \ {h} : call'[g] = call[g]
          /\ UNCHANGED <<fixed, restoring, admin>>
          /\ call[h].pc = "end" /\ call[h].kind # "reject" /\ call'[h].pc = "done"
          /\ mutations' = IF mutations > 0 THEN mutations - 1 ELSE mutations
      BY <2>3, EndStep DEF backups
    <3>2. Gated' = Gated \ {h} /\ h \in Gated BY <3>1 DEF Gated
    <3>3. Cardinality(Gated \ {h}) = Cardinality(Gated) - 1 BY <3>2, GatedFinite, FS_RemoveElement
    <3>4. Cardinality(Gated) # 0 BY <3>2, GatedFinite, FS_EmptySet
    <3>5. Cardinality(Gated) > 0 BY <3>4, GatedFinite
    <3>6. mutations' = Cardinality(Gated') BY <3>1, <3>2, <3>3, <3>5 DEF Gate
    <3>7. QED BY <3>1, <3>2, <3>6 DEF Gate, fixed
  <2>4. CASE Continue(h) /\ ~ EndCall(h)
    <3>1. /\ \A g \in Handler \ {h} : call'[g] = call[g]
          /\ UNCHANGED Untouched
          /\ call[h].pc \notin {"ready", "done", "end"}
          /\ call'[h].kind \in {call[h].kind, None}
          /\ call'[h].pc # "ready"
          /\ IF call[h].kind = "reject" THEN call'[h].kind = "reject" \/ call'[h].pc = "done"
                                        ELSE call'[h].pc # "done"
      BY <2>4, MidStep
    <3>2. None # "reject" BY FilesAssumption DEF Kinds
    <3>3. Gated' = Gated BY <3>1, <3>2 DEF Gated
    <3>4. QED BY <3>1, <3>3 DEF Gate, Untouched, fixed, backups
  <2>5. QED BY <2>1, <2>2, <2>3, <2>4
<1>2. CASE Backup
  <2>1. call' = call /\ mutations' = mutations /\ offered' = offered
    BY <1>2 DEF Backup, BeginDownload, ReadBackup, EndDownload, BeginRestore, RestoreConfig, StageRestore,
         ClearOne, Cleared, MoveOne, UndoOne, Undone, RewriteOne, UndoConfig, SwapPool, EndRestore,
         Unmoved, fixed, gate
  <2>2. Gated' = Gated BY <2>1 DEF Gated
  <2>3. admin \in AdminType BY DEF Types, AdminOK
  <2>4. CASE BeginDownload
    <3>1. admin.pc = "idle" /\ admin'.pc = "download" /\ restoring' = restoring
      BY <2>4 DEF BeginDownload, Idle
    <3>2. QED BY <2>1, <2>2, <3>1 DEF Gate, Restores
  <2>5. CASE ReadBackup
    <3>1. admin.pc = "download" /\ admin'.pc \in {"idle", "download"} /\ restoring' = restoring
      BY <2>3, <2>5 DEF ReadBackup, Idle, AdminType
    <3>2. QED BY <2>1, <2>2, <3>1 DEF Gate, Restores
  <2>6. CASE EndDownload
    <3>1. admin.pc = "download" /\ admin'.pc = "idle" /\ restoring' = restoring
      BY <2>6 DEF EndDownload, Idle
    <3>2. QED BY <2>1, <2>2, <3>1 DEF Gate, Restores
  <2>7. CASE BeginRestore
    <3>1. CASE UNCHANGED <<restoring, admin>> BY <2>1, <2>2, <3>1 DEF Gate
    <3>2. CASE ~ UNCHANGED <<restoring, admin>>
      <4>1. /\ mutations = 0 /\ "restore" \in offered /\ restoring' = TRUE
            /\ admin' = [Idle EXCEPT !.pc = "config", !.target = Target, !.was = settings]
        BY <2>7, <3>2 DEF BeginRestore
      <4>2. admin'.pc = "config" BY <4>1 DEF Idle
      <4>3. Gated = {} BY <4>1, GatedFinite, FS_EmptySet DEF Gate
      <4>4. QED BY <2>1, <2>2, <4>1, <4>2, <4>3 DEF Gate, Restores
    <3>3. QED BY <3>1, <3>2
  <2>8. CASE EndRestore
    <3>1. admin'.pc = "idle" /\ restoring' = FALSE BY <2>8 DEF EndRestore, Idle
    <3>2. QED BY <2>1, <2>2, <3>1 DEF Gate, Restores
  <2>9. CASE RestoreConfig \/ StageRestore \/ ClearOne \/ Cleared \/ MoveOne \/ UndoOne \/ Undone
             \/ RewriteOne \/ UndoConfig \/ SwapPool
    <3>1. restoring' = restoring /\ admin.pc \in Restores
      BY <2>9 DEF RestoreConfig, StageRestore, ClearOne, Cleared, MoveOne, UndoOne, Undone, RewriteOne,
           UndoConfig, SwapPool, Restores, gate
    <3>2. admin'.pc \in Restores
      <4>1. CASE RestoreConfig BY <2>3, <4>1 DEF RestoreConfig, AdminType, Restores
      <4>2. CASE StageRestore BY <2>3, <4>2 DEF StageRestore, AdminType, Restores
      <4>3. CASE ClearOne BY <2>3, <4>3 DEF ClearOne, AdminType, Restores
      <4>4. CASE Cleared BY <2>3, <4>4 DEF Cleared, AdminType, Restores
      <4>5. CASE MoveOne BY <2>3, <4>5 DEF MoveOne, AdminType, Restores
      <4>6. CASE UndoOne BY <2>3, <4>6 DEF UndoOne, AdminType, Restores
      <4>7. CASE Undone BY <2>3, <4>7 DEF Undone, AdminType, Restores
      <4>8. CASE RewriteOne BY <2>3, <4>8 DEF RewriteOne, AdminType, Restores
      <4>9. CASE UndoConfig BY <2>3, <4>9 DEF UndoConfig, AdminType, Restores
      <4>10. CASE SwapPool BY <2>3, <4>10 DEF SwapPool, AdminType, Restores
      <4>11. QED BY <2>9, <4>1, <4>2, <4>3, <4>4, <4>5, <4>6, <4>7, <4>8, <4>9, <4>10
    <3>3. QED BY <2>1, <2>2, <3>1, <3>2 DEF Gate
  <2>10. QED BY <1>2, <2>4, <2>5, <2>6, <2>7, <2>8, <2>9 DEF Backup
<1>3. CASE Restart
  <2>1. mutations' = 0 /\ restoring' = FALSE /\ admin' = Idle
        /\ call' = [h \in Handler |-> IF call[h].pc = "ready" THEN call[h] ELSE [NewCall EXCEPT !.pc = "done"]]
    BY <1>3 DEF Restart
  <2>2. \A h \in Handler : call'[h].pc \in {"ready", "done"} BY <2>1 DEF NewCall
  <2>3. Gated' = {} BY <2>2 DEF Gated
  <2>4. admin'.pc = "idle" BY <2>1 DEF Idle
  <2>5. QED BY <2>1, <2>3, <2>4, FS_EmptySet DEF Gate, Restores
<1>4. CASE UNCHANGED vars BY <1>4 DEF Gate, Gated, vars, gate, fixed
<1>5. QED BY <1>1, <1>2, <1>3, <1>4 DEF Next

\* The gate is open initially.
LEMMA InitGate ==
  ASSUME Init
  PROVE  Gate
<1>1. \A h \in Handler : call[h].pc = "ready" BY DEF Init, NewCall
<1>2. Gated = {} BY <1>1 DEF Gated
<1>3. mutations = 0 /\ restoring = FALSE /\ admin.pc = "idle" BY DEF Init, Idle
<1>4. QED BY <1>2, <1>3, FS_EmptySet DEF Gate, Restores

-----------------------------------------------------------------------------
(* What the steps of a handler do.                                         *)

Busy == {"activate", "add", "reload", "list", "listed", "drop", "write", "revert"}
Others(h) == \A g \in Handler \ {h} : call'[g] = call[g]
Elsewhere == <<fixed, config, admin, restoring, settings>>

\* A step that touches neither files nor objects nor the pool, and that nobody waits for.
Plain(h) ==
  /\ Others(h)
  /\ UNCHANGED <<Elsewhere, files, heap, pool, dirLock, faults, history>>
  /\ call[h].pc \notin Busy \/ (call[h].pc = "list" /\ call[h].todo = {})
  /\ call'[h].pc \notin Busy
  /\ call[h].pc = "save" => call[h].todo = {}
  /\ call'[h].objs \subseteq (IF call[h].pc \in {"ready", "done"} THEN {} ELSE call[h].objs) \cup InPool

\* The steps of this kind.
LEMMA PlainStep ==
  ASSUME Types, NEW h \in Handler,
         \/ Start(h) \/ SkipImport(h) \/ NothingToImport(h) \/ FindDeleted(h) \/ SnapshotPool(h)
         \/ Resolve(h) \/ Marked(h) \/ SavedAll(h) \/ EndCall(h) \/ EndReload(h)
  PROVE  Plain(h)
<1>0. call \in [Handler -> CallType] /\ call[h] \in CallType BY DEF Types
<1>1. CASE Start(h)
  <2>1. /\ Others(h) /\ call[h].pc = "ready"
        /\ UNCHANGED <<fixed, disk, heap, pool, dirKnown, restoring, dirLock, backups, faults, history>>
        /\ call'[h].pc \in {"done", "import", "find", "snapshot", "resolve", "mark"}
        /\ call'[h].objs \subseteq InPool
    BY <1>1, StartStep DEF Others
  <2>2. UNCHANGED <<Elsewhere, files, heap, pool, dirLock, faults, history>>
    BY <2>1 DEF Elsewhere, disk, backups
  <2>3. QED BY <2>1, <2>2 DEF Plain, Busy
<1>2. CASE EndCall(h)
  <2>1. /\ Others(h) /\ call[h].pc = "end"
        /\ UNCHANGED <<fixed, disk, heap, pool, dirKnown, restoring, dirLock, backups, faults, history>>
        /\ call'[h].pc = "done" /\ call'[h].objs = {}
    BY <1>2, EndStep DEF Others
  <2>2. UNCHANGED <<Elsewhere, files, heap, pool, dirLock, faults, history>>
    BY <2>1 DEF Elsewhere, disk, backups
  <2>3. QED BY <2>1, <2>2 DEF Plain, Busy
<1>3. CASE \/ SkipImport(h) \/ NothingToImport(h) \/ FindDeleted(h) \/ SnapshotPool(h)
           \/ Resolve(h) \/ Marked(h) \/ SavedAll(h) \/ EndReload(h)
  <2>1. Others(h) /\ call[h].pc \notin {"ready", "done"}
    <3>1. ~ EndCall(h)
      BY <1>3 DEF SkipImport, NothingToImport, FindDeleted, SnapshotPool, Resolve, Marked, SavedAll, EndReload, EndCall
    <3>2. Continue(h) BY <1>3 DEF Continue
    <3>3. QED BY <3>1, <3>2, MidStep DEF Others
  <2>2. UNCHANGED <<Elsewhere, files, heap, pool, dirLock, faults, history>>
    BY <1>3 DEF SkipImport, NothingToImport, FindDeleted, SnapshotPool, Resolve, Marked, SavedAll, EndReload, Elsewhere,
         Quiet, Untouched, backups, history
  <2>3. /\ call[h].pc \notin Busy \/ (call[h].pc = "list" /\ call[h].todo = {})
        /\ call'[h].pc \notin Busy
        /\ call[h].pc = "save" => call[h].todo = {}
        /\ call'[h].objs \subseteq call[h].objs \cup InPool
    <3>1. CASE SkipImport(h)
      <4>1. /\ call[h].pc = "import" /\ call'[h].pc = "import" /\ call'[h].objs = call[h].objs
        BY <1>0, <3>1 DEF SkipImport, CallType
      <4>2. QED BY <4>1 DEF Busy
    <3>2. CASE NothingToImport(h)
      <4>1. call[h].pc = "import" /\ call'[h].pc = "end" /\ call'[h].objs = call[h].objs
        BY <1>0, <3>2 DEF NothingToImport, CallType
      <4>2. QED BY <4>1 DEF Busy
    <3>3. CASE FindDeleted(h)
      <4>1. PICK pc, t :
              /\ pc \in {"remove", "end", "erase"}
              /\ \/ call' = [call EXCEPT ![h].pc = pc, ![h].token = t]
                 \/ call' = [call EXCEPT ![h].pc = pc]
              /\ call[h].pc = "find"
        BY <3>3 DEF FindDeleted
      <4>2. call'[h].pc = pc /\ call'[h].objs = call[h].objs BY <1>0, <4>1 DEF CallType
      <4>3. QED BY <4>1, <4>2 DEF Busy
    <3>4. CASE SnapshotPool(h)
      <4>1. call[h].pc = "snapshot" /\ call'[h].pc = "save" /\ call'[h].objs = InPool
        BY <1>0, <3>4 DEF SnapshotPool, CallType
      <4>2. QED BY <4>1 DEF Busy
    <3>5. CASE Resolve(h)
      <4>1. /\ call[h].pc = "resolve"
            /\ call' = [call EXCEPT ![h].acct = None,
                          ![h].pc = IF pool[call[h].acct] = None THEN "end" ELSE "flag",
                          ![h].objs = {pool[call[h].acct]} \ {None}]
        BY <3>5 DEF Resolve
      <4>2. call'[h].pc \in {"end", "flag"} /\ call'[h].objs = {pool[call[h].acct]} \ {None}
        BY <1>0, <4>1 DEF CallType
      <4>3. call[h].acct \in Account BY <4>1 DEF Types, CallOK
      <4>4. {pool[call[h].acct]} \ {None} \subseteq InPool BY <4>3 DEF InPool, Types, TypeOK
      <4>5. QED BY <4>1, <4>2, <4>4 DEF Busy
    <3>6. CASE Marked(h)
      <4>1. call[h].pc = "mark" /\ call'[h].pc = "save" /\ call'[h].objs = call[h].objs
        BY <1>0, <3>6 DEF Marked, CallType
      <4>2. QED BY <4>1 DEF Busy
    <3>7. CASE SavedAll(h)
      <4>1. /\ call[h].pc = "save" /\ call[h].todo = {} /\ call'[h].pc \in {"done", "end"}
            /\ call'[h].objs = {}
        BY <1>0, <3>7 DEF SavedAll, NewCall
      <4>2. QED BY <4>1 DEF Busy
    <3>8. CASE EndReload(h)
      <4>1. call[h].pc = "list" /\ call[h].todo = {} /\ call'[h].pc = "end"
            /\ call'[h].objs = call[h].objs
        BY <1>0, <3>8 DEF EndReload, CallType
      <4>2. QED BY <4>1 DEF Busy
    <3>9. QED BY <1>3, <3>1, <3>2, <3>3, <3>4, <3>5, <3>6, <3>7, <3>8
  <2>4. QED BY <2>1, <2>2, <2>3 DEF Plain
<1>4. QED BY <1>1, <1>2, <1>3

\* A file is written by an import, or the import ends; a registration goes on.
LEMMA SaveEffect ==
  ASSUME Types, NEW h \in Handler, SaveImport(h)
  PROVE  /\ Others(h)
         /\ UNCHANGED <<Elsewhere, heap, pool, dirLock>>
         /\ call[h].pc = "import" /\ dirLock = None /\ call'[h].objs = call[h].objs
         /\ call[h].kind \in {"import", "register"} /\ call'[h].kind = call[h].kind
         /\ \/ /\ call'[h].pc = IF call[h].kind = "register" THEN "reload" ELSE "end"
               /\ UNCHANGED <<files, history>>
            \/ \E n \in Name :
                 /\ n[2] \in astray' \/ \A m \in Name : m[2] = n[2] /\ files[m] # None => m = n
                 /\ files' = [files EXCEPT ![n] = [token |-> call[h].token, disabled |-> FALSE,
                                                   invalid |-> FALSE]]
                 /\ call[h].token \in Token
                 /\ deleted' = deleted \ {n[2]}
                 /\ astray' = astray \/ astray' = astray \cup {n[2]}
                 /\ call'[h].acct = n[2]
                 /\ call'[h].pc = IF call[h].kind = "register" THEN "reload" ELSE "activate"
<1>0. call \in [Handler -> CallType] /\ call[h] \in CallType /\ CallOK(call[h]) BY DEF Types
<1> DEFINE new == [token |-> call[h].token, disabled |-> FALSE, invalid |-> FALSE]
           on == IF call[h].kind = "register" THEN "reload" ELSE "activate"
           off == IF call[h].kind = "register" THEN "reload" ELSE "end"
           at(s, a) == IF s = {} THEN <<"canonical", a>> ELSE CHOOSE m \in s : TRUE
<1>1. PICK a \in call[h].todo : \E s \in SUBSET FilesOf(a) :
        /\ call[h].pc = "import" /\ dirLock = None
        /\ \/ /\ ~ Cardinality(s) > 1
              /\ files' = [files EXCEPT ![at(s, a)] = new]
              /\ deleted' = deleted \ {a}
              /\ astray' = IF s = FilesOf(a) THEN astray ELSE astray \cup {a}
              /\ call' = [call EXCEPT ![h].todo = @ \ {a}, ![h].acct = a, ![h].pc = on]
           \/ /\ call' = [call EXCEPT ![h].todo = {}, ![h].acct = a, ![h].pc = off]
              /\ UNCHANGED <<files, history>>
        /\ UNCHANGED <<Untouched, cutOff, heap, pool, dirKnown, dirLock>>
  BY DEF SaveImport
<1>2. PICK s \in SUBSET FilesOf(a) :
        /\ call[h].pc = "import" /\ dirLock = None
        /\ \/ /\ ~ Cardinality(s) > 1
              /\ files' = [files EXCEPT ![at(s, a)] = new]
              /\ deleted' = deleted \ {a}
              /\ astray' = IF s = FilesOf(a) THEN astray ELSE astray \cup {a}
              /\ call' = [call EXCEPT ![h].todo = @ \ {a}, ![h].acct = a, ![h].pc = on]
           \/ /\ call' = [call EXCEPT ![h].todo = {}, ![h].acct = a, ![h].pc = off]
              /\ UNCHANGED <<files, history>>
        /\ UNCHANGED <<Untouched, cutOff, heap, pool, dirKnown, dirLock>>
  BY <1>1
<1>3. a \in Account /\ call[h].token \in Token /\ call[h].kind \in {"import", "register"}
  BY <1>0, <1>1, <1>2 DEF CallOK
<1>4. UNCHANGED <<Elsewhere, heap, pool, dirLock>> BY <1>2 DEF Elsewhere, Untouched, backups
<1>5. CASE /\ call' = [call EXCEPT ![h].todo = {}, ![h].acct = a, ![h].pc = off]
           /\ UNCHANGED <<files, history>>
  <2> HIDE DEF off
  <2>1. /\ Others(h) /\ call'[h].pc = off /\ call'[h].objs = call[h].objs
        /\ call'[h].kind = call[h].kind
    BY <1>0, <1>5 DEF CallType, Others
  <2>2. QED BY <1>2, <1>3, <1>4, <1>5, <2>1 DEF off
<1>6. CASE /\ ~ Cardinality(s) > 1
           /\ files' = [files EXCEPT ![at(s, a)] = new]
           /\ deleted' = deleted \ {a}
           /\ astray' = IF s = FilesOf(a) THEN astray ELSE astray \cup {a}
           /\ call' = [call EXCEPT ![h].todo = @ \ {a}, ![h].acct = a, ![h].pc = on]
  <2>0. IsFiniteSet(s) BY <1>3, FilesAreFinite, FS_Subset
  <2>1. Cardinality(s) \in Nat BY <2>0, FS_CardinalityType
  <2>2. Cardinality(s) = 0 \/ Cardinality(s) = 1 BY <1>6, <2>1
  <2>3. /\ at(s, a) \in Name /\ at(s, a)[2] = a
        /\ s = FilesOf(a) => FilesOf(a) \subseteq {at(s, a)}
    <3>1. CASE s = {} BY <1>3, <3>1 DEF Name
    <3>2. CASE s # {}
      <4>1. Cardinality(s) = 1 BY <2>0, <2>2, <3>2, FS_EmptySet
      <4>2. at(s, a) \in FilesOf(a) BY <1>3, <3>2, <4>1, OneRead
      <4>3. s = FilesOf(a) => FilesOf(a) = {at(s, a)} BY <1>3, <3>2, <4>1, FilesCounted
      <4>4. QED BY <4>2, <4>3 DEF FilesOf
    <3>3. QED BY <3>1, <3>2
  <2>4. PICK n \in Name : n = at(s, a) BY <2>3
  <2> HIDE DEF on, at
  <2>5. n[2] \in astray' \/ \A m \in Name : m[2] = n[2] /\ files[m] # None => m = n
    <3>1. CASE s = FilesOf(a) BY <2>3, <2>4, <3>1 DEF FilesOf
    <3>2. CASE s # FilesOf(a) BY <1>6, <2>3, <2>4, <3>2
    <3>3. QED BY <3>1, <3>2
  <2>6. /\ Others(h) /\ call'[h].acct = a /\ call'[h].pc = on /\ call'[h].objs = call[h].objs
        /\ call'[h].kind = call[h].kind
    BY <1>0, <1>6 DEF CallType, Others
  <2>7. /\ n \in Name /\ (n[2] \in astray' \/ \A m \in Name : m[2] = n[2] /\ files[m] # None => m = n)
        /\ files' = [files EXCEPT ![n] = [token |-> call[h].token, disabled |-> FALSE, invalid |-> FALSE]]
        /\ call[h].token \in Token
        /\ deleted' = deleted \ {n[2]}
        /\ astray' = astray \/ astray' = astray \cup {n[2]}
        /\ call'[h].acct = n[2]
        /\ call'[h].pc = IF call[h].kind = "register" THEN "reload" ELSE "activate"
    BY <1>3, <1>6, <2>3, <2>4, <2>5, <2>6 DEF on
  <2>8. QED BY <1>2, <1>3, <1>4, <2>6, <2>7
<1>7. QED BY <1>2, <1>5, <1>6

\* The one file of an account is read, under the directory lock.
LEMMA LoadEffect ==
  ASSUME Types, NEW h \in Handler, LoadActive(h)
  PROVE  /\ Others(h)
         /\ UNCHANGED <<Elsewhere, files, heap, pool, deleted>>
         /\ call[h].pc = "activate" /\ call[h].acct \in Account /\ dirLock = None
         /\ call'[h].objs = call[h].objs /\ call[h].kind = "import"
         /\ \/ /\ call'[h].pc = "end" /\ dirLock' = None
               /\ \/ astray' = astray /\ ~ \E n \in Name : FilesOf(call[h].acct) = {n}
                  \/ astray' = astray \cup {call[h].acct}
            \/ \E n \in Name :
                 /\ files[n] # None /\ n[2] = call[h].acct
                 /\ call'[h].pc = "add" /\ call'[h].acct = call[h].acct /\ call'[h].read = files[n]
                 /\ dirLock' = h /\ astray' = astray
<1>0. call \in [Handler -> CallType] /\ call[h] \in CallType /\ CallOK(call[h]) BY DEF Types
<1> DEFINE a == call[h].acct
<1>1. PICK s \in SUBSET FilesOf(a) :
        IF Cardinality(s) = 1
        THEN /\ dirLock' = h
             /\ call' = [call EXCEPT ![h].pc = "add", ![h].read = files[CHOOSE n \in s : TRUE]]
             /\ UNCHANGED astray
        ELSE /\ UNCHANGED dirLock
             /\ call' = [call EXCEPT ![h].pc = "end"]
             /\ astray' = IF s = FilesOf(a) THEN astray ELSE astray \cup {a}
  BY DEF LoadActive
<1>2. /\ call[h].pc = "activate" /\ dirLock = None
      /\ UNCHANGED <<Elsewhere, files, heap, pool, deleted>>
  BY DEF LoadActive, Elsewhere, Untouched, backups
<1>3. a \in Account /\ call[h].kind = "import" BY <1>0, <1>2 DEF CallOK
<1>4. CASE Cardinality(s) = 1
  <2>1. PICK n \in FilesOf(a) : n = CHOOSE m \in s : TRUE BY <1>3, <1>4, OneRead
  <2>2. n \in Name /\ files[n] # None /\ n[2] = a BY <2>1 DEF FilesOf
  <2>3. dirLock' = h /\ astray' = astray
        /\ call' = [call EXCEPT ![h].pc = "add", ![h].read = files[n]]
    BY <1>1, <1>4, <2>1
  <2>4. /\ Others(h) /\ call'[h].pc = "add" /\ call'[h].acct = a /\ call'[h].read = files[n]
        /\ call'[h].objs = call[h].objs
    BY <1>0, <2>3 DEF CallType, Others
  <2>5. QED BY <1>2, <1>3, <2>2, <2>3, <2>4
<1>5. CASE Cardinality(s) # 1
  <2>1. call' = [call EXCEPT ![h].pc = "end"] /\ dirLock' = dirLock
        /\ astray' = IF s = FilesOf(a) THEN astray ELSE astray \cup {a}
    BY <1>1, <1>5
  <2>2. Others(h) /\ call'[h].pc = "end" /\ call'[h].objs = call[h].objs
    BY <1>0, <2>1 DEF CallType, Others
  <2>3. s = FilesOf(a) => ~ \E n \in Name : FilesOf(a) = {n} BY <1>3, <1>5, FilesCounted
  <2>4. QED BY <1>2, <1>3, <2>1, <2>2, <2>3
<1>6. QED BY <1>4, <1>5

\* What was read is put in the pool, still under the directory lock.
LEMMA AddEffect ==
  ASSUME Types, NEW h \in Handler, AddActive(h)
  PROVE  /\ Others(h)
         /\ UNCHANGED <<Elsewhere, files, deleted>> /\ PoolFree
         /\ call[h].pc = "add" /\ call[h].acct \in Account /\ dirLock = h /\ dirLock' = None
         /\ call'[h].pc \in {"end", "import"} /\ call'[h].objs = call[h].objs
         /\ call[h].kind = "import"
         /\ astray' \subseteq astray /\ astray \ {call[h].acct} \subseteq astray'
         /\ call[h].acct \in astray' \/ Cardinality(FilesOf(call[h].acct)) = 1
                                     \/ call[h].acct \notin astray
         /\ \A a \in Account \ {call[h].acct} : pool'[a] = pool[a]
         /\ pool'[call[h].acct] \in Obj \ Used
         /\ heap'[pool'[call[h].acct]].token = call[h].read.token
         /\ \A o \in Obj : o \in Used => heap'[o] = heap[o]
<1>0. call \in [Handler -> CallType] /\ call[h] \in CallType /\ CallOK(call[h]) BY DEF Types
<1> DEFINE a == call[h].acct
           r == [b \in {a} |-> call[h].read]
           pc == IF call[h].todo = {} THEN "end" ELSE "import"
<1>1. /\ call[h].pc = "add" /\ PoolFree
      /\ Fill(pool, {a}, r)
      /\ dirLock' = None
      /\ astray' = IF Cardinality(FilesOf(a)) = 1 THEN astray \ {a} ELSE astray
      /\ call' = [call EXCEPT ![h].read = None, ![h].acct = None, ![h].pc = pc]
      /\ UNCHANGED <<Untouched, cutOff, files, faults, deleted>>
  BY DEF AddActive
<1>2. a \in Account /\ call[h].read \in Record /\ call[h].kind = "import" BY <1>0, <1>1 DEF CallOK
<1>3. {a} \in SUBSET Account /\ r \in [{a} -> Record] /\ r[a] = call[h].read BY <1>2
<1>4. pc \in {"end", "import"} OBVIOUS
<1> HIDE DEF r, pc
<1>5. pool \in [Account -> Obj \cup {None}] /\ heap \in [Obj -> Object \cup {None}] BY DEF Types, TypeOK
<1>6. /\ pool' \in [Account -> Obj \cup {None}]
      /\ heap' \in [Obj -> Object \cup {None}]
      /\ \A b \in {a} : /\ pool'[b] \in Obj \ Used
                        /\ heap'[pool'[b]] = [acct |-> b, token |-> r[b].token,
                             disabled |-> r[b].disabled, invalid |-> r[b].invalid]
      /\ \A b \in Account \ {a} : pool'[b] = pool[b]
      /\ \A o \in Obj : o \in Used => heap'[o] = heap[o]
  <2> HIDE DEF a
  <2>1. QED BY ONLY <1>1, <1>3, <1>5, FillEffect
<1>7. pool'[a] \in Obj \ Used /\ heap'[pool'[a]].token = call[h].read.token BY <1>3, <1>6
<1>8. Others(h) /\ call'[h].pc = pc /\ call'[h].objs = call[h].objs
  BY <1>0, <1>1 DEF CallType, Others
<1>9. dirLock = h BY <1>1 DEF Types, TypeOK
<1>10. UNCHANGED <<Elsewhere, files, deleted>> BY <1>1 DEF Elsewhere, Untouched, backups
<1>11. /\ astray' \subseteq astray /\ astray \ {a} \subseteq astray'
       /\ a \in astray' \/ Cardinality(FilesOf(a)) = 1 \/ a \notin astray
  BY <1>1
<1>12. QED BY <1>1, <1>2, <1>4, <1>6, <1>7, <1>8, <1>9, <1>10, <1>11

\* A reload begins with the names there are, or ends.
LEMMA ReloadEffect ==
  ASSUME Types, NEW h \in Handler, Reload(h)
  PROVE  /\ Others(h) /\ PoolFree
         /\ UNCHANGED <<Elsewhere, files, heap, pool, dirLock, deleted>>
         /\ call[h].pc = "reload" /\ call'[h].objs = call[h].objs /\ call[h].kind = "register"
         /\ \/ call'[h].pc = "list" /\ call'[h].todo = Listed /\ astray' = astray
            \/ /\ call'[h].pc = "end"
               /\ astray' = astray \cup {a \in Account : pool[a] = None /\ FilesOf(a) # {}}
<1>0. call \in [Handler -> CallType] /\ call[h] \in CallType /\ CallOK(call[h]) BY DEF Types
<1>1. /\ call[h].pc = "reload" /\ PoolFree
      /\ UNCHANGED <<Elsewhere, files, heap, pool, dirLock, deleted>>
  BY DEF Reload, Elsewhere, Untouched, backups
<1>2. call[h].kind = "register" BY <1>0, <1>1 DEF CallOK
<1>3. CASE /\ call' = [call EXCEPT ![h].pc = "list", ![h].todo = Listed, ![h].acct = None]
           /\ UNCHANGED <<faults, astray>>
  <2>1. PICK all : all = Listed OBVIOUS
  <2>2. call' = [call EXCEPT ![h].pc = "list", ![h].todo = all, ![h].acct = None] BY <1>3, <2>1
  <2>3. Others(h) /\ call'[h].pc = "list" /\ call'[h].todo = all /\ call'[h].objs = call[h].objs
    BY <1>0, <2>2 DEF CallType, Others
  <2>4. QED BY <1>1, <1>2, <1>3, <2>1, <2>3
<1>4. CASE /\ call' = [call EXCEPT ![h].pc = "end", ![h].acct = None]
           /\ astray' = astray \cup {a \in Account : pool[a] = None /\ FilesOf(a) # {}}
  <2>1. Others(h) /\ call'[h].pc = "end" /\ call'[h].objs = call[h].objs
    BY <1>0, <1>4 DEF CallType, Others
  <2>2. QED BY <1>1, <1>2, <1>4, <2>1
<1>5. QED BY <1>3, <1>4 DEF Reload

\* A file on the list is read, or passed over.
LEMMA ListEffect ==
  ASSUME Types, NEW h \in Handler, ReadListed(h)
  PROVE  /\ Others(h)
         /\ UNCHANGED <<Elsewhere, files, heap, pool, dirLock, deleted>>
         /\ call[h].pc = "list" /\ call'[h].objs = call[h].objs /\ call[h].kind = "register"
         /\ call[h].todo \subseteq Name
         /\ \E n \in call[h].todo :
              /\ call'[h].todo = call[h].todo \ {n}
              /\ \/ /\ files[n] # None /\ pool[n[2]] = None
                    /\ call'[h].pc = "listed" /\ call'[h].acct = n[2] /\ call'[h].read = files[n]
                    /\ astray' = astray
                 \/ /\ files[n] = None \/ pool[n[2]] # None
                    /\ call'[h].pc = "list" /\ astray' = astray
                 \/ /\ call'[h].pc = "list"
                    /\ astray' = IF pool[n[2]] = None THEN astray \cup {n[2]} ELSE astray
<1>0. call \in [Handler -> CallType] /\ call[h] \in CallType /\ CallOK(call[h]) BY DEF Types
<1>1. /\ call[h].pc = "list"
      /\ UNCHANGED <<Elsewhere, files, heap, pool, dirLock, deleted>>
  BY DEF ReadListed, Elsewhere, Untouched, backups
<1>2. call[h].kind = "register" /\ call[h].todo \subseteq Name BY <1>0, <1>1 DEF CallOK
<1>3. PICK n \in call[h].todo :
        \/ /\ files[n] # None /\ pool[n[2]] = None
           /\ call' = [call EXCEPT ![h].pc = "listed", ![h].todo = @ \ {n}, ![h].acct = n[2],
                                   ![h].read = files[n]]
           /\ astray' = astray
        \/ /\ files[n] = None \/ pool[n[2]] # None
           /\ call' = [call EXCEPT ![h].todo = @ \ {n}]
           /\ astray' = astray
        \/ /\ call' = [call EXCEPT ![h].todo = @ \ {n}]
           /\ astray' = IF pool[n[2]] = None THEN astray \cup {n[2]} ELSE astray
  BY DEF ReadListed
<1>4. ASSUME call' = [call EXCEPT ![h].todo = @ \ {n}]
      PROVE  /\ Others(h) /\ call'[h].pc = "list" /\ call'[h].objs = call[h].objs
             /\ call'[h].todo = call[h].todo \ {n}
  BY <1>0, <1>1, <1>4 DEF CallType, Others
<1>5. ASSUME call' = [call EXCEPT ![h].pc = "listed", ![h].todo = @ \ {n}, ![h].acct = n[2],
                                   ![h].read = files[n]]
      PROVE  /\ Others(h) /\ call'[h].pc = "listed" /\ call'[h].objs = call[h].objs
             /\ call'[h].todo = call[h].todo \ {n} /\ call'[h].acct = n[2] /\ call'[h].read = files[n]
  BY <1>0, <1>5 DEF CallType, Others
<1>6. CASE /\ files[n] # None /\ pool[n[2]] = None
           /\ call' = [call EXCEPT ![h].pc = "listed", ![h].todo = @ \ {n}, ![h].acct = n[2],
                                   ![h].read = files[n]]
           /\ astray' = astray
  BY <1>1, <1>2, <1>5, <1>6
<1>7. CASE /\ call' = [call EXCEPT ![h].todo = @ \ {n}]
           /\ \/ (files[n] = None \/ pool[n[2]] # None) /\ astray' = astray
              \/ astray' = IF pool[n[2]] = None THEN astray \cup {n[2]} ELSE astray
  BY <1>1, <1>2, <1>4, <1>7
<1>8. QED BY <1>3, <1>6, <1>7

\* What a reload has read is put in the pool.
LEMMA ListedEffect ==
  ASSUME Types, NEW h \in Handler, AddListed(h)
  PROVE  /\ Others(h)
         /\ UNCHANGED <<Elsewhere, files, dirLock, history>>
         /\ call[h].pc = "listed" /\ call[h].acct \in Account
         /\ call'[h].pc = "list" /\ call'[h].objs = call[h].objs /\ call'[h].todo = call[h].todo
         /\ call[h].kind = "register"
         /\ \A a \in Account \ {call[h].acct} : pool'[a] = pool[a]
         /\ pool'[call[h].acct] \in Obj \ Used
         /\ \A o \in Obj : o \in Used => heap'[o] = heap[o]
<1>0. call \in [Handler -> CallType] /\ call[h] \in CallType /\ CallOK(call[h]) BY DEF Types
<1> DEFINE a == call[h].acct
           r == [b \in {a} |-> call[h].read]
<1>1. /\ call[h].pc = "listed"
      /\ Fill(pool, {a}, r)
      /\ call' = [call EXCEPT ![h].pc = "list", ![h].read = None, ![h].acct = None]
      /\ UNCHANGED <<Quiet, files, dirKnown, dirLock, faults, deleted>>
  BY DEF AddListed
<1>2. a \in Account /\ call[h].read \in Record /\ call[h].kind = "register" BY <1>0, <1>1 DEF CallOK
<1>3. {a} \in SUBSET Account /\ r \in [{a} -> Record] BY <1>2
<1> HIDE DEF r
<1>5. pool \in [Account -> Obj \cup {None}] /\ heap \in [Obj -> Object \cup {None}] BY DEF Types, TypeOK
<1>6. /\ pool' \in [Account -> Obj \cup {None}]
      /\ heap' \in [Obj -> Object \cup {None}]
      /\ \A b \in {a} : /\ pool'[b] \in Obj \ Used
                        /\ heap'[pool'[b]] = [acct |-> b, token |-> r[b].token,
                             disabled |-> r[b].disabled, invalid |-> r[b].invalid]
      /\ \A b \in Account \ {a} : pool'[b] = pool[b]
      /\ \A o \in Obj : o \in Used => heap'[o] = heap[o]
  <2> HIDE DEF a
  <2>1. QED BY ONLY <1>1, <1>3, <1>5, FillEffect
<1>7. /\ Others(h) /\ call'[h].pc = "list" /\ call'[h].objs = call[h].objs
      /\ call'[h].todo = call[h].todo
  BY <1>0, <1>1 DEF CallType, Others
<1>8. UNCHANGED <<Elsewhere, files, dirLock, history>>
  BY <1>1 DEF Elsewhere, Quiet, Untouched, backups, history
<1>9. QED BY <1>1, <1>2, <1>6, <1>7, <1>8

\* The files are finitely many.
LEMMA NamesAreFinite == IsFiniteSet(Name)
<1>1. IsFiniteSet({"canonical"} \cup {"email"}) BY FS_Singleton, FS_AddElement
<1>2. {"canonical", "email"} = {"canonical"} \cup {"email"} OBVIOUS
<1>3. IsFiniteSet(Account) BY FilesAssumption
<1>4. QED BY <1>1, <1>2, <1>3, FS_Product DEF Name

\* One file goes, and is the account's last one if the deletion is answered.
LEMMA EraseEffect ==
  ASSUME Types, NEW h \in Handler, EraseFile(h)
  PROVE  /\ Others(h)
         /\ UNCHANGED <<Elsewhere, heap, pool, dirLock, astray>>
         /\ call[h].pc = "erase" /\ call'[h].pc = "end" /\ call'[h].objs = call[h].objs
         /\ call[h].kind = "erase" /\ dirLock = None
         /\ \/ UNCHANGED <<files, deleted>>
            \/ \E n \in Name :
                 /\ files' = [m \in Name |-> IF m = n THEN None ELSE files[m]]
                 /\ \A m \in Name : m[2] = n[2] /\ files[m] # None => m = n
                 /\ deleted' = deleted \/ (deleted' = deleted \cup {n[2]} /\ pool[n[2]] = None)
<1>0. call \in [Handler -> CallType] /\ call[h] \in CallType /\ CallOK(call[h]) BY DEF Types
<1> DEFINE found == {n \in Listed : login[n[2]] = login[call[h].acct]}
<1>1. /\ call[h].pc = "erase" /\ dirLock = None
      /\ \/ /\ Cardinality(found) = 1
            /\ files' = [n \in Name |-> IF n \in found THEN None ELSE files[n]]
            /\ deleted' = deleted \cup {a \in Account : pool[a] = None /\ FilesOf(a) \cap found # {}}
         \/ UNCHANGED <<files, deleted>>
      /\ call' = [call EXCEPT ![h].pc = "end"]
      /\ UNCHANGED <<Quiet, heap, pool, dirKnown, dirLock>>
  BY DEF EraseFile
<1>2. Others(h) /\ call'[h].pc = "end" /\ call'[h].objs = call[h].objs
  BY <1>0, <1>1 DEF CallType, Others
<1>3. UNCHANGED <<Elsewhere, heap, pool, dirLock, astray>> BY <1>1 DEF Elsewhere, Quiet, Untouched, backups
<1>4. call[h].kind = "erase" BY <1>0, <1>1 DEF CallOK
<1>5. CASE UNCHANGED <<files, deleted>> BY <1>1, <1>2, <1>3, <1>4, <1>5
<1>6. CASE /\ Cardinality(found) = 1
           /\ files' = [n \in Name |-> IF n \in found THEN None ELSE files[n]]
           /\ deleted' = deleted \cup {a \in Account : pool[a] = None /\ FilesOf(a) \cap found # {}}
  <2>1. found \subseteq Name BY DEF Listed
  <2>2. IsFiniteSet(found) BY <2>1, NamesAreFinite, FS_Subset
  <2>3. PICK n : found = {n} BY <1>6, <2>2, FS_Singleton
  <2>4. n \in Name /\ n[2] \in Account /\ n \in Listed /\ login[n[2]] = login[call[h].acct]
    <3>1. n \in found BY <2>3
    <3>2. QED BY <2>1, <3>1 DEF Name
  <2>5. ASSUME NEW m \in Name, m[2] = n[2], files[m] # None PROVE m = n
    <3>1. m \in Listed BY <2>5 DEF Listed
    <3>2. m \in found BY <2>4, <2>5, <3>1
    <3>3. QED BY <2>3, <3>2
  <2>6. {a \in Account : pool[a] = None /\ FilesOf(a) \cap found # {}}
          = IF pool[n[2]] = None THEN {n[2]} ELSE {}
    <3>1. \A a \in Account : FilesOf(a) \cap found # {} <=> n \in FilesOf(a) BY <2>3
    <3>2. \A a \in Account : n \in FilesOf(a) <=> a = n[2] BY <2>4 DEF FilesOf, Listed
    <3>3. \A a \in Account : FilesOf(a) \cap found # {} <=> a = n[2] BY <3>1, <3>2
    <3> HIDE DEF found
    <3>4. QED BY <2>4, <3>3
  <2>7. files' = [m \in Name |-> IF m = n THEN None ELSE files[m]] BY <1>6, <2>3
  <2>8. deleted' = deleted \/ (deleted' = deleted \cup {n[2]} /\ pool[n[2]] = None) BY <1>6, <2>6
  <2> HIDE DEF found
  <2>9. QED BY <1>1, <1>2, <1>3, <1>4, <2>4, <2>5, <2>7, <2>8
<1>7. QED BY <1>1, <1>5, <1>6

\* The files of an account of the pool go.
LEMMA DeleteEffect ==
  ASSUME Types, NEW h \in Handler, DeleteFile(h)
  PROVE  /\ Others(h)
         /\ UNCHANGED <<Elsewhere, heap, pool, history>>
         /\ call[h].pc = "remove" /\ dirLock = None
         /\ call'[h].acct = call[h].acct /\ call'[h].token = call[h].token
         /\ call[h].acct \in Account /\ call'[h].objs = call[h].objs
         /\ \/ call'[h].pc = "end" /\ UNCHANGED <<files, dirLock>>
            \/ /\ call'[h].pc = "drop" /\ dirLock' = h
               /\ Has(call[h].acct, call[h].token)
               /\ files' = [n \in Name |-> IF n[2] = call[h].acct THEN None ELSE files[n]]
<1>0. call \in [Handler -> CallType] /\ call[h] \in CallType /\ CallOK(call[h]) BY DEF Types
<1>1. PICK pc \in {"end", "drop"} :
        /\ call[h].pc = "remove" /\ dirLock = None
        /\ call' = [call EXCEPT ![h].pc = pc]
        /\ \/ pc = "end" /\ UNCHANGED <<files, dirLock>>
           \/ /\ pc = "drop" /\ dirLock' = h
              /\ Has(call[h].acct, call[h].token)
              /\ files' = [n \in Name |-> IF n[2] = call[h].acct THEN None ELSE files[n]]
        /\ UNCHANGED <<Quiet, heap, pool, dirKnown, deleted>>
  BY DEF DeleteFile, Deletable
<1>2. /\ Others(h) /\ call'[h].pc = pc /\ call'[h].acct = call[h].acct
      /\ call'[h].token = call[h].token /\ call'[h].objs = call[h].objs
  BY <1>0, <1>1 DEF CallType, Others
<1>3. call[h].acct \in Account BY <1>0, <1>1 DEF CallOK
<1>4. UNCHANGED <<Elsewhere, heap, pool, history>> BY <1>1 DEF Elsewhere, Quiet, Untouched, backups, history
<1>5. QED BY <1>1, <1>2, <1>3, <1>4

\* The account leaves the pool, if it still has the token.
LEMMA DropEffect ==
  ASSUME Types, NEW h \in Handler, DropDeleted(h)
  PROVE  /\ Others(h)
         /\ UNCHANGED <<Elsewhere, files, heap, astray>> /\ PoolFree
         /\ call[h].pc = "drop" /\ call'[h].pc = "end" /\ dirLock = h /\ dirLock' = None
         /\ call[h].acct \in Account /\ call'[h].objs = call[h].objs
         /\ \A a \in Account \ {call[h].acct} : pool'[a] = pool[a]
         /\ pool'[call[h].acct] = IF Has(call[h].acct, call[h].token) THEN None
                                                                      ELSE pool[call[h].acct]
         /\ deleted' = deleted \cup {call[h].acct}
<1>0. call \in [Handler -> CallType] /\ call[h] \in CallType /\ CallOK(call[h]) BY DEF Types
<1> DEFINE a == call[h].acct
<1>1. /\ call[h].pc = "drop"
      /\ pool' = [pool EXCEPT ![a] = IF Has(a, call[h].token) THEN None ELSE @]
      /\ deleted' = deleted \cup {a}
      /\ dirLock' = None
      /\ call' = [call EXCEPT ![h].pc = "end"]
      /\ UNCHANGED <<Quiet, files, heap, dirKnown, faults>>
      /\ PoolFree
  BY DEF DropDeleted
<1>2. Others(h) /\ call'[h].pc = "end" /\ call'[h].objs = call[h].objs
  BY <1>0, <1>1 DEF CallType, Others
<1>3. a \in Account BY <1>0, <1>1 DEF CallOK
<1>4. pool \in [Account -> Obj \cup {None}] BY DEF Types, TypeOK
<1>5. /\ \A b \in Account \ {a} : pool'[b] = pool[b]
      /\ pool'[a] = IF Has(a, call[h].token) THEN None ELSE pool[a]
  BY <1>1, <1>3, <1>4
<1>6. dirLock = h BY <1>1 DEF Types, TypeOK
<1>7. UNCHANGED <<Elsewhere, files, heap, astray>> BY <1>1 DEF Elsewhere, Quiet, Untouched, backups
<1>8. QED BY <1>1, <1>2, <1>3, <1>5, <1>6, <1>7

\* The file of an object is read to be written, or the object is given up.
LEMMA ReadEffect ==
  ASSUME Types, NEW h \in Handler, ReadSaved(h)
  PROVE  /\ Others(h)
         /\ UNCHANGED <<Elsewhere, files, heap, pool, history, faults>>
         /\ call[h].pc = "save" /\ dirLock = None
         /\ \E o \in call[h].objs :
              /\ o \in call[h].todo /\ o \in Used /\ o \in Obj /\ heap[o] \in Object
              /\ call'[h].objs = call[h].objs /\ call'[h].todo = call[h].todo \ {o}
              /\ \/ \E n \in Name :
                      /\ FilesOf(heap[o].acct) = {n} /\ files[n] # None /\ n[2] = heap[o].acct
                      /\ files[n].token = heap[o].token
                      /\ call'[h].pc = "write" /\ call'[h].acct = n /\ dirLock' = h
                      /\ call'[h].read = [token |-> heap[o].token, disabled |-> heap[o].disabled,
                                          invalid |-> heap[o].invalid]
                 \/ /\ ~ \E n \in Name : FilesOf(heap[o].acct) = {n} /\ files[n].token = heap[o].token
                    /\ call'[h].pc = (IF call[h].kind = "toggle" THEN "revert" ELSE "save")
                    /\ dirLock' = None
<1>0. call \in [Handler -> CallType] /\ call[h] \in CallType /\ CallOK(call[h]) BY DEF Types
<1>1. PICK o \in call[h].todo :
        LET a == heap[o].acct
            found == /\ Cardinality(FilesOf(a)) = 1
                     /\ \A n \in FilesOf(a) : files[n].token = heap[o].token IN
        /\ call[h].pc = "save" /\ dirLock = None
        /\ IF found
           THEN /\ dirLock' = h
                /\ call' = [call EXCEPT ![h].pc = "write", ![h].acct = CHOOSE n \in FilesOf(a) : TRUE,
                     ![h].read = [token |-> heap[o].token, disabled |-> heap[o].disabled,
                                  invalid |-> heap[o].invalid],
                     ![h].todo = @ \ {o}]
           ELSE /\ call' = [call EXCEPT ![h].pc = IF call[h].kind = "toggle" THEN "revert" ELSE "save",
                              ![h].todo = @ \ {o}]
                /\ UNCHANGED dirLock
        /\ UNCHANGED <<Quiet, files, heap, pool, dirKnown, faults, deleted>>
  BY DEF ReadSaved
<1>2. /\ call[h].pc = "save" /\ dirLock = None
      /\ UNCHANGED <<Quiet, files, heap, pool, dirKnown, faults, deleted>>
  BY <1>1
<1>3. o \in call[h].objs BY <1>0, <1>1 DEF CallOK
<1>4. o \in Used /\ o \in Obj BY <1>0, <1>3 DEF Used, CallType
<1>5. heap[o] \in Object BY <1>4 DEF Types, HeapOK
<1>6. UNCHANGED <<Elsewhere, files, heap, pool, history, faults>>
  BY <1>2 DEF Elsewhere, Quiet, Untouched, backups, history
<1> DEFINE a == heap[o].acct
           rec == [token |-> heap[o].token, disabled |-> heap[o].disabled, invalid |-> heap[o].invalid]
           pc == IF call[h].kind = "toggle" THEN "revert" ELSE "save"
<1>7. a \in Account BY <1>5 DEF Object
<1>8. CASE /\ Cardinality(FilesOf(a)) = 1
           /\ \A n \in FilesOf(a) : files[n].token = heap[o].token
  <2>1. PICK n \in Name : /\ n = (CHOOSE m \in FilesOf(a) : TRUE) /\ files[n] # None
                          /\ FilesOf(a) = {n} /\ n[2] = a
    BY <1>7, <1>8, FilesCounted
  <2>2. dirLock' = h /\ files[n].token = heap[o].token
        /\ call' = [call EXCEPT ![h].pc = "write", ![h].acct = n, ![h].read = rec, ![h].todo = @ \ {o}]
    BY <1>1, <1>8, <2>1
  <2> HIDE DEF rec
  <2>3. /\ Others(h) /\ call'[h].pc = "write" /\ call'[h].acct = n /\ call'[h].read = rec
        /\ call'[h].todo = call[h].todo \ {o} /\ call'[h].objs = call[h].objs
    BY <1>0, <2>2 DEF CallType, Others
  <2>4. call'[h].read = [token |-> heap[o].token, disabled |-> heap[o].disabled,
                         invalid |-> heap[o].invalid]
    BY <2>3 DEF rec
  <2>5. QED BY <1>2, <1>3, <1>4, <1>5, <1>6, <2>1, <2>2, <2>3, <2>4
<1>9. CASE ~ (/\ Cardinality(FilesOf(a)) = 1
              /\ \A n \in FilesOf(a) : files[n].token = heap[o].token)
  <2>1. dirLock' = None /\ call' = [call EXCEPT ![h].pc = pc, ![h].todo = @ \ {o}]
    BY <1>1, <1>9
  <2>2. /\ Others(h) /\ call'[h].pc = pc
        /\ call'[h].todo = call[h].todo \ {o} /\ call'[h].objs = call[h].objs
    BY <1>0, <2>1 DEF CallType, Others
  <2>3. ~ \E n \in Name : FilesOf(a) = {n} /\ files[n].token = heap[o].token
    <3>1. SUFFICES ASSUME NEW n \in Name, FilesOf(a) = {n}, files[n].token = heap[o].token
                   PROVE  FALSE
      OBVIOUS
    <3>2. Cardinality(FilesOf(a)) = 1 BY <1>7, <3>1, FilesCounted
    <3>3. \A m \in FilesOf(a) : files[m].token = heap[o].token BY <3>1
    <3>4. QED BY <1>9, <3>2, <3>3
  <2>4. QED BY <1>2, <1>3, <1>4, <1>5, <1>6, <2>1, <2>2, <2>3
<1>10. QED BY <1>8, <1>9

\* The file is written, or a write fails.
LEMMA WriteEffect ==
  ASSUME Types, NEW h \in Handler, WriteSaved(h)
  PROVE  /\ Others(h)
         /\ UNCHANGED <<Elsewhere, heap, pool, history>>
         /\ call[h].pc = "write" /\ call[h].acct \in Name /\ call[h].read \in Record
         /\ dirLock = h /\ dirLock' = None
         /\ call'[h].objs = call[h].objs /\ call'[h].todo = call[h].todo
         /\ \/ /\ files' = [files EXCEPT ![call[h].acct] = call[h].read]
               /\ call'[h].pc = "save" /\ UNCHANGED faults
            \/ UNCHANGED files /\ faults' = faults + 1 /\ call'[h].pc \in {"save", "revert"}
<1>0. call \in [Handler -> CallType] /\ call[h] \in CallType /\ CallOK(call[h]) BY DEF Types
<1>1. PICK pc \in {"save", "revert"} :
        /\ call[h].pc = "write" /\ dirLock' = None
        /\ call' = [call EXCEPT ![h].pc = pc, ![h].acct = None, ![h].read = None]
        /\ \/ /\ files' = [files EXCEPT ![call[h].acct] = call[h].read]
              /\ pc = "save" /\ UNCHANGED faults
           \/ UNCHANGED files /\ faults' = faults + 1
        /\ UNCHANGED <<Untouched, heap, pool, dirKnown, history>>
  BY DEF WriteSaved, Fault
<1>2. /\ Others(h) /\ call'[h].pc = pc /\ call'[h].objs = call[h].objs
      /\ call'[h].todo = call[h].todo
  BY <1>0, <1>1 DEF CallType, Others
<1>3. call[h].acct \in Name /\ call[h].read \in Record BY <1>0, <1>1 DEF CallOK
<1>4. dirLock = h BY <1>1 DEF Types, TypeOK
<1>5. UNCHANGED <<Elsewhere, heap, pool, history>> BY <1>1 DEF Elsewhere, Untouched, backups
<1>6. QED BY <1>1, <1>2, <1>3, <1>4, <1>5

\* A flag of one object changes.
LEMMA FlagEffect ==
  ASSUME Types, NEW h \in Handler, SetFlag(h) \/ Revert(h) \/ Mark(h)
  PROVE  /\ Others(h)
         /\ UNCHANGED <<Elsewhere, files, pool, dirLock, history, faults>>
         /\ \E o \in call[h].objs :
              /\ o \in Used /\ o \in Obj /\ heap[o] \in Object
              /\ \A x \in Obj \ {o} : heap'[x] = heap[x]
              /\ heap'[o].acct = heap[o].acct /\ heap'[o].token = heap[o].token
              /\ \/ /\ call[h].pc = "flag" /\ call'[h].pc = "save"
                    /\ call'[h].objs = call[h].objs /\ call'[h].todo = {o}
                 \/ /\ call[h].pc = "revert" /\ call'[h].pc = "end" /\ call'[h].objs = {}
                 \/ /\ call[h].pc = "mark" /\ call'[h].pc = "mark" /\ call'[h].objs = call[h].objs
                    /\ heap'[o].disabled = heap[o].disabled
<1>0. call \in [Handler -> CallType] /\ call[h] \in CallType /\ CallOK(call[h]) BY DEF Types
<1>1. heap \in [Obj -> Object \cup {None}] BY DEF Types, TypeOK
<1>2. \A o \in call[h].objs : o \in Used /\ o \in Obj /\ heap[o] \in Object
  <2>1. \A o \in call[h].objs : o \in Used /\ o \in Obj BY <1>0 DEF Used, CallType
  <2>2. QED BY <2>1 DEF Types, HeapOK
<1>3. CASE SetFlag(h)
  <2>1. PICK o \in call[h].objs :
          /\ call[h].pc = "flag"
          /\ heap' = [heap EXCEPT ![o].disabled = call[h].prev]
          /\ call' = [call EXCEPT ![h].prev = heap[o].disabled, ![h].todo = {o}, ![h].pc = "save"]
          /\ UNCHANGED <<Quiet, files, pool, dirKnown, dirLock, faults, deleted>>
    BY <1>3 DEF SetFlag
  <2>2. /\ \A x \in Obj \ {o} : heap'[x] = heap[x]
        /\ heap'[o] = [heap[o] EXCEPT !.disabled = call[h].prev]
    BY <1>1, <1>2, <2>1
  <2>3. heap'[o].acct = heap[o].acct /\ heap'[o].token = heap[o].token
    BY <1>2, <2>2 DEF Object
  <2>4. /\ Others(h) /\ call'[h].pc = "save" /\ call'[h].todo = {o} /\ call'[h].objs = call[h].objs
    BY <1>0, <2>1 DEF CallType, Others
  <2>5. UNCHANGED <<Elsewhere, files, pool, dirLock, history, faults>>
    BY <2>1 DEF Elsewhere, Quiet, Untouched, backups, history
  <2>6. QED BY <1>2, <2>1, <2>2, <2>3, <2>4, <2>5
<1>4. CASE Revert(h)
  <2>1. PICK o \in call[h].objs :
          /\ call[h].pc = "revert"
          /\ heap' = [heap EXCEPT ![o].disabled = call[h].prev]
          /\ call' = [call EXCEPT ![h] = [NewCall EXCEPT !.pc = "end"]]
          /\ UNCHANGED <<Quiet, files, pool, dirKnown, dirLock, faults, deleted>>
    BY <1>4 DEF Revert
  <2>2. /\ \A x \in Obj \ {o} : heap'[x] = heap[x]
        /\ heap'[o] = [heap[o] EXCEPT !.disabled = call[h].prev]
    BY <1>1, <1>2, <2>1
  <2>3. heap'[o].acct = heap[o].acct /\ heap'[o].token = heap[o].token
    BY <1>2, <2>2 DEF Object
  <2>4. Others(h) /\ call'[h].pc = "end" /\ call'[h].objs = {}
    BY <1>0, <2>1 DEF NewCall, Others
  <2>5. UNCHANGED <<Elsewhere, files, pool, dirLock, history, faults>>
    BY <2>1 DEF Elsewhere, Quiet, Untouched, backups, history
  <2>6. QED BY <1>2, <2>1, <2>2, <2>3, <2>4, <2>5
<1>5. CASE Mark(h)
  <2>1. PICK o \in call[h].todo :
          /\ call[h].pc = "mark"
          /\ heap' = [heap EXCEPT ![o].invalid = TRUE]
          /\ call' = [call EXCEPT ![h].todo = @ \ {o}]
          /\ UNCHANGED <<Quiet, files, pool, dirKnown, dirLock, faults, deleted>>
    BY <1>5 DEF Mark
  <2>o. o \in call[h].objs BY <1>0, <2>1 DEF CallOK
  <2>2. /\ \A x \in Obj \ {o} : heap'[x] = heap[x]
        /\ heap'[o] = [heap[o] EXCEPT !.invalid = TRUE]
    BY <1>1, <1>2, <2>1, <2>o
  <2>3. /\ heap'[o].acct = heap[o].acct /\ heap'[o].token = heap[o].token
        /\ heap'[o].disabled = heap[o].disabled
    BY <1>2, <2>o, <2>2 DEF Object
  <2>4. Others(h) /\ call'[h].pc = "mark" /\ call'[h].objs = call[h].objs
    BY <1>0, <2>1 DEF CallType, Others
  <2>5. UNCHANGED <<Elsewhere, files, pool, dirLock, history, faults>>
    BY <2>1 DEF Elsewhere, Quiet, Untouched, backups, history
  <2>6. QED BY <1>2, <2>o, <2>1, <2>2, <2>3, <2>4, <2>5
<1>6. QED BY <1>3, <1>4, <1>5

\* The pool is replaced by new objects for the restored accounts.
LEMMA SwapEffect ==
  ASSUME Types, SwapPool
  PROVE  /\ UNCHANGED <<fixed, files, config, call, dirLock, faults, deleted, restoring>>
         /\ admin.pc = "move" /\ admin.left = {}
         /\ admin' = [admin EXCEPT !.pc = "swapped"] /\ settings' = "new" /\ astray' = {}
         /\ \A a \in Account :
              IF admin.target[<<"email", a>>] = None THEN pool'[a] = None
              ELSE /\ pool'[a] \in Obj \ Used
                   /\ heap'[pool'[a]].token = admin.target[<<"email", a>>].token
                   /\ heap'[pool'[a]].disabled = admin.target[<<"email", a>>].disabled
         /\ \A o \in Obj : o \in Used => heap'[o] = heap[o]
<1> DEFINE empty == [a \in Account |-> None]
<1>e. empty \in [Account -> Obj \cup {None}] /\ \A a \in Account : empty[a] = None OBVIOUS
<1>1. PICK s \in SUBSET Account : \E r \in [s -> Record] :
        /\ Fill(empty, s, r)
        /\ \A a \in Account : a \in s <=> admin.target[<<"email", a>>] # None
        /\ \A a \in s : /\ r[a].token = admin.target[<<"email", a>>].token
                        /\ r[a].disabled = admin.target[<<"email", a>>].disabled
  BY SwapFills
<1> HIDE DEF empty
<1>2. PICK r \in [s -> Record] :
        /\ Fill(empty, s, r)
        /\ \A a \in Account : a \in s <=> admin.target[<<"email", a>>] # None
        /\ \A a \in s : /\ r[a].token = admin.target[<<"email", a>>].token
                        /\ r[a].disabled = admin.target[<<"email", a>>].disabled
  BY <1>1
<1>3. heap \in [Obj -> Object \cup {None}] BY DEF Types, TypeOK
<1>4. /\ pool' \in [Account -> Obj \cup {None}]
      /\ heap' \in [Obj -> Object \cup {None}]
      /\ \A a \in s : /\ pool'[a] \in Obj \ Used
                      /\ heap'[pool'[a]] = [acct |-> a, token |-> r[a].token,
                           disabled |-> r[a].disabled, invalid |-> r[a].invalid]
      /\ \A a \in Account \ s : pool'[a] = empty[a]
      /\ \A o \in Obj : o \in Used => heap'[o] = heap[o]
  BY <1>e, <1>2, <1>3, FillEffect
<1>5. ASSUME NEW a \in Account
      PROVE  IF admin.target[<<"email", a>>] = None THEN pool'[a] = None
             ELSE /\ pool'[a] \in Obj \ Used
                  /\ heap'[pool'[a]].token = admin.target[<<"email", a>>].token
                  /\ heap'[pool'[a]].disabled = admin.target[<<"email", a>>].disabled
  <2>1. CASE a \in s
    <3>1. /\ pool'[a] \in Obj \ Used
          /\ heap'[pool'[a]] = [acct |-> a, token |-> r[a].token,
               disabled |-> r[a].disabled, invalid |-> r[a].invalid]
      BY <1>4, <2>1
    <3>2. heap'[pool'[a]].token = r[a].token /\ heap'[pool'[a]].disabled = r[a].disabled BY <3>1
    <3>3. QED BY <1>2, <2>1, <3>1, <3>2
  <2>2. CASE a \notin s BY <1>e, <1>2, <1>4, <2>2
  <2>3. QED BY <2>1, <2>2
<1>6. /\ UNCHANGED <<fixed, files, config, call, dirLock, faults, deleted, restoring>>
      /\ admin.pc = "move" /\ admin.left = {}
      /\ admin' = [admin EXCEPT !.pc = "swapped"] /\ settings' = "new" /\ astray' = {}
  BY DEF SwapPool, disk, gate
<1>7. QED BY <1>4, <1>5, <1>6

\* The process starts again with what the files it can read say.
LEMMA RestartEffect ==
  ASSUME Types, Restart
  PROVE  /\ UNCHANGED <<fixed, files, config, deleted>>
         /\ admin' = Idle /\ dirLock' = None /\ restoring' = FALSE
         /\ settings' = IF config = "torn" THEN "other" ELSE config
         /\ \A h \in Handler : call'[h].pc \in {"ready", "done"}
         /\ \A a \in Account :
              /\ FilesOf(a) = {} => pool'[a] = None
              /\ FilesOf(a) # {} /\ a \notin astray' => pool'[a] # None /\ Cardinality(FilesOf(a)) = 1
              /\ pool'[a] # None =>
                   /\ pool'[a] \in Obj \ Used
                   /\ \E n \in FilesOf(a) : /\ heap'[pool'[a]].token = files[n].token
                                            /\ heap'[pool'[a]].disabled = files[n].disabled
<1> DEFINE empty == [a \in Account |-> None]
           all == {a \in Account : FilesOf(a) # {}}
<1>e. empty \in [Account -> Obj \cup {None}] /\ \A a \in Account : empty[a] = None OBVIOUS
<1> HIDE DEF empty
<1>0. PICK s \in SUBSET all :
        /\ \E pick \in Picks(s) : LoadInto(empty, s, pick)
        /\ astray' = {a \in all : a \notin s \/ Cardinality(FilesOf(a)) > 1}
  BY DEF Restart, empty
<1>1. PICK pick \in Picks(s) : LoadInto(empty, s, pick) BY <1>0
<1> DEFINE r == [a \in s |-> files[pick[a]]]
<1>2. /\ UNCHANGED <<fixed, files, config, deleted>>
      /\ admin' = Idle /\ dirLock' = None /\ restoring' = FALSE
      /\ settings' = IF config = "torn" THEN "other" ELSE config
      /\ call' = [h \in Handler |-> IF call[h].pc = "ready" THEN call[h] ELSE [NewCall EXCEPT !.pc = "done"]]
  BY DEF Restart, disk
<1>3. Fill(empty, s, r) BY <1>1 DEF LoadInto
<1>4. s \in SUBSET Account OBVIOUS
<1>5. \A a \in Account : a \in all <=> FilesOf(a) # {} OBVIOUS
<1>6. r \in [s -> Record] /\ \A a \in s : pick[a] \in FilesOf(a) /\ r[a] = files[pick[a]]
  BY <1>1, <1>4, Loaded DEF Picks
<1> HIDE DEF r
<1>7. heap \in [Obj -> Object \cup {None}] BY DEF Types, TypeOK
<1>8. /\ pool' \in [Account -> Obj \cup {None}]
      /\ heap' \in [Obj -> Object \cup {None}]
      /\ \A b \in s : /\ pool'[b] \in Obj \ Used
                      /\ heap'[pool'[b]] = [acct |-> b, token |-> r[b].token,
                           disabled |-> r[b].disabled, invalid |-> r[b].invalid]
      /\ \A b \in Account \ s : pool'[b] = empty[b]
      /\ \A o \in Obj : o \in Used => heap'[o] = heap[o]
  BY <1>e, <1>3, <1>4, <1>6, <1>7, FillEffect
<1>9. ASSUME NEW a \in s
      PROVE  /\ pool'[a] \in Obj \ Used
             /\ \E n \in FilesOf(a) : /\ heap'[pool'[a]].token = files[n].token
                                      /\ heap'[pool'[a]].disabled = files[n].disabled
  <2>1. pool'[a] \in Obj \ Used
        /\ heap'[pool'[a]] = [acct |-> a, token |-> r[a].token,
             disabled |-> r[a].disabled, invalid |-> r[a].invalid]
    BY <1>8
  <2>2. heap'[pool'[a]].token = r[a].token /\ heap'[pool'[a]].disabled = r[a].disabled BY <2>1
  <2>3. pick[a] \in FilesOf(a) /\ r[a] = files[pick[a]] BY <1>6
  <2>4. QED BY <2>1, <2>2, <2>3
<1>10. \A h \in Handler : call'[h].pc \in {"ready", "done"} BY <1>2 DEF NewCall
<1>11. \A a \in Account \ s : pool'[a] = None BY <1>e, <1>8
<1>12. None \notin Obj BY FilesAssumption
<1>13. ASSUME NEW a \in Account, FilesOf(a) # {}, a \notin astray'
       PROVE  pool'[a] # None /\ Cardinality(FilesOf(a)) = 1
  <2>1. a \in s /\ ~ Cardinality(FilesOf(a)) > 1 BY <1>0, <1>5, <1>13
  <2>2. IsFiniteSet(FilesOf(a)) /\ Cardinality(FilesOf(a)) \in Nat BY FilesAreFinite
  <2>3. Cardinality(FilesOf(a)) # 0 BY <1>13, <2>2, FS_EmptySet
  <2>4. QED BY <1>9, <1>12, <2>1, <2>2, <2>3
<1>14. ASSUME NEW a \in Account
       PROVE  /\ FilesOf(a) = {} => pool'[a] = None
              /\ pool'[a] # None =>
                   /\ pool'[a] \in Obj \ Used
                   /\ \E n \in FilesOf(a) : /\ heap'[pool'[a]].token = files[n].token
                                            /\ heap'[pool'[a]].disabled = files[n].disabled
  BY <1>5, <1>9, <1>11
<1>15. QED BY <1>2, <1>10, <1>13, <1>14

\* Apart from the swap, a backup call leaves the handlers and the pool alone.
LEMMA BackupKeeps ==
  ASSUME Types, Backup, ~ SwapPool
  PROVE  /\ UNCHANGED <<fixed, heap, pool, dirLock, call>>
         /\ ~ MoveOne => UNCHANGED deleted
         /\ ~ (UndoOne \/ RewriteOne) => UNCHANGED astray
<1>1. CASE UndoOne
  <2>1. UNCHANGED <<fixed, heap, pool, dirLock, call, deleted>> BY <1>1 DEF UndoOne
  <2>2. QED BY <1>1, <2>1
<1>2. CASE RewriteOne
  <2>1. UNCHANGED <<fixed, heap, pool, dirLock, call, deleted>> BY <1>2 DEF RewriteOne
  <2>2. QED BY <1>2, <2>1
<1>3. CASE MoveOne
  <2>1. UNCHANGED <<fixed, heap, pool, dirLock, call, astray>> BY <1>3 DEF MoveOne
  <2>2. QED BY <1>3, <2>1
<1>4. CASE \/ BeginDownload \/ ReadBackup \/ EndDownload \/ BeginRestore \/ RestoreConfig
           \/ StageRestore \/ ClearOne \/ Cleared \/ Undone \/ UndoConfig \/ EndRestore
  <2>1. UNCHANGED Unmoved
    BY <1>4 DEF BeginDownload, ReadBackup, EndDownload, BeginRestore, RestoreConfig, StageRestore,
         ClearOne, Cleared, Undone, UndoConfig, EndRestore
  <2>2. QED BY <2>1 DEF Unmoved, history
<1>5. QED BY <1>1, <1>2, <1>3, <1>4 DEF Backup

\* While a restore is under way only rejected logins are.
LEMMA RestoringCalls ==
  ASSUME Types, Gate, admin.pc \in Restores, NEW h \in Handler
  PROVE  /\ call[h].pc \in {"ready", "done", "mark", "save", "write"}
         /\ call[h].pc \in {"mark", "save", "write"} => call[h].kind = "reject" /\ ~ Apart
<1>1. restoring /\ Gated = {} /\ "restore" \in offered BY DEF Gate
<1>2. call[h].pc \in {"ready", "done"} \/ call[h].kind = "reject" BY <1>1 DEF Gated
<1>3. CallOK(call[h]) BY DEF Types
<1>4. None # "reject" BY FilesAssumption DEF Kinds
<1>5. call[h].kind = "reject" => "reject" \in offered /\ call[h].pc \in {"mark", "save", "write"}
  BY <1>3, <1>4 DEF CallOK
<1>6. QED BY <1>1, <1>2, <1>5 DEF Apart

-----------------------------------------------------------------------------
(* Reloads.                                                                *)

Reloading == {"list", "listed"}

\* A step that leaves the pool and the reloads alone.
LEMMA LoneKept ==
  ASSUME Lone, pool' = pool,
         \A h \in Handler :
           /\ call'[h].pc \in Reloading => call[h].pc \in Reloading
           /\ call'[h].pc = "listed" => call[h].pc = "listed" /\ call'[h].acct = call[h].acct
  PROVE  Lone'
  BY DEF Lone, Reloading

\* Every step keeps the reloads apart.
LEMMA LoneNext ==
  ASSUME Types, Types', Gate, Lone, [Next]_vars
  PROVE  Lone'
<1>1. CASE \E h \in Handler : Start(h) \/ Continue(h)
  <2>0. PICK h \in Handler : Start(h) \/ Continue(h) BY <1>1
  <2>1. CASE Plain(h)
    BY <2>1, LoneKept DEF Plain, Busy, Others, Reloading
  <2>2. CASE SaveImport(h)
    <3>1. /\ Others(h) /\ pool' = pool
          /\ call'[h].pc \in {"reload", "end", "activate"}
      BY <2>2, SaveEffect
    <3>2. QED BY <3>1, LoneKept DEF Others, Reloading
  <2>3. CASE LoadActive(h)
    <3>1. Others(h) /\ pool' = pool /\ call'[h].pc \in {"end", "add"} BY <2>3, LoadEffect
    <3>2. QED BY <3>1, LoneKept DEF Others, Reloading
  <2>4. CASE EraseFile(h) \/ DeleteFile(h)
    <3>1. Others(h) /\ pool' = pool /\ call'[h].pc \in {"end", "drop"}
      BY <2>4, EraseEffect, DeleteEffect
    <3>2. QED BY <3>1, LoneKept DEF Others, Reloading
  <2>5. CASE ReadSaved(h) \/ WriteSaved(h)
    <3>1. Others(h) /\ pool' = pool /\ call'[h].pc \in {"write", "revert", "save"}
      BY <2>5, ReadEffect, WriteEffect
    <3>2. QED BY <3>1, LoneKept DEF Others, Reloading
  <2>6. CASE SetFlag(h) \/ Revert(h) \/ Mark(h)
    <3>1. Others(h) /\ pool' = pool /\ call'[h].pc \in {"save", "end", "mark"}
      BY <2>6, FlagEffect
    <3>2. QED BY <3>1, LoneKept DEF Others, Reloading
  <2>7. CASE AddActive(h) \/ DropDeleted(h)
    <3>1. Others(h) /\ PoolFree /\ call'[h].pc \in {"end", "import"}
      BY <2>7, AddEffect, DropEffect
    <3>2. \A g \in Handler : call'[g].pc \notin {"list", "listed"} BY <3>1 DEF Others, PoolFree
    <3>3. QED BY <3>2 DEF Lone
  <2>8. CASE Reload(h)
    <3>1. Others(h) /\ PoolFree /\ call'[h].pc \in {"list", "end"} BY <2>8, ReloadEffect
    <3>2. \A g \in Handler : call'[g].pc # "listed" /\ (call'[g].pc = "list" => g = h)
      BY <3>1 DEF Others, PoolFree
    <3>3. QED BY <3>2 DEF Lone
  <2>9. CASE ReadListed(h)
    <3>1. /\ Others(h) /\ pool' = pool /\ call[h].pc = "list"
          /\ \/ call'[h].pc = "listed" /\ pool[call'[h].acct] = None
             \/ call'[h].pc = "list"
      BY <2>9, ListEffect
    <3>2. \A g \in Handler : call[g].pc \in {"list", "listed"} => g = h BY <3>1 DEF Lone
    <3>3. \A g \in Handler : call'[g].pc \in {"list", "listed"} => g = h
      BY <3>1, <3>2 DEF Others
    <3>4. QED BY <3>1, <3>3 DEF Lone
  <2>10. CASE AddListed(h)
    <3>1. Others(h) /\ call[h].pc = "listed" /\ call'[h].pc = "list" BY <2>10, ListedEffect
    <3>2. \A g \in Handler : call[g].pc \in {"list", "listed"} => g = h BY <3>1 DEF Lone
    <3>3. \A g \in Handler : call'[g].pc \in {"list", "listed"} => g = h BY <3>1, <3>2 DEF Others
    <3>4. QED BY <3>1, <3>3 DEF Lone
  <2>11. QED BY <2>0, <2>1, <2>2, <2>3, <2>4, <2>5, <2>6, <2>7, <2>8, <2>9, <2>10, PlainStep DEF Continue
<1>2. CASE Backup /\ ~ SwapPool
  <2>1. call' = call /\ pool' = pool BY <1>2, BackupKeeps
  <2>2. QED BY <2>1 DEF Lone
<1>3. CASE SwapPool
  <2>1. call' = call /\ admin.pc \in Restores BY <1>3, SwapEffect DEF Restores
  <2>2. \A h \in Handler : call[h].pc \notin {"list", "listed"} BY <2>1, RestoringCalls
  <2>3. QED BY <2>1, <2>2 DEF Lone
<1>4. CASE Restart
  <2>1. \A h \in Handler : call'[h].pc \in {"ready", "done"} BY <1>4, RestartEffect
  <2>2. QED BY <2>1 DEF Lone
<1>5. CASE UNCHANGED vars BY <1>5 DEF Lone, vars
<1>6. QED BY <1>1, <1>2, <1>3, <1>4, <1>5 DEF Next

\* Initially there is no reload.
LEMMA InitLone ==
  ASSUME Init
  PROVE  Lone
<1>1. call = [h \in Handler |-> NewCall] BY DEF Init
<1>2. \A h \in Handler : call[h].pc = "ready" BY <1>1 DEF NewCall
<1>3. QED BY <1>2 DEF Lone

-----------------------------------------------------------------------------
(* Deleted accounts.                                                       *)

\* Who has the directory lock is where it is held.
LEMMA LockHolder ==
  ASSUME Types, NEW h \in Handler
  PROVE  call[h].pc \in {"add", "drop", "write"} <=> dirLock = h
BY DEF Types, TypeOK

\* The steps of the imports and registrations.
LEMMA ImportDeletions ==
  ASSUME Types, Gate, Lone, Deletions, NEW h \in Handler,
         SaveImport(h) \/ LoadActive(h) \/ AddActive(h)
  PROVE  Deletions'
<1>0. /\ Gone /\ Spared /\ \A g \in Handler : Harmless(g) BY DEF Deletions
<1>t. /\ pool \in [Account -> Obj \cup {None}] /\ files \in [Name -> Record \cup {None}]
      /\ \A a \in Account : pool[a] # None => pool[a] \in Obj /\ pool[a] \in Used
      /\ deleted \subseteq Account
      /\ \A n \in Name : n[2] \in Account
      /\ None \notin Record /\ None \notin Obj /\ None \notin Handler
      /\ \A g \in Handler : call[g].pc = "drop" => call[g].acct \in Account
  BY FilesAssumption DEF Types, TypeOK, Used, InPool, Name, CallOK
<1>q. SUFFICES Gone' /\ Spared' /\ \A g \in Handler : Harmless(g)'
  BY DEF Deletions
<1>1. CASE SaveImport(h)
  <2>1. /\ Others(h)
        /\ UNCHANGED <<Elsewhere, heap, pool>>
        /\ dirLock = None
        /\ call'[h].pc \in {"end", "activate", "reload"}
        /\ \/ UNCHANGED <<files, deleted>>
           \/ \E n \in Name : /\ deleted' = deleted \ {n[2]}
                              /\ \E r \in Record : files' = [files EXCEPT ![n] = r]
    <3>1. CASE /\ call'[h].pc = IF call[h].kind = "register" THEN "reload" ELSE "end"
               /\ UNCHANGED <<files, history>>
      BY <1>1, <3>1, SaveEffect DEF history
    <3>2. CASE \E n \in Name :
                 /\ files' = [files EXCEPT ![n] = [token |-> call[h].token, disabled |-> FALSE,
                                                   invalid |-> FALSE]]
                 /\ call[h].token \in Token
                 /\ deleted' = deleted \ {n[2]}
                 /\ call'[h].pc = IF call[h].kind = "register" THEN "reload" ELSE "activate"
      <4>1. PICK n \in Name :
                 /\ files' = [files EXCEPT ![n] = [token |-> call[h].token, disabled |-> FALSE,
                                                   invalid |-> FALSE]]
                 /\ call[h].token \in Token
                 /\ deleted' = deleted \ {n[2]}
                 /\ call'[h].pc = IF call[h].kind = "register" THEN "reload" ELSE "activate"
        BY <3>2
      <4>2. [token |-> call[h].token, disabled |-> FALSE, invalid |-> FALSE] \in Record
        BY <4>1 DEF Record
      <4>3. QED BY <1>1, <4>1, <4>2, SaveEffect
    <3>3. QED BY <1>1, <3>1, <3>2, SaveEffect
  <2>2. \A g \in Handler : call[g].pc \notin {"add", "drop", "write"} BY <1>t, <2>1, LockHolder
  <2>3. \A g \in Handler : call'[g].pc \notin {"add", "drop", "write"} BY <2>1, <2>2 DEF Others
  <2>4. \A g \in Handler : Harmless(g)' BY <1>0, <2>1, <2>3 DEF Harmless, Others, Overlap, Elsewhere, fixed
  <2>5. Gone' BY <1>0, <1>t, <2>1 DEF Gone, Overlap, Elsewhere, fixed
  <2>6. Spared' BY <1>0, <2>1 DEF Spared, Elsewhere
  <2>7. QED BY <2>4, <2>5, <2>6
<1>2. CASE LoadActive(h)
  <2>1. /\ Others(h)
        /\ UNCHANGED <<Elsewhere, files, heap, pool, deleted>>
        /\ dirLock = None
        /\ \/ call'[h].pc = "end"
           \/ /\ call'[h].pc = "add" /\ call'[h].acct = call[h].acct
              /\ \E n \in Name : files[n] # None /\ n[2] = call[h].acct
    BY <1>2, LoadEffect
  <2>2. \A g \in Handler : call[g].pc \notin {"add", "drop", "write"} BY <1>t, <2>1, LockHolder
  <2>3. Harmless(h)' BY <1>0, <2>1 DEF Harmless, Gone
  <2>4. \A g \in Handler \ {h} : Harmless(g)'
    BY <1>0, <2>1, <2>2 DEF Harmless, Others, Overlap, Elsewhere, fixed
  <2>5. Gone' /\ Spared' BY <1>0, <2>1 DEF Gone, Spared, Elsewhere, Overlap, fixed
  <2>6. QED BY <2>3, <2>4, <2>5
<1>3. CASE AddActive(h)
  <2>1. /\ Others(h)
        /\ UNCHANGED <<Elsewhere, files, deleted>> /\ PoolFree
        /\ call[h].pc = "add" /\ dirLock = h
        /\ call'[h].pc \in {"end", "import"}
        /\ \A a \in Account \ {call[h].acct} : pool'[a] = pool[a]
    BY <1>3, AddEffect
  <2>2. \A g \in Handler \ {h} : call[g].pc \notin {"add", "drop", "write"} BY <2>1, LockHolder
  <2>3. \A g \in Handler : Harmless(g)' BY <2>1, <2>2 DEF Harmless, Others, PoolFree
  <2>4. call[h].acct \notin deleted BY <1>0, <2>1 DEF Harmless
  <2>5. Gone' /\ Spared' BY <1>0, <1>t, <2>1, <2>4 DEF Gone, Spared, Elsewhere, Overlap, fixed
  <2>6. QED BY <2>3, <2>5
<1>4. QED BY <1>1, <1>2, <1>3

\* The steps of a reload.
LEMMA ReloadDeletions ==
  ASSUME Types, Gate, Lone, Deletions, NEW h \in Handler,
         Reload(h) \/ ReadListed(h) \/ AddListed(h)
  PROVE  Deletions'
<1>0. /\ Gone /\ Spared /\ \A g \in Handler : Harmless(g) BY DEF Deletions
<1>t. /\ pool \in [Account -> Obj \cup {None}]
      /\ \A a \in Account : pool[a] # None => pool[a] \in Obj /\ pool[a] \in Used
      /\ deleted \subseteq Account
      /\ \A n \in Name : n[2] \in Account
      /\ \A g \in Handler : call[g].pc = "drop" => call[g].acct \in Account
  BY FilesAssumption DEF Types, TypeOK, Used, InPool, Name, CallOK
<1>q. SUFFICES Gone' /\ Spared' /\ \A g \in Handler : Harmless(g)'
  BY DEF Deletions
<1>1. CASE Reload(h)
  <2>1. /\ Others(h)
        /\ UNCHANGED <<Elsewhere, files, heap, pool, deleted>>
        /\ call'[h].pc \in {"list", "end"}
    BY <1>1, ReloadEffect
  <2>2. Gone' /\ Spared' BY <1>0, <2>1 DEF Gone, Spared, Elsewhere, Overlap, fixed
  <2>3. Harmless(h)' BY <2>1 DEF Harmless
  <2>4. \A g \in Handler \ {h} : Harmless(g)'
    BY <1>0, <2>1 DEF Harmless, Others, Has, Overlap, Elsewhere, fixed
  <2>5. QED BY <2>2, <2>3, <2>4
<1>2. CASE ReadListed(h)
  <2>1. PICK n \in call[h].todo :
          /\ Others(h)
          /\ UNCHANGED <<Elsewhere, files, heap, pool, deleted>>
          /\ call'[h].pc = "list" \/ (call'[h].pc = "listed" /\ call'[h].acct = n[2] /\ files[n] # None)
          /\ n \in Name
    BY <1>2, ListEffect
  <2>2. Gone' /\ Spared' BY <1>0, <2>1 DEF Gone, Spared, Elsewhere, Overlap, fixed
  <2>3. Harmless(h)' BY <1>0, <2>1 DEF Harmless, Gone
  <2>4. \A g \in Handler \ {h} : Harmless(g)'
    BY <1>0, <2>1 DEF Harmless, Others, Has, Overlap, Elsewhere, fixed
  <2>5. QED BY <2>2, <2>3, <2>4
<1>3. CASE AddListed(h)
  <2>1. /\ Others(h)
        /\ UNCHANGED <<Elsewhere, files, dirLock, deleted>>
        /\ call[h].pc = "listed" /\ call'[h].pc = "list" /\ call[h].acct \in Account
        /\ \A a \in Account \ {call[h].acct} : pool'[a] = pool[a]
        /\ \A o \in Obj : o \in Used => heap'[o] = heap[o]
    BY <1>3, ListedEffect DEF history
  <2>2. /\ pool[call[h].acct] = None
        /\ \A g \in Handler : call[g].pc = "listed" => g = h
    BY <2>1 DEF Lone
  <2>3. call[h].acct \notin deleted \/ Overlap BY <1>0, <2>1 DEF Harmless
  <2>4. Gone' /\ Spared' BY <1>0, <1>t, <2>1, <2>3 DEF Gone, Spared, Elsewhere, Overlap, fixed
  <2>5. Harmless(h)' BY <2>1 DEF Harmless
  <2>6. ASSUME NEW g \in Handler \ {h} PROVE Harmless(g)'
    <3>1. call'[g] = call[g] /\ call[g].pc # "listed" BY <2>1, <2>2 DEF Others
    <3>2. CASE call[g].pc # "drop" BY <1>0, <2>1, <3>1, <3>2 DEF Harmless
    <3>3. CASE call[g].pc = "drop"
      <4>1. /\ call[g].acct \in Account /\ Has(call[g].acct, call[g].token)
            /\ \A n \in Name : n[2] = call[g].acct => files[n] = None
        BY <1>0, <1>t, <3>3 DEF Harmless
      <4>2. call[g].acct # call[h].acct BY <2>2, <4>1 DEF Has
      <4>3. pool'[call[g].acct] = pool[call[g].acct] BY <2>1, <4>1, <4>2
      <4>4. Has(call[g].acct, call[g].token)' BY <1>t, <2>1, <3>1, <4>1, <4>3 DEF Has
      <4>5. QED BY <2>1, <3>1, <3>3, <4>1, <4>4 DEF Harmless
    <3>4. QED BY <3>2, <3>3
  <2>7. QED BY <2>4, <2>5, <2>6
<1>4. QED BY <1>1, <1>2, <1>3

\* The steps of the deletions.
LEMMA DeleteDeletions ==
  ASSUME Types, Gate, Lone, Deletions, NEW h \in Handler,
         EraseFile(h) \/ DeleteFile(h) \/ DropDeleted(h)
  PROVE  Deletions'
<1>0. /\ Gone /\ Spared /\ \A g \in Handler : Harmless(g) BY DEF Deletions
<1>t. /\ pool \in [Account -> Obj \cup {None}] /\ files \in [Name -> Record \cup {None}]
      /\ deleted \subseteq Account
      /\ \A n \in Name : n[2] \in Account
      /\ None \notin Handler
  BY FilesAssumption DEF Types, TypeOK, Name
<1>q. SUFFICES Gone' /\ Spared' /\ \A g \in Handler : Harmless(g)'
  BY DEF Deletions
<1>1. CASE EraseFile(h)
  <2>1. /\ Others(h)
        /\ UNCHANGED <<Elsewhere, heap, pool, dirLock>>
        /\ call[h].pc = "erase" /\ call'[h].pc = "end" /\ dirLock = None /\ call[h].kind = "erase"
        /\ \/ UNCHANGED <<files, deleted>>
           \/ \E n \in Name :
                /\ files' = [m \in Name |-> IF m = n THEN None ELSE files[m]]
                /\ \A m \in Name : m[2] = n[2] /\ files[m] # None => m = n
                /\ deleted' = deleted \/ (deleted' = deleted \cup {n[2]} /\ pool[n[2]] = None)
    BY <1>1, EraseEffect
  <2>2. \A g \in Handler : call[g].pc \notin {"add", "drop", "write"} BY <1>t, <2>1, LockHolder
  <2>3. ASSUME NEW g \in Handler PROVE Harmless(g)'
    <3>1. CASE g = h BY <2>1, <3>1 DEF Harmless
    <3>2. CASE g # h
      <4>1. call'[g] = call[g] /\ call[g].pc \notin {"add", "drop", "write"} BY <2>1, <2>2, <3>2 DEF Others
      <4>2. ASSUME call[g].pc = "listed" PROVE Overlap'
        <5>1. call[g].kind = "register" /\ CallOK(call[g]) /\ CallOK(call[h])
          BY <4>2 DEF Types, CallOK
        <5>2. None \notin Kinds BY FilesAssumption
        <5>3. "register" \in offered /\ "erase" \in offered BY <2>1, <5>1, <5>2 DEF CallOK, Kinds
        <5>4. QED BY <2>1, <5>3 DEF Overlap, Elsewhere, fixed
      <4>3. QED BY <4>1, <4>2 DEF Harmless
    <3>3. QED BY <3>1, <3>2
  <2>4. admin.pc \notin Restores BY <2>1, RestoringCalls
  <2>5. Spared' BY <2>1, <2>4 DEF Spared, Elsewhere, Restores
  <2>6. CASE UNCHANGED <<files, deleted>>
    BY <1>0, <2>1, <2>3, <2>5, <2>6 DEF Gone, Overlap, Elsewhere, fixed
  <2>7. CASE \E n \in Name :
                /\ files' = [m \in Name |-> IF m = n THEN None ELSE files[m]]
                /\ \A m \in Name : m[2] = n[2] /\ files[m] # None => m = n
                /\ deleted' = deleted \/ (deleted' = deleted \cup {n[2]} /\ pool[n[2]] = None)
    <3>1. PICK n \in Name :
                /\ files' = [m \in Name |-> IF m = n THEN None ELSE files[m]]
                /\ \A m \in Name : m[2] = n[2] /\ files[m] # None => m = n
                /\ deleted' = deleted \/ (deleted' = deleted \cup {n[2]} /\ pool[n[2]] = None)
      BY <2>7
    <3>2. \A m \in Name : files'[m] # None => files[m] # None /\ m[2] # n[2] BY <3>1
    <3>3. Gone' BY <1>0, <2>1, <3>1, <3>2 DEF Gone, Overlap, Elsewhere, fixed
    <3>4. QED BY <2>3, <2>5, <3>3
  <2>8. QED BY <2>1, <2>6, <2>7
<1>2. CASE DeleteFile(h)
  <2>1. /\ Others(h)
        /\ UNCHANGED <<Elsewhere, heap, pool, deleted>> /\ dirLock = None
        /\ call'[h].acct = call[h].acct /\ call'[h].token = call[h].token
        /\ \/ call'[h].pc = "end" /\ UNCHANGED files
           \/ /\ call'[h].pc = "drop"
              /\ Has(call[h].acct, call[h].token)
              /\ files' = [n \in Name |-> IF n[2] = call[h].acct THEN None ELSE files[n]]
    BY <1>2, DeleteEffect DEF history
  <2>2. \A g \in Handler : call[g].pc \notin {"add", "drop", "write"} BY <1>t, <2>1, LockHolder
  <2>3. \A g \in Handler \ {h} : Harmless(g)'
    BY <1>0, <2>1, <2>2 DEF Harmless, Others, Overlap, Elsewhere, fixed
  <2>4. Harmless(h)' BY <2>1 DEF Harmless, Has
  <2>5. Gone' /\ Spared' BY <1>0, <2>1 DEF Gone, Spared, Elsewhere, Overlap, fixed
  <2>6. QED BY <2>3, <2>4, <2>5
<1>3. CASE DropDeleted(h)
  <2>1. /\ Others(h)
        /\ UNCHANGED <<Elsewhere, files, heap>> /\ PoolFree
        /\ call[h].pc = "drop" /\ call'[h].pc = "end" /\ dirLock = h
        /\ \A a \in Account \ {call[h].acct} : pool'[a] = pool[a]
        /\ pool'[call[h].acct] = IF Has(call[h].acct, call[h].token) THEN None
                                                                      ELSE pool[call[h].acct]
        /\ deleted' = deleted \cup {call[h].acct}
    BY <1>3, DropEffect
  <2>2. \A g \in Handler \ {h} : call[g].pc \notin {"add", "drop", "write"} BY <2>1, LockHolder
  <2>3. \A g \in Handler : Harmless(g)' BY <2>1, <2>2 DEF Harmless, Others, PoolFree
  <2>4. admin.pc \notin Restores BY <2>1, RestoringCalls
  <2>5. Spared' BY <2>1, <2>4 DEF Spared, Elsewhere, Restores
  <2>6. pool'[call[h].acct] = None BY <1>0, <2>1 DEF Harmless
  <2>7. \A n \in Name : n[2] = call[h].acct => files[n] = None BY <1>0, <2>1 DEF Harmless
  <2>8. Gone' BY <1>0, <1>t, <2>1, <2>6, <2>7 DEF Gone, Overlap, Elsewhere, fixed
  <2>9. QED BY <2>3, <2>5, <2>8
<1>4. QED BY <1>1, <1>2, <1>3

\* The steps that rewrite files, and those that look only.
LEMMA RewriteDeletions ==
  ASSUME Types, Gate, Lone, Deletions, NEW h \in Handler,
         ReadSaved(h) \/ WriteSaved(h) \/ SetFlag(h) \/ Revert(h) \/ Mark(h) \/ Plain(h)
  PROVE  Deletions'
<1>0. /\ Gone /\ Spared /\ \A g \in Handler : Harmless(g) BY DEF Deletions
<1>t. /\ pool \in [Account -> Obj \cup {None}] /\ files \in [Name -> Record \cup {None}]
      /\ \A a \in Account : pool[a] # None => pool[a] \in Obj
      /\ None \notin Handler
      /\ \A g \in Handler : call[g].pc = "drop" => call[g].acct \in Account
  BY FilesAssumption DEF Types, TypeOK, CallOK
<1>q. SUFFICES Gone' /\ Spared' /\ \A g \in Handler : Harmless(g)'
  BY DEF Deletions
<1>1. CASE ReadSaved(h)
  <2>1. /\ Others(h)
        /\ UNCHANGED <<Elsewhere, files, heap, pool, deleted>> /\ dirLock = None
        /\ \/ \E n \in Name : call'[h].pc = "write" /\ call'[h].acct = n /\ files[n] # None
           \/ call'[h].pc \in {"revert", "save"}
    <3>1. PICK o \in call[h].objs :
            \/ \E n \in Name :
                 /\ FilesOf(heap[o].acct) = {n} /\ files[n] # None /\ n[2] = heap[o].acct
                 /\ files[n].token = heap[o].token
                 /\ call'[h].pc = "write" /\ call'[h].acct = n /\ dirLock' = h
                 /\ call'[h].read = [token |-> heap[o].token, disabled |-> heap[o].disabled,
                                     invalid |-> heap[o].invalid]
            \/ call'[h].pc = (IF call[h].kind = "toggle" THEN "revert" ELSE "save")
      BY <1>1, ReadEffect
    <3>2. QED BY <1>1, <3>1, ReadEffect DEF history
  <2>2. \A g \in Handler : call[g].pc \notin {"add", "drop", "write"} BY <1>t, <2>1, LockHolder
  <2>3. \A g \in Handler \ {h} : Harmless(g)'
    BY <1>0, <2>1, <2>2 DEF Harmless, Others, Overlap, Elsewhere, fixed
  <2>4. Harmless(h)' BY <1>0, <2>1 DEF Harmless, Gone
  <2>5. Gone' /\ Spared' BY <1>0, <2>1 DEF Gone, Spared, Elsewhere, Overlap, fixed
  <2>6. QED BY <2>3, <2>4, <2>5
<1>2. CASE WriteSaved(h)
  <2>1. /\ Others(h)
        /\ UNCHANGED <<Elsewhere, heap, pool, deleted>>
        /\ call[h].pc = "write" /\ dirLock = h
        /\ call'[h].pc \in {"save", "revert"}
        /\ files' = [files EXCEPT ![call[h].acct] = call[h].read] \/ UNCHANGED files
    BY <1>2, WriteEffect DEF history
  <2>2. \A g \in Handler \ {h} : call[g].pc \notin {"add", "drop", "write"} BY <2>1, LockHolder
  <2>3. \A g \in Handler : Harmless(g)'
    BY <1>0, <2>1, <2>2 DEF Harmless, Others, Overlap, Elsewhere, fixed
  <2>4. call[h].acct[2] \notin deleted BY <1>0, <2>1 DEF Harmless
  <2>5. Gone' BY <1>0, <1>t, <2>1, <2>4 DEF Gone, Overlap, Elsewhere, fixed
  <2>6. Spared' BY <1>0, <2>1 DEF Spared, Elsewhere
  <2>7. QED BY <2>3, <2>5, <2>6
<1>3. CASE SetFlag(h) \/ Revert(h) \/ Mark(h)
  <2>1. /\ Others(h)
        /\ UNCHANGED <<Elsewhere, files, pool, deleted>>
        /\ call'[h].pc \in {"save", "end", "mark"}
        /\ \A x \in Obj : heap'[x].token = heap[x].token
    BY <1>3, FlagEffect DEF history
  <2>2. Gone' /\ Spared' BY <1>0, <2>1 DEF Gone, Spared, Elsewhere, Overlap, fixed
  <2>3. Harmless(h)' BY <2>1 DEF Harmless
  <2>4. \A g \in Handler \ {h} : Harmless(g)'
    BY <1>0, <1>t, <2>1 DEF Harmless, Others, Has, Overlap, Elsewhere, fixed
  <2>5. QED BY <2>2, <2>3, <2>4
<1>4. CASE Plain(h)
  <2>1. /\ Others(h)
        /\ UNCHANGED <<Elsewhere, files, heap, pool, deleted>>
        /\ call'[h].pc \notin {"add", "drop", "write", "listed"}
    BY <1>4 DEF Plain, Busy, history
  <2>2. Gone' /\ Spared' BY <1>0, <2>1 DEF Gone, Spared, Elsewhere, Overlap, fixed
  <2>3. Harmless(h)' BY <2>1 DEF Harmless
  <2>4. \A g \in Handler \ {h} : Harmless(g)'
    BY <1>0, <2>1 DEF Harmless, Others, Has, Overlap, Elsewhere, fixed
  <2>5. QED BY <2>2, <2>3, <2>4
<1>5. QED BY <1>1, <1>2, <1>3, <1>4

\* A backup or a restore.
LEMMA BackupDeletions ==
  ASSUME Types, Gate, Lone, Deletions, Backup
  PROVE  Deletions'
<1>0. /\ Gone /\ Spared /\ \A g \in Handler : Harmless(g) BY DEF Deletions
<1>t. /\ files \in [Name -> Record \cup {None}] /\ admin \in AdminType
      /\ \A n \in Name : n[2] \in Account
      /\ \A a \in Account : <<"email", a>> \in Name /\ <<"email", a>>[2] = a
      /\ deleted \subseteq Account
  BY DEF Types, TypeOK, AdminOK, Name
<1>q. SUFFICES Gone' /\ Spared' /\ \A g \in Handler : Harmless(g)'
  BY DEF Deletions
<1>h. ASSUME admin.pc \in Restores, call' = call, deleted' \subseteq deleted
      PROVE  \A g \in Handler : Harmless(g)'
  <2>1. \A g \in Handler : call'[g].pc \notin {"add", "drop", "listed"} BY <1>h, RestoringCalls
  <2>2. QED BY <1>0, <1>h, <2>1 DEF Harmless
<1>f. offered' = offered
  <2>1. CASE ~ SwapPool BY <2>1, BackupKeeps DEF fixed
  <2>2. CASE SwapPool BY <2>2, SwapEffect DEF fixed
  <2>3. QED BY <2>1, <2>2
<1>k. ASSUME UNCHANGED <<heap, pool, call, deleted, files>>
      PROVE  Gone' /\ \A g \in Handler : Harmless(g)'
  BY <1>0, <1>f, <1>k DEF Gone, Harmless, Has, Overlap
<1>1. CASE \/ BeginDownload \/ ReadBackup \/ EndDownload \/ BeginRestore \/ EndRestore \/ RestoreConfig
           \/ UndoConfig
  <2>1. UNCHANGED <<heap, pool, call, deleted, files>>
    BY <1>1 DEF BeginDownload, ReadBackup, EndDownload, BeginRestore, EndRestore, RestoreConfig, UndoConfig,
         Unmoved, history, disk
  <2>2. admin'.pc \notin {"clear", "move", "undo", "rewrite"}
    <3>1. CASE BeginDownload BY <3>1 DEF BeginDownload, Idle
    <3>2. CASE ReadBackup
      <4>1. PICK n : admin' = Idle \/ admin' = [admin EXCEPT !.left = @ \ {n}, !.snap[n] = files[n]]
        BY <3>2 DEF ReadBackup
      <4>2. admin.pc = "download" BY <3>2 DEF ReadBackup
      <4>3. CASE admin' = [admin EXCEPT !.left = @ \ {n}, !.snap[n] = files[n]]
        <5>1. admin'.pc = admin.pc BY <1>t, <4>3 DEF AdminType
        <5>2. QED BY <4>2, <5>1
      <4>4. QED BY <4>1, <4>3 DEF Idle
    <3>3. CASE EndDownload BY <3>3 DEF EndDownload, Idle
    <3>4. CASE BeginRestore
      <4>1. admin.pc = "idle" /\ (admin' = admin \/ admin' = [Idle EXCEPT !.pc = "config", !.target = Target, !.was = settings])
        BY <3>4 DEF BeginRestore
      <4>2. QED BY <4>1 DEF Idle
    <3>5. CASE EndRestore BY <3>5 DEF EndRestore, Idle
    <3>6. CASE RestoreConfig BY <1>t, <3>6 DEF RestoreConfig, AdminType
    <3>7. CASE UndoConfig
      <4>1. \/ admin' = [admin EXCEPT !.pc = "undone"]
            \/ admin' = [admin EXCEPT !.pc = "undone", !.unsaved = TRUE]
        BY <3>7 DEF UndoConfig
      <4>2. admin'.pc = "undone" BY <1>t, <4>1 DEF AdminType
      <4>3. QED BY <4>2
    <3>8. QED BY <1>1, <3>1, <3>2, <3>3, <3>4, <3>5, <3>6, <3>7
  <2>3. Spared' BY <2>2 DEF Spared
  <2>4. QED BY <1>k, <2>1, <2>3
<1>2. CASE StageRestore
  <2>1. /\ UNCHANGED <<heap, pool, call, deleted, files>>
        /\ admin'.pc \in {"clear", "rewrite"} /\ admin'.snap = files
    BY <1>2, <1>t DEF StageRestore, Unmoved, history, disk, AdminType
  <2>2. Spared' BY <1>0, <2>1 DEF Spared, Gone
  <2>3. QED BY <1>k, <2>1, <2>2
<1>3. CASE ClearOne
  <2>1. PICK n \in admin.left :
          /\ admin.pc = "clear"
          /\ \/ files' = [files EXCEPT ![n] = None] /\ admin' = [admin EXCEPT !.left = @ \ {n}]
             \/ files' = files /\ admin' = [admin EXCEPT !.pc = "undo", !.left = {}]
          /\ UNCHANGED <<heap, pool, call, deleted>>
    BY <1>3 DEF ClearOne, Unmoved, history
  <2>2. admin'.snap = admin.snap /\ admin'.pc \in {"clear", "undo"} BY <1>t, <2>1 DEF AdminType
  <2>3. Gone' BY <1>0, <1>f, <1>t, <2>1 DEF Gone, Overlap
  <2>4. Spared' BY <1>0, <2>1, <2>2 DEF Spared
  <2>5. QED BY <1>h, <2>1, <2>3, <2>4 DEF Restores
<1>4. CASE Cleared
  <2>1. /\ UNCHANGED <<heap, pool, call, deleted, files>> /\ admin.pc = "clear"
        /\ admin'.snap = admin.snap /\ admin'.target = admin.target
        /\ admin'.left = {n \in Name : admin.target[n] # None}
    BY <1>4, <1>t DEF Cleared, Unmoved, history, disk, AdminType
  <2>2. Spared' BY <1>0, <2>1 DEF Spared
  <2>3. QED BY <1>k, <2>1, <2>2
<1>5. CASE MoveOne
  <2>1. PICK n \in admin.left :
          /\ admin.pc = "move"
          /\ \/ /\ files' = [files EXCEPT ![n] = admin.target[n]]
                /\ admin' = [admin EXCEPT !.left = @ \ {n}]
                /\ deleted' = deleted \ {n[2]}
             \/ /\ files' = files /\ deleted' = deleted
                /\ admin' = [admin EXCEPT !.pc = "undo",
                     !.left = {m \in Name \ admin.left : admin.target[m] # None}]
          /\ UNCHANGED <<heap, pool, call>>
    BY <1>5 DEF MoveOne
  <2>2. n \in Name BY <1>t, <2>1 DEF AdminType
  <2>3. CASE /\ files' = [files EXCEPT ![n] = admin.target[n]]
             /\ admin' = [admin EXCEPT !.left = @ \ {n}]
             /\ deleted' = deleted \ {n[2]}
    <3>1. /\ admin'.snap = admin.snap /\ admin'.target = admin.target /\ admin'.pc = "move"
          /\ admin'.left = admin.left \ {n}
      BY <1>t, <2>1, <2>3 DEF AdminType
    <3>2. Gone' BY <1>0, <1>f, <1>t, <2>1, <2>2, <2>3 DEF Gone, Overlap
    <3>3. Spared' BY <1>0, <2>1, <2>3, <3>1 DEF Spared
    <3>4. QED BY <1>h, <2>1, <3>2, <3>3 DEF Restores
  <2>4. CASE /\ files' = files /\ deleted' = deleted
             /\ admin' = [admin EXCEPT !.pc = "undo",
                  !.left = {m \in Name \ admin.left : admin.target[m] # None}]
    <3>1. admin'.snap = admin.snap /\ admin'.pc = "undo" BY <1>t, <2>4 DEF AdminType
    <3>2. Spared' BY <1>0, <2>1, <2>4, <3>1 DEF Spared
    <3>3. QED BY <1>k, <2>1, <2>4, <3>2
  <2>5. QED BY <2>1, <2>3, <2>4
<1>6. CASE UndoOne \/ RewriteOne
  <2>1. PICK n \in admin.left :
          /\ admin.pc \in {"undo", "rewrite"}
          /\ \/ files' = [files EXCEPT ![n] = None]
             \/ files' = files
             \/ admin.pc = "rewrite" /\ files' = [files EXCEPT ![n] = admin.snap[n]]
          /\ \/ admin' = [admin EXCEPT !.left = @ \ {n}]
             \/ \E lost : admin' = [admin EXCEPT !.left = @ \ {n}, !.lost = lost]
          /\ UNCHANGED <<heap, pool, call, deleted>>
    <3>1. CASE UndoOne BY <3>1 DEF UndoOne
    <3>2. CASE RewriteOne BY <3>2 DEF RewriteOne
    <3>3. QED BY <1>6, <3>1, <3>2
  <2>2. admin'.snap = admin.snap /\ admin'.pc = admin.pc BY <1>t, <2>1 DEF AdminType
  <2>3. Spared' BY <1>0, <2>1, <2>2 DEF Spared
  <2>n. n \in Name BY <1>t, <2>1 DEF AdminType
  <2>w. admin.pc = "rewrite" /\ admin.snap[n] # None => n[2] \notin deleted
    BY <1>0, <2>n DEF Spared
  <2>v. files'[n] = None \/ files' = files \/ (admin.pc = "rewrite" /\ files'[n] = admin.snap[n])
    BY <1>t, <2>n, <2>1
  <2>u. \A m \in Name : m # n => files'[m] = files[m] BY <1>t, <2>1
  <2>4. Gone' BY <1>0, <1>f, <2>1, <2>u, <2>v, <2>w DEF Gone, Overlap
  <2>5. QED BY <1>h, <2>1, <2>3, <2>4 DEF Restores
<1>7. CASE Undone
  <2>1. /\ UNCHANGED <<heap, pool, call, deleted, files>> /\ admin.pc = "undo"
        /\ admin'.snap = admin.snap /\ admin'.pc = "rewrite"
    BY <1>7, <1>t DEF Undone, Unmoved, history, disk, AdminType
  <2>2. Spared' BY <1>0, <2>1 DEF Spared
  <2>3. QED BY <1>k, <2>1, <2>2
<1>8. CASE SwapPool
  <2>1. /\ UNCHANGED <<files, call, deleted>>
        /\ admin.pc = "move" /\ admin.left = {}
        /\ admin' = [admin EXCEPT !.pc = "swapped"]
        /\ \A a \in Account : admin.target[<<"email", a>>] = None => pool'[a] = None
    BY <1>8, SwapEffect
  <2>2. admin'.pc = "swapped" BY <1>t, <2>1 DEF AdminType
  <2>3. Spared' BY <2>2 DEF Spared
  <2>s. \A n \in Name : admin.target[n] # None => n[2] \notin deleted BY <1>0, <2>1 DEF Spared
  <2>r. \A a \in deleted : admin.target[<<"email", a>>] = None BY <1>t, <2>s
  <2>p. \A a \in deleted : pool'[a] = None BY <1>t, <2>1, <2>r
  <2>4. Gone' BY <1>0, <1>f, <2>1, <2>p DEF Gone, Overlap
  <2>5. QED BY <1>h, <2>1, <2>3, <2>4 DEF Restores
<1>9. QED BY <1>1, <1>2, <1>3, <1>4, <1>5, <1>6, <1>7, <1>8 DEF Backup

\* Every step.
LEMMA DeletionsNext ==
  ASSUME Types, Gate, Lone, Deletions, [Next]_vars
  PROVE  Deletions'
<1>1. CASE \E h \in Handler : Start(h) \/ Continue(h)
  <2>1. PICK h \in Handler : Start(h) \/ Continue(h) BY <1>1
  <2>2. CASE SaveImport(h) \/ LoadActive(h) \/ AddActive(h) BY <2>2, ImportDeletions
  <2>7. CASE Reload(h) \/ ReadListed(h) \/ AddListed(h) BY <2>7, ReloadDeletions
  <2>3. CASE EraseFile(h) \/ DeleteFile(h) \/ DropDeleted(h) BY <2>3, DeleteDeletions
  <2>4. CASE ReadSaved(h) \/ WriteSaved(h) \/ SetFlag(h) \/ Revert(h) \/ Mark(h)
    BY <2>4, RewriteDeletions
  <2>5. CASE \/ Start(h) \/ SkipImport(h) \/ NothingToImport(h) \/ FindDeleted(h) \/ SnapshotPool(h)
             \/ Resolve(h) \/ Marked(h) \/ SavedAll(h) \/ EndCall(h) \/ EndReload(h)
    <3>1. Plain(h) BY <2>5, PlainStep
    <3>2. QED BY <3>1, RewriteDeletions
  <2>6. QED BY <2>1, <2>2, <2>3, <2>4, <2>5, <2>7 DEF Continue
<1>2. CASE Backup BY <1>2, BackupDeletions
<1>3. CASE Restart
  <2>1. /\ UNCHANGED <<fixed, files, deleted>> /\ admin' = Idle
        /\ \A h \in Handler : call'[h].pc \in {"ready", "done"}
        /\ \A a \in Account : FilesOf(a) = {} => pool'[a] = None
    BY <1>3, RestartEffect
  <2>2. \A a \in Account : (\A n \in Name : n[2] = a => files[n] = None) => pool'[a] = None
    BY <2>1 DEF FilesOf
  <2>3. deleted \subseteq Account BY DEF Types, TypeOK
  <2>4. Gone' BY <2>1, <2>2, <2>3 DEF Deletions, Gone, Overlap, fixed
  <2>5. Spared' BY <2>1 DEF Spared, Idle
  <2>6. \A h \in Handler : Harmless(h)' BY <2>1 DEF Harmless
  <2>7. QED BY <2>4, <2>5, <2>6 DEF Deletions
<1>4. CASE UNCHANGED vars BY <1>4 DEF vars, Deletions, Gone, Spared, Harmless, Has, Overlap, fixed
<1>5. QED BY <1>1, <1>2, <1>3, <1>4 DEF Next

\* Nothing is deleted yet.
LEMMA InitDeletions ==
  ASSUME Init
  PROVE  Deletions
<1>1. deleted = {} /\ admin = Idle /\ call = [h \in Handler |-> NewCall] BY DEF Init
<1>2. \A h \in Handler : call[h].pc = "ready" BY <1>1 DEF NewCall
<1>3. admin.pc = "idle" BY <1>1 DEF Idle
<1>4. QED BY <1>1, <1>2, <1>3 DEF Deletions, Gone, Spared, Harmless

\* The invariant of the deletions, with the types, the gate and the reloads it needs.
LEMMA DeletionsInv == Spec => [](Types /\ Gate /\ Lone /\ Deletions)
<1>1. Init => Types /\ Gate /\ Lone /\ Deletions BY InitTypes, InitGate, InitLone, InitDeletions
<1>2. Types /\ Gate /\ Lone /\ Deletions /\ [Next]_vars => (Types /\ Gate /\ Lone /\ Deletions)'
  BY TypesNext, GateNext, LoneNext, DeletionsNext
<1>3. QED BY <1>1, <1>2, PTL DEF Spec

\* An account whose deletion was answered has no file until it is imported or restored
\* again, whatever saves, activations, reloads, rejected logins, restores and restarts
\* come in between, failing ones among them; and it is not in the pool, but where
\* deletions by e-mail and the reloads of registrations come together.
THEOREM DeletedStayDeleted == Spec => []DeletedStaysDeleted
<1>1. Types /\ Gate /\ Lone /\ Deletions => DeletedStaysDeleted
  BY DEF Deletions, Gone, DeletedStaysDeleted, FilesOf, Overlap
<1>2. QED BY <1>1, DeletionsInv, PTL

-----------------------------------------------------------------------------
(* Restores.                                                               *)

\* The steps of the handlers touch neither the settings nor the backup handler.
LEMMA HandlerKeeps ==
  ASSUME Types, NEW h \in Handler, Start(h) \/ Continue(h)
  PROVE  UNCHANGED Elsewhere
<1>1. CASE Start(h) BY <1>1, StartStep DEF Elsewhere, disk, backups
<1>2. CASE Continue(h) /\ ~ EndCall(h) BY <1>2, MidStep DEF Quiet, Untouched, Elsewhere, backups
<1>3. CASE EndCall(h) BY <1>3, EndStep DEF Elsewhere, disk, backups
<1>4. QED BY <1>1, <1>2, <1>3

\* No step changes which calls come together.
LEMMA ScenarioKept ==
  ASSUME Types, [Next]_vars
  PROVE  UNCHANGED fixed
<1>1. CASE \E h \in Handler : Start(h) \/ Continue(h) BY <1>1, HandlerKeeps DEF Elsewhere
<1>2. CASE Backup BY <1>2, BackupKeeps, SwapEffect
<1>3. CASE Restart BY <1>3, RestartEffect
<1>4. CASE UNCHANGED vars BY <1>4 DEF vars, fixed
<1>5. QED BY <1>1, <1>2, <1>3, <1>4 DEF Next

\* The settings, in the file and in memory, during a restore.
LEMMA SettingsNext ==
  ASSUME Types, Gate, Settings, [Next]_vars
  PROVE  Settings'
<1>t. admin \in AdminType BY DEF Types, AdminOK
<1>1. CASE \E h \in Handler : Start(h) \/ Continue(h)
  <2>1. UNCHANGED <<admin, config, settings>> BY <1>1, HandlerKeeps DEF Elsewhere
  <2>2. QED BY <2>1 DEF Settings
<1>2. CASE BeginDownload
  <2>1. admin'.pc = "download" /\ admin.pc = "idle" /\ UNCHANGED <<config, settings>>
    BY <1>2 DEF BeginDownload, Idle, disk
  <2>2. QED BY <2>1 DEF Settings, Restores
<1>3. CASE ReadBackup
  <2>1. admin.pc = "download" /\ UNCHANGED <<config, settings>> BY <1>3 DEF ReadBackup, disk
  <2>2. PICK n : admin' = Idle \/ admin' = [admin EXCEPT !.left = @ \ {n}, !.snap[n] = files[n]]
    BY <1>3 DEF ReadBackup
  <2>3. CASE admin' = [admin EXCEPT !.left = @ \ {n}, !.snap[n] = files[n]]
    <3>1. admin'.pc = "download" BY <1>t, <2>1, <2>3 DEF AdminType
    <3>2. QED BY <2>1, <3>1 DEF Settings, Restores
  <2>4. CASE admin' = Idle BY <2>1, <2>4 DEF Settings, Restores, Idle
  <2>5. QED BY <2>2, <2>3, <2>4
<1>4. CASE EndDownload
  <2>1. admin.pc = "download" /\ admin' = Idle /\ UNCHANGED <<config, settings>>
    BY <1>4 DEF EndDownload, disk
  <2>2. QED BY <2>1 DEF Settings, Restores, Idle
<1>5. CASE BeginRestore
  <2>1. /\ admin.pc = "idle" /\ UNCHANGED <<config, settings>>
        /\ admin' = admin \/ admin' = [Idle EXCEPT !.pc = "config", !.target = Target, !.was = settings]
    BY <1>5 DEF BeginRestore, disk
  <2>2. CASE admin' = [Idle EXCEPT !.pc = "config", !.target = Target, !.was = settings]
    <3>1. admin'.pc = "config" /\ admin'.was = settings BY <2>2 DEF Idle
    <3>2. QED BY <2>1, <3>1 DEF Settings, Restores
  <2>3. CASE admin' = admin BY <2>1, <2>3 DEF Settings
  <2>4. QED BY <2>1, <2>2, <2>3
<1>6. CASE EndRestore
  <2>1. admin' = Idle BY <1>6 DEF EndRestore
  <2>2. QED BY <2>1 DEF Settings, Restores, Idle
<1>7. CASE RestoreConfig
  <2>1. /\ admin.pc = "config" /\ UNCHANGED settings
        /\ \/ config' = "new" /\ admin' = [admin EXCEPT !.pc = "stage"]
           \/ admin' = [admin EXCEPT !.pc = "undone", !.snap = files, !.unsaved = TRUE]
    BY <1>7 DEF RestoreConfig
  <2>2. CASE config' = "new" /\ admin' = [admin EXCEPT !.pc = "stage"]
    <3>1. admin'.was = admin.was /\ admin'.pc = "stage" BY <1>t, <2>2 DEF AdminType
    <3>2. QED BY <2>1, <2>2, <3>1 DEF Settings, Restores
  <2>3. CASE admin' = [admin EXCEPT !.pc = "undone", !.snap = files, !.unsaved = TRUE]
    <3>1. admin'.was = admin.was /\ admin'.pc = "undone" /\ admin'.unsaved
      BY <1>t, <2>3 DEF AdminType
    <3>2. QED BY <2>1, <2>3, <3>1 DEF Settings, Restores
  <2>4. QED BY <2>1, <2>2, <2>3
<1>8. CASE StageRestore
  <2>1. /\ admin.pc = "stage" /\ UNCHANGED <<config, settings>>
        /\ admin'.was = admin.was /\ admin'.pc \in {"clear", "rewrite"}
    BY <1>8, <1>t DEF StageRestore, AdminType, disk
  <2>2. QED BY <2>1 DEF Settings, Restores
<1>9. CASE ClearOne
  <2>1. PICK n \in Name : /\ admin.pc = "clear" /\ UNCHANGED <<config, settings>>
                          /\ \/ admin' = [admin EXCEPT !.left = @ \ {n}]
                             \/ admin' = [admin EXCEPT !.pc = "undo", !.left = {}]
    BY <1>9, <1>t DEF ClearOne, AdminType
  <2>2. admin'.was = admin.was /\ admin'.pc \in {"clear", "undo"} BY <1>t, <2>1 DEF AdminType
  <2>3. QED BY <2>1, <2>2 DEF Settings, Restores
<1>10. CASE Cleared
  <2>1. /\ admin.pc = "clear" /\ UNCHANGED <<config, settings>>
        /\ admin'.was = admin.was /\ admin'.pc = "move"
    BY <1>10, <1>t DEF Cleared, AdminType, disk
  <2>2. QED BY <2>1 DEF Settings, Restores
<1>11. CASE MoveOne
  <2>1. PICK n \in Name : /\ admin.pc = "move" /\ UNCHANGED <<config, settings>>
                          /\ \/ admin' = [admin EXCEPT !.left = @ \ {n}]
                             \/ admin' = [admin EXCEPT !.pc = "undo",
                                  !.left = {m \in Name \ admin.left : admin.target[m] # None}]
    BY <1>11, <1>t DEF MoveOne, AdminType
  <2>2. admin'.was = admin.was /\ admin'.pc \in {"move", "undo"} BY <1>t, <2>1 DEF AdminType
  <2>3. QED BY <2>1, <2>2 DEF Settings, Restores
<1>12. CASE UndoOne \/ RewriteOne
  <2>1. PICK n, lost : /\ admin.pc \in {"undo", "rewrite"} /\ UNCHANGED <<config, settings>>
                       /\ \/ admin' = [admin EXCEPT !.left = @ \ {n}]
                          \/ admin' = [admin EXCEPT !.left = @ \ {n}, !.lost = lost]
    <3>1. CASE UndoOne BY <3>1 DEF UndoOne
    <3>2. CASE RewriteOne BY <3>2 DEF RewriteOne
    <3>3. QED BY <1>12, <3>1, <3>2
  <2>2. admin'.was = admin.was /\ admin'.pc = admin.pc BY <1>t, <2>1 DEF AdminType
  <2>3. QED BY <2>1, <2>2 DEF Settings, Restores
<1>13. CASE Undone
  <2>1. /\ admin.pc = "undo" /\ UNCHANGED <<config, settings>>
        /\ admin'.was = admin.was /\ admin'.pc = "rewrite"
    BY <1>13, <1>t DEF Undone, AdminType, disk
  <2>2. QED BY <2>1 DEF Settings, Restores
<1>14. CASE UndoConfig
  <2>1. /\ admin.pc = "rewrite" /\ UNCHANGED settings
        /\ \/ config' = admin.was /\ admin' = [admin EXCEPT !.pc = "undone"]
           \/ admin' = [admin EXCEPT !.pc = "undone", !.unsaved = TRUE]
    BY <1>14 DEF UndoConfig
  <2>2. /\ admin'.was = admin.was /\ admin'.pc = "undone"
        /\ config' = admin.was \/ admin'.unsaved
    BY <1>t, <2>1 DEF AdminType
  <2>3. QED BY <2>1, <2>2 DEF Settings, Restores
<1>15. CASE SwapPool
  <2>1. /\ admin.pc = "move" /\ UNCHANGED config /\ settings' = "new"
        /\ admin' = [admin EXCEPT !.pc = "swapped"]
    BY <1>15, SwapEffect
  <2>2. admin'.pc = "swapped" BY <1>t, <2>1 DEF AdminType
  <2>3. QED BY <2>1, <2>2 DEF Settings, Restores
<1>16. CASE Restart
  <2>1. admin' = Idle BY <1>16, RestartEffect
  <2>2. QED BY <2>1 DEF Settings, Restores, Idle
<1>17. CASE UNCHANGED vars BY <1>17 DEF vars, Settings
<1>18. QED BY <1>1, <1>2, <1>3, <1>4, <1>5, <1>6, <1>7, <1>8, <1>9, <1>10, <1>11, <1>12, <1>13,
              <1>14, <1>15, <1>16, <1>17 DEF Next, Backup

\* The files and the pool during a restore nobody comes into.
LEMMA RestoredNext ==
  ASSUME Types, Gate, Apart, Restored, [Next]_vars
  PROVE  Restored'
<1>t. /\ admin \in AdminType /\ files \in [Name -> Record \cup {None}]
      /\ \A a \in Account : <<"email", a>> \in Name
      /\ None \notin Obj
  BY FilesAssumption DEF Types, TypeOK, AdminOK, Name
<1>q. ASSUME admin'.pc \in {"idle", "download"} PROVE Restored'
  BY <1>q DEF Restored
<1>1. CASE \E h \in Handler : Start(h) \/ Continue(h)
  <2>1. PICK h \in Handler : Start(h) \/ Continue(h) BY <1>1
  <2>2. admin' = admin BY <2>1, HandlerKeeps DEF Elsewhere
  <2>3. CASE admin.pc \notin Restores
    <3>1. admin.pc \in {"idle", "download"} BY <1>t, <2>3 DEF AdminType
    <3>2. QED BY <1>q, <2>2, <3>1
  <2>4. CASE admin.pc \in Restores
    <3>1. call[h].pc \in {"ready", "done"} BY <2>4, RestoringCalls
    <3>2. Start(h) BY <2>1, <3>1, MidStep, EndStep
    <3>3. UNCHANGED <<files, pool, heap>> BY <3>2, StartStep DEF disk
    <3>4. QED BY <2>2, <3>3 DEF Restored, Has
  <2>5. QED BY <2>3, <2>4
<1>2. CASE BeginDownload \/ EndDownload \/ EndRestore
  <2>1. admin'.pc \in {"idle", "download"}
    <3>1. CASE BeginDownload BY <3>1 DEF BeginDownload, Idle
    <3>2. CASE EndDownload BY <3>2 DEF EndDownload, Idle
    <3>3. CASE EndRestore BY <3>3 DEF EndRestore, Idle
    <3>4. QED BY <1>2, <3>1, <3>2, <3>3
  <2>2. QED BY <1>q, <2>1
<1>3. CASE ReadBackup
  <2>1. PICK n : admin' = Idle \/ admin' = [admin EXCEPT !.left = @ \ {n}, !.snap[n] = files[n]]
    BY <1>3 DEF ReadBackup
  <2>2. admin.pc = "download" BY <1>3 DEF ReadBackup
  <2>3. CASE admin' = [admin EXCEPT !.left = @ \ {n}, !.snap[n] = files[n]]
    <3>1. admin'.pc = "download" BY <1>t, <2>2, <2>3 DEF AdminType
    <3>2. QED BY <1>q, <3>1
  <2>4. CASE admin' = Idle
    <3>1. admin'.pc = "idle" BY <2>4 DEF Idle
    <3>2. QED BY <1>q, <3>1
  <2>5. QED BY <2>1, <2>3, <2>4
<1>5. CASE BeginRestore
  <2>1. /\ admin.pc = "idle"
        /\ admin' = admin \/ admin' = [Idle EXCEPT !.pc = "config", !.target = Target, !.was = settings]
    BY <1>5 DEF BeginRestore
  <2>2. CASE admin' = [Idle EXCEPT !.pc = "config", !.target = Target, !.was = settings]
    <3>1. admin'.pc = "config" /\ admin'.left = {} /\ admin'.lost = {} BY <2>2 DEF Idle
    <3>2. QED BY <3>1 DEF Restored
  <2>3. CASE admin' = admin BY <1>q, <2>1, <2>3
  <2>4. QED BY <2>1, <2>2, <2>3
<1>7. CASE RestoreConfig
  <2>1. /\ admin.pc = "config" /\ files' = files
        /\ \/ admin' = [admin EXCEPT !.pc = "stage"]
           \/ admin' = [admin EXCEPT !.pc = "undone", !.snap = files, !.unsaved = TRUE]
    BY <1>7 DEF RestoreConfig
  <2>2. \/ admin'.pc = "stage" /\ admin'.left = admin.left /\ admin'.lost = admin.lost
        \/ admin'.pc = "undone" /\ admin'.snap = files
    BY <1>t, <2>1 DEF AdminType
  <2>3. QED BY <2>1, <2>2 DEF Restored
<1>8. CASE StageRestore
  <2>1. /\ admin.pc = "stage" /\ files' = files /\ admin'.snap = files
        /\ \/ admin'.pc = "clear" /\ admin'.left = Listed /\ admin'.lost = admin.lost
           \/ admin'.pc = "rewrite"
    BY <1>8, <1>t DEF StageRestore, AdminType, disk
  <2>2. QED BY <2>1 DEF Restored, Listed
<1>9. CASE ClearOne
  <2>1. PICK n \in admin.left :
          /\ admin.pc = "clear"
          /\ \/ files' = [files EXCEPT ![n] = None] /\ admin' = [admin EXCEPT !.left = @ \ {n}]
             \/ files' = files /\ admin' = [admin EXCEPT !.pc = "undo", !.left = {}]
    BY <1>9 DEF ClearOne
  <2>2. admin'.snap = admin.snap /\ admin'.lost = {} /\ admin.lost = {}
    BY <1>t, <2>1 DEF AdminType, Restored
  <2>3. CASE files' = [files EXCEPT ![n] = None] /\ admin' = [admin EXCEPT !.left = @ \ {n}]
    <3>1. admin'.pc = "clear" /\ admin'.left = admin.left \ {n} BY <1>t, <2>1, <2>3 DEF AdminType
    <3>2. \A m \in Name : files'[m] = IF m = n THEN None ELSE files[m] BY <1>t, <2>3
    <3>3. QED BY <2>1, <2>2, <3>1, <3>2 DEF Restored
  <2>4. CASE files' = files /\ admin' = [admin EXCEPT !.pc = "undo", !.left = {}]
    <3>1. admin'.pc = "undo" /\ admin'.left = {} BY <1>t, <2>4 DEF AdminType
    <3>2. \A m \in Name : files[m] # None => files[m] = admin.snap[m] BY <2>1 DEF Restored
    <3>3. QED BY <2>2, <2>4, <3>1, <3>2 DEF Restored
  <2>5. QED BY <2>1, <2>3, <2>4
<1>10. CASE Cleared
  <2>1. /\ admin.pc = "clear" /\ admin.left = {} /\ files' = files
        /\ admin'.pc = "move" /\ admin'.target = admin.target
        /\ admin'.left = {n \in Name : admin.target[n] # None} /\ admin'.lost = admin.lost
    BY <1>10, <1>t DEF Cleared, AdminType, disk
  <2>2. \A n \in Name : files[n] = None BY <2>1 DEF Restored
  <2>3. QED BY <2>1, <2>2 DEF Restored
<1>11. CASE MoveOne
  <2>1. PICK n \in admin.left :
          /\ admin.pc = "move"
          /\ \/ /\ files' = [files EXCEPT ![n] = admin.target[n]]
                /\ admin' = [admin EXCEPT !.left = @ \ {n}]
             \/ /\ files' = files
                /\ admin' = [admin EXCEPT !.pc = "undo",
                     !.left = {m \in Name \ admin.left : admin.target[m] # None}]
    BY <1>11 DEF MoveOne
  <2>2. CASE /\ files' = [files EXCEPT ![n] = admin.target[n]]
             /\ admin' = [admin EXCEPT !.left = @ \ {n}]
    <3>1. /\ admin'.pc = "move" /\ admin'.target = admin.target /\ admin'.left = admin.left \ {n}
          /\ admin'.lost = admin.lost
      BY <1>t, <2>1, <2>2 DEF AdminType
    <3>2. \A m \in Name : files'[m] = IF m = n THEN admin.target[m] ELSE files[m] BY <1>t, <2>2
    <3>3. QED BY <2>1, <3>1, <3>2 DEF Restored
  <2>3. CASE /\ files' = files
             /\ admin' = [admin EXCEPT !.pc = "undo",
                  !.left = {m \in Name \ admin.left : admin.target[m] # None}]
    <3>1. /\ admin'.pc = "undo"
          /\ admin'.left = {m \in Name \ admin.left : admin.target[m] # None}
      BY <1>t, <2>3 DEF AdminType
    <3>2. \A m \in Name : files[m] = IF m \in admin'.left THEN admin.target[m] ELSE None
      BY <2>1, <3>1 DEF Restored
    <3>t. admin'.target = admin.target BY <1>t, <2>3 DEF AdminType
    <3>3. QED BY <2>3, <3>1, <3>2, <3>t DEF Restored
  <2>4. QED BY <2>1, <2>2, <2>3
<1>12. CASE UndoOne
  <2>1. PICK n \in admin.left :
          /\ admin.pc = "undo"
          /\ \/ /\ files' = [files EXCEPT ![n] = None]
                /\ admin' = [admin EXCEPT !.left = @ \ {n}]
             \/ /\ files' = files
                /\ admin' = [admin EXCEPT !.left = @ \ {n}, !.lost = @ \cup {n}]
    BY <1>12 DEF UndoOne
  <2>2. /\ admin'.pc = "undo" /\ admin'.left = admin.left \ {n}
        /\ admin'.target = admin.target
        /\ \/ /\ admin'.lost = admin.lost
              /\ \A m \in Name : files'[m] = IF m = n THEN None ELSE files[m]
           \/ admin'.lost = admin.lost \cup {n} /\ files' = files
    BY <1>t, <2>1 DEF AdminType
  <2>4. \A m \in Name \ admin.lost : files[m] = IF m \in admin.left THEN admin.target[m] ELSE None
    BY <2>1 DEF Restored
  <2>5. \A m \in Name \ admin'.lost :
          files'[m] = IF m \in admin'.left THEN admin'.target[m] ELSE None
    BY <2>2, <2>4
  <2>6. QED BY <2>2, <2>5 DEF Restored
<1>13. CASE Undone
  <2>1. /\ admin.pc = "undo" /\ admin.left = {} /\ files' = files
        /\ admin'.pc = "rewrite" /\ admin'.snap = admin.snap
        /\ admin'.left = {n \in Name : admin.snap[n] # None} /\ admin'.lost = admin.lost
    BY <1>13, <1>t DEF Undone, AdminType, disk
  <2>2. \A n \in Name \ admin.lost : files[n] # None => files[n] = admin.snap[n] BY <2>1 DEF Restored
  <2>3. QED BY <2>1, <2>2 DEF Restored
<1>14. CASE RewriteOne
  <2>1. PICK n \in admin.left :
          /\ admin.pc = "rewrite"
          /\ \/ /\ files' = [files EXCEPT ![n] = admin.snap[n]]
                /\ admin' = [admin EXCEPT !.left = @ \ {n}, !.lost = @ \ {n}]
             \/ /\ files' = files \/ files' = [files EXCEPT ![n] = None]
                /\ admin' = [admin EXCEPT !.left = @ \ {n}, !.lost = @ \cup {n}]
    BY <1>14 DEF RewriteOne
  <2>2. /\ admin'.pc = "rewrite" /\ admin'.left = admin.left \ {n} /\ admin'.snap = admin.snap
        /\ \A m \in Name : m # n => files'[m] = files[m]
        /\ \/ admin'.lost = admin.lost \ {n} /\ (n \in Name => files'[n] = admin.snap[n])
           \/ admin'.lost = admin.lost \cup {n}
    BY <1>t, <2>1 DEF AdminType
  <2>4. \A m \in Name \ admin.lost :
          files[m] # admin.snap[m] => m \in admin.left /\ files[m] = None
    BY <2>1 DEF Restored
  <2>5. \A m \in Name \ admin'.lost :
          files'[m] # admin'.snap[m] => m \in admin'.left /\ files'[m] = None
    BY <2>2, <2>4
  <2>6. QED BY <2>2, <2>5 DEF Restored
<1>15. CASE UndoConfig
  <2>1. /\ admin.pc = "rewrite" /\ admin.left = {} /\ files' = files
        /\ \/ admin' = [admin EXCEPT !.pc = "undone"]
           \/ admin' = [admin EXCEPT !.pc = "undone", !.unsaved = TRUE]
    BY <1>15 DEF UndoConfig
  <2>2. admin'.pc = "undone" /\ admin'.snap = admin.snap /\ admin'.lost = admin.lost
    BY <1>t, <2>1 DEF AdminType
  <2>3. \A n \in Name \ admin.lost : files[n] = admin.snap[n] BY <2>1 DEF Restored
  <2>4. QED BY <2>1, <2>2, <2>3 DEF Restored
<1>16. CASE SwapPool
  <2>1. /\ admin.pc = "move" /\ admin.left = {} /\ files' = files
        /\ admin' = [admin EXCEPT !.pc = "swapped"]
        /\ \A a \in Account :
             IF admin.target[<<"email", a>>] = None THEN pool'[a] = None
             ELSE /\ pool'[a] \in Obj \ Used
                  /\ heap'[pool'[a]].token = admin.target[<<"email", a>>].token
    BY <1>16, SwapEffect
  <2>2. admin'.pc = "swapped" /\ admin'.target = admin.target BY <1>t, <2>1 DEF AdminType
  <2>3. \A n \in Name : files[n] = admin.target[n] BY <2>1 DEF Restored
  <2>4. files = admin.target BY <1>t, <2>3 DEF AdminType
  <2>5. \A a \in Account : IF admin.target[<<"email", a>>] = None THEN pool'[a] = None
                           ELSE pool'[a] # None /\ heap'[pool'[a]].token = admin.target[<<"email", a>>].token
    BY <1>t, <2>1
  <2>6. QED BY <2>1, <2>2, <2>4, <2>5 DEF Restored, Has
<1>17. CASE Restart
  <2>1. admin'.pc = "idle" BY <1>17, RestartEffect DEF Idle
  <2>2. QED BY <1>q, <2>1
<1>18. CASE UNCHANGED vars BY <1>18 DEF vars, Restored, Has
<1>19. QED BY <1>1, <1>2, <1>3, <1>5, <1>7, <1>8, <1>9, <1>10, <1>11, <1>12, <1>13,
              <1>14, <1>15, <1>16, <1>17, <1>18 DEF Next, Backup

\* The invariant of the restores.
LEMMA RestoredInv == Spec => [](Types /\ Gate /\ Settings /\ (Apart => Restored))
<1>1. Init => Types /\ Gate /\ Settings /\ (Apart => Restored)
  <2>1. SUFFICES ASSUME Init PROVE Settings /\ Restored BY InitTypes, InitGate
  <2>2. admin.pc = "idle" /\ settings = config BY <2>1 DEF Init, Idle
  <2>3. QED BY <2>2 DEF Settings, Restored, Restores
<1>2. Types /\ Gate /\ Settings /\ (Apart => Restored) /\ [Next]_vars
        => (Types /\ Gate /\ Settings /\ (Apart => Restored))'
  <2>1. SUFFICES ASSUME Types, Gate, Settings, Apart => Restored, [Next]_vars
                 PROVE  Types' /\ Gate' /\ Settings' /\ (Apart => Restored)'
    OBVIOUS
  <2>2. Apart' <=> Apart BY <2>1, ScenarioKept DEF Apart, fixed
  <2>3. QED BY <2>1, <2>2, TypesNext, GateNext, SettingsNext, RestoredNext
<1>3. QED BY <1>1, <1>2, PTL DEF Spec

\* A restore that succeeds is complete.  One that fails, however many files it has come
\* to, puts back every file but those whose own step of the rollback has failed, keeps the
\* settings in memory, and puts the file of the settings back unless a write of it has
\* failed.  No rejected login is recorded meanwhile: RecordAuthFailure enters no gate, and
\* MCFilesReject shows what it may do.
THEOREM RestoresAreExact == Spec => [](Apart => RestoreIsExact)
<1>1. Types /\ Gate /\ Settings /\ (Apart => Restored) => (Apart => RestoreIsExact)
  <2>1. SUFFICES ASSUME Types, Settings, Restored PROVE RestoreIsExact OBVIOUS
  <2>2. ASSUME admin.pc = "swapped"
        PROVE  /\ files = admin.target /\ config = "new" /\ settings = "new"
               /\ \A a \in Account : IF FilesOf(a) = {} THEN pool[a] = None
                                     ELSE \A n \in FilesOf(a) : Has(a, files[n].token)
    <3>1. /\ files = admin.target
          /\ \A a \in Account : IF admin.target[<<"email", a>>] = None THEN pool[a] = None
                                ELSE Has(a, admin.target[<<"email", a>>].token)
      BY <2>1, <2>2 DEF Restored
    <3>2. config = "new" /\ settings = "new" BY <2>1, <2>2 DEF Settings
    <3>3. ASSUME NEW a \in Account
          PROVE  FilesOf(a) = IF files[<<"email", a>>] = None THEN {} ELSE {<<"email", a>>}
      <4>1. \A n \in Name : n[1] # "email" => files[n] = None BY <2>1, <3>1 DEF Types, AdminOK
      <4>2. \A n \in Name : n[2] = a /\ files[n] # None => n = <<"email", a>> BY <4>1 DEF Name
      <4>3. <<"email", a>> \in Name /\ <<"email", a>>[2] = a BY DEF Name
      <4>4. QED BY <4>2, <4>3 DEF FilesOf
    <3>4. QED BY <3>1, <3>2, <3>3
  <2>3. ASSUME admin.pc = "undone"
        PROVE  /\ \A n \in Name \ admin.lost : files[n] = admin.snap[n]
               /\ settings = admin.was /\ (admin.unsaved \/ config = settings)
    BY <2>1, <2>3 DEF Restored, Settings, Restores
  <2>4. QED BY <2>2, <2>3 DEF RestoreIsExact
<1>2. QED BY <1>1, RestoredInv, PTL

-----------------------------------------------------------------------------
(* The pool and the files.                                                 *)

\* A call that is where At looks for it, and does not move, is still there.
LEMMA AtKept ==
  ASSUME NEW h \in Handler, Others(h), NEW a, NEW pcs, At(a, pcs), call[h].pc \notin pcs
  PROVE  At(a, pcs)'
<1>1. PICK g \in Handler : call[g].pc \in pcs /\ call[g].acct = a BY DEF At
<1>2. call'[g] = call[g] BY <1>1 DEF Others
<1>3. QED BY <1>1, <1>2 DEF At

\* A file on the list of a reload that does not move is still on it.
LEMMA ListingKept ==
  ASSUME NEW h \in Handler, Others(h), NEW n, Listing(n),
         call[h].pc \notin {"reload", "list", "listed"} \/ (call[h].pc = "list" /\ call[h].todo = {})
  PROVE  Listing(n)'
<1>1. PICK g \in Handler : \/ call[g].pc = "reload"
                           \/ call[g].pc \in {"list", "listed"} /\ n \in call[g].todo
  BY DEF Listing
<1>2. call'[g] = call[g] BY <1>1 DEF Others
<1>3. QED BY <1>1, <1>2 DEF Listing

\* Outside a restore that moves files the files count.
LEMMA DiskIsFiles ==
  ASSUME admin' = admin, admin.pc \notin Restores
  PROVE  Disk = files /\ Disk' = files'
BY DEF Disk, Restores

\* A step that moves no call on its way to the pool, and leaves which files there are, and
\* their tokens, to the accounts that are not astray.
LEMMA PartsKept ==
  ASSUME Types, Sync, NEW h \in Handler, Others(h), UNCHANGED <<fixed, pool>>, astray \subseteq astray',
         call[h].pc \notin {"activate", "add", "reload", "listed", "drop"},
         call[h].pc = "list" => call[h].todo = {},
         \A a \in Account : pool[a] # None => heap'[pool[a]].token = heap[pool[a]].token,
         \A m \in Name : m[2] \notin astray' =>
           /\ Disk'[m] # None <=> Disk[m] # None
           /\ Disk'[m] # None => Disk'[m].token = Disk[m].token
  PROVE  OneFile' /\ FilesInPool' /\ PoolInFiles' /\ SameTokens'
<1>0. OneFile /\ FilesInPool /\ PoolInFiles /\ SameTokens BY DEF Sync
<1>t. \A n \in Name : n[2] \in Account BY DEF Name
<1>1. \A a : At(a, {"activate", "add", "listed"}) => At(a, {"activate", "add", "listed"})'
  BY AtKept
<1>2. \A a : At(a, {"activate", "add"}) => At(a, {"activate", "add"})' BY AtKept
<1>3. \A a : At(a, {"drop"}) => At(a, {"drop"})' BY AtKept
<1>4. \A n : Listing(n) => Listing(n)' BY ListingKept
<1>5. OneFile' BY <1>0 DEF OneFile
<1>6. FilesInPool' BY <1>0, <1>1, <1>4 DEF FilesInPool
<1>7. PoolInFiles' BY <1>0, <1>3 DEF PoolInFiles, fixed
<1>8. SameTokens'
  <2>1. SUFFICES ASSUME NEW n \in Name, n[2] \notin astray', Disk'[n] # None, pool'[n[2]] # None
                 PROVE  \/ Disk'[n].token = heap'[pool'[n[2]]].token
                        \/ "register" \in offered' \/ At(n[2], {"activate", "add"})'
    BY DEF SameTokens
  <2>2. \/ Disk[n].token = heap[pool[n[2]]].token
        \/ "register" \in offered \/ At(n[2], {"activate", "add"})
    BY <1>0, <2>1 DEF SameTokens
  <2>3. /\ Disk'[n].token = Disk[n].token
        /\ heap'[pool'[n[2]]].token = heap[pool[n[2]]].token
    BY <1>t, <2>1
  <2>4. QED BY <1>2, <2>2, <2>3 DEF fixed
<1>9. QED BY <1>5, <1>6, <1>7, <1>8

\* The steps of the imports and registrations.
LEMMA ImportSync ==
  ASSUME Types, Gate, Sync, NEW h \in Handler,
         SaveImport(h) \/ LoadActive(h) \/ AddActive(h)
  PROVE  Sync'
<1>0. /\ OneFile /\ FilesInPool /\ PoolInFiles /\ SameTokens /\ \A g \in Handler : ReadIsThere(g)
  BY DEF Sync
<1>t. /\ pool \in [Account -> Obj \cup {None}] /\ files \in [Name -> Record \cup {None}]
      /\ \A a \in Account : pool[a] # None => pool[a] \in Obj /\ pool[a] \in Used
      /\ \A n \in Name : n[2] \in Account
      /\ None \notin Record /\ None \notin Obj /\ None \notin Handler
  BY FilesAssumption DEF Types, TypeOK, Used, InPool, Name
<1>a. ASSUME call[h].pc \in {"import", "activate", "add"}
      PROVE  /\ Disk = files /\ (admin' = admin => Disk' = files')
             /\ admin' = admin => Strays'
  <2>1. admin.pc \notin Restores BY <1>a, RestoringCalls
  <2>2. QED BY <2>1 DEF Disk, Restores, Strays
<1>1. CASE SaveImport(h)
  <2>1. /\ Others(h)
        /\ UNCHANGED <<Elsewhere, heap, pool>>
        /\ call[h].pc = "import" /\ dirLock = None
        /\ call[h].kind \in {"import", "register"}
    BY <1>1, SaveEffect
  <2>2. Disk = files /\ Disk' = files' /\ Strays' BY <1>a, <2>1 DEF Elsewhere
  <2>3. \A g \in Handler : call[g].pc \notin {"add", "drop", "write"} BY <1>t, <2>1, LockHolder
  <2>7. CASE /\ call'[h].pc = IF call[h].kind = "register" THEN "reload" ELSE "end"
             /\ UNCHANGED <<files, history>>
    <3>1. \A g \in Handler : ReadIsThere(g)'
      BY <1>0, <2>1, <2>3, <2>7 DEF ReadIsThere, Others, Elsewhere, fixed
    <3>2. OneFile' /\ FilesInPool' /\ PoolInFiles' /\ SameTokens'
      <4>1. astray' = astray /\ UNCHANGED <<fixed, pool>> BY <2>1, <2>7 DEF history, Elsewhere
      <4>2. \A m \in Name : Disk'[m] = Disk[m] BY <2>2, <2>7
      <4>3. QED BY <2>1, <4>1, <4>2, PartsKept
    <3>3. QED BY <2>2, <3>1, <3>2 DEF Sync
  <2>8. CASE \E n \in Name :
                 /\ n[2] \in astray' \/ \A m \in Name : m[2] = n[2] /\ files[m] # None => m = n
                 /\ files' = [files EXCEPT ![n] = [token |-> call[h].token, disabled |-> FALSE,
                                                   invalid |-> FALSE]]
                 /\ call[h].token \in Token
                 /\ deleted' = deleted \ {n[2]}
                 /\ astray' = astray \/ astray' = astray \cup {n[2]}
                 /\ call'[h].acct = n[2]
                 /\ call'[h].pc = IF call[h].kind = "register" THEN "reload" ELSE "activate"
    <3>1. PICK n \in Name :
                 /\ n[2] \in astray' \/ \A m \in Name : m[2] = n[2] /\ files[m] # None => m = n
                 /\ files' = [files EXCEPT ![n] = [token |-> call[h].token, disabled |-> FALSE,
                                                   invalid |-> FALSE]]
                 /\ call[h].token \in Token
                 /\ astray' = astray \/ astray' = astray \cup {n[2]}
                 /\ call'[h].acct = n[2]
                 /\ call'[h].pc = IF call[h].kind = "register" THEN "reload" ELSE "activate"
      BY <2>8
    <3>2. /\ \A m \in Name \ {n} : files'[m] = files[m]
          /\ files'[n] # None
          /\ astray \subseteq astray'
      <4>1. [token |-> call[h].token, disabled |-> FALSE, invalid |-> FALSE] \in Record
        BY <3>1 DEF Record
      <4>2. QED BY <1>t, <3>1, <4>1
    <3>3. call'[h].pc \in {"activate", "reload"} BY <3>1
    <3>4. \A a : At(a, {"activate", "add", "listed"}) => At(a, {"activate", "add", "listed"})'
      BY <2>1, AtKept
    <3>5. \A a : At(a, {"activate", "add"}) => At(a, {"activate", "add"})' BY <2>1, AtKept
    <3>6. \A a : ~ At(a, {"drop"}) BY <2>3 DEF At
    <3>7. \A m : Listing(m) => Listing(m)' BY <2>1, ListingKept
    <3>8. At(n[2], {"activate", "add", "listed"})' \/ \A m : Listing(m)'
      BY <3>1, <3>3 DEF At, Listing
    <3>9. "register" \in offered \/ At(n[2], {"activate", "add"})'
      <4>1. CASE call[h].kind = "import" BY <3>1, <4>1 DEF At
      <4>2. CASE call[h].kind = "register"
        <5>1. CallOK(call[h]) BY DEF Types
        <5>2. None # "register" BY FilesAssumption DEF Kinds
        <5>3. QED BY <4>2, <5>1, <5>2 DEF CallOK
      <4>3. QED BY <2>1, <4>1, <4>2
    <3>10. \A g \in Handler : ReadIsThere(g)'
      <4>1. \A m \in Name : files[m] # None => files'[m] # None BY <3>2
      <4>2. ReadIsThere(h)' BY <3>3 DEF ReadIsThere
      <4>3. ASSUME NEW g \in Handler \ {h} PROVE ReadIsThere(g)'
        <5>1. call'[g] = call[g] /\ call[g].pc \notin {"add", "write"} BY <2>1, <2>3 DEF Others
        <5>2. QED BY <1>0, <2>1, <4>1, <5>1 DEF ReadIsThere, Elsewhere, fixed
      <4>4. QED BY <4>2, <4>3
    <3>11. OneFile' BY <1>0, <2>2, <3>1, <3>2 DEF OneFile
    <3>12. FilesInPool' BY <1>0, <2>1, <2>2, <3>2, <3>4, <3>7, <3>8 DEF FilesInPool
    <3>13. PoolInFiles'
      <4>1. \A a \in Account : (\A m \in Name : m[2] = a => files'[m] = None)
                                 => \A m \in Name : m[2] = a => files[m] = None
        BY <3>2
      <4>2. QED BY <1>0, <2>1, <2>2, <3>2, <3>6, <4>1 DEF PoolInFiles, Elsewhere, fixed
    <3>14. SameTokens' BY <1>0, <2>1, <2>2, <3>2, <3>5, <3>9 DEF SameTokens, Elsewhere, fixed
    <3>15. QED BY <2>2, <3>10, <3>11, <3>12, <3>13, <3>14 DEF Sync
  <2>9. QED BY <1>1, <2>7, <2>8, SaveEffect
<1>2. CASE LoadActive(h)
  <2>1. /\ Others(h)
        /\ UNCHANGED <<Elsewhere, files, heap, pool>>
        /\ call[h].pc = "activate" /\ call[h].acct \in Account /\ dirLock = None
        /\ \/ /\ call'[h].pc = "end"
              /\ \/ astray' = astray /\ ~ \E n \in Name : FilesOf(call[h].acct) = {n}
                 \/ astray' = astray \cup {call[h].acct}
           \/ \E n \in Name :
                 /\ files[n] # None /\ n[2] = call[h].acct
                 /\ call'[h].pc = "add" /\ call'[h].acct = call[h].acct /\ call'[h].read = files[n]
                 /\ astray' = astray
    BY <1>2, LoadEffect
  <2>2. Disk = files /\ Disk' = files' /\ Strays' BY <1>a, <2>1 DEF Elsewhere
  <2>3. \A g \in Handler : call[g].pc \notin {"add", "drop", "write"} BY <1>t, <2>1, LockHolder
  <2>4. \A a : ~ At(a, {"drop"}) BY <2>3 DEF At
  <2>5. \A g \in Handler \ {h} : ReadIsThere(g)'
    BY <1>0, <2>1, <2>3 DEF ReadIsThere, Others, Elsewhere, fixed
  <2>6. ReadIsThere(h)' BY <2>1 DEF ReadIsThere
  <2>7. astray \subseteq astray' BY <2>1
  <2>8. OneFile' BY <1>0, <2>1, <2>2, <2>7 DEF OneFile
  <2>9. PoolInFiles' BY <1>0, <2>1, <2>2, <2>4, <2>7 DEF PoolInFiles, Elsewhere, fixed
  <2>10. ASSUME NEW n \in Name, files[n] # None, n[2] \notin astray', NEW pcs, "add" \in pcs,
                At(n[2], pcs)
         PROVE  At(n[2], pcs)'
    <3>1. PICK g \in Handler : call[g].pc \in pcs /\ call[g].acct = n[2] BY <2>10 DEF At
    <3>2. CASE g # h BY <2>1, <3>1, <3>2 DEF At, Others
    <3>3. CASE g = h
      <4>1. FilesOf(n[2]) = {n}
        <5>1. \A m \in Name : m[2] = n[2] /\ files[m] # None => m = n
          BY <1>0, <2>2, <2>7, <2>10 DEF OneFile
        <5>2. QED BY <2>10, <5>1 DEF FilesOf
      <4>2. call'[h].pc = "add" /\ call'[h].acct = n[2] BY <2>1, <2>10, <3>1, <3>3, <4>1
      <4>3. QED BY <2>10, <4>2 DEF At
    <3>4. QED BY <3>2, <3>3
  <2>11. \A n : Listing(n) => Listing(n)' BY <2>1, ListingKept
  <2>12. FilesInPool'
    <3>1. SUFFICES ASSUME NEW n \in Name, n[2] \notin astray', files[n] # None, pool[n[2]] = None
                   PROVE  At(n[2], {"activate", "add", "listed"})' \/ Listing(n)'
      BY <2>1, <2>2 DEF FilesInPool
    <3>2. At(n[2], {"activate", "add", "listed"}) \/ Listing(n)
      BY <1>0, <2>2, <2>7, <3>1 DEF FilesInPool
    <3>3. QED BY <2>10, <2>11, <3>1, <3>2
  <2>13. SameTokens'
    <3>1. SUFFICES ASSUME NEW n \in Name, n[2] \notin astray', files[n] # None, pool[n[2]] # None,
                          files[n].token # heap[pool[n[2]]].token, "register" \notin offered
                   PROVE  At(n[2], {"activate", "add"})'
      BY <2>1, <2>2 DEF SameTokens, Elsewhere, fixed
    <3>2. At(n[2], {"activate", "add"}) BY <1>0, <2>2, <2>7, <3>1 DEF SameTokens
    <3>3. QED BY <2>10, <3>1, <3>2
  <2>14. QED BY <2>2, <2>5, <2>6, <2>8, <2>9, <2>12, <2>13 DEF Sync
<1>3. CASE AddActive(h)
  <2>1. /\ Others(h)
        /\ UNCHANGED <<Elsewhere, files>> /\ PoolFree
        /\ call[h].pc = "add" /\ call[h].acct \in Account /\ dirLock = h
        /\ call'[h].pc \in {"end", "import"}
        /\ astray \ {call[h].acct} \subseteq astray'
        /\ call[h].acct \in astray' \/ Cardinality(FilesOf(call[h].acct)) = 1
                                    \/ call[h].acct \notin astray
        /\ \A a \in Account \ {call[h].acct} : pool'[a] = pool[a]
        /\ pool'[call[h].acct] \in Obj \ Used
        /\ heap'[pool'[call[h].acct]].token = call[h].read.token
        /\ \A o \in Obj : o \in Used => heap'[o] = heap[o]
    BY <1>3, AddEffect
  <2>2. Disk = files /\ Disk' = files' /\ Strays' BY <1>a, <2>1 DEF Elsewhere
  <2>3. \A g \in Handler \ {h} : call[g].pc \notin {"add", "drop", "write"} BY <2>1, LockHolder
  <2>4. \A g \in Handler : ReadIsThere(g)' BY <2>1, <2>3 DEF ReadIsThere, Others, PoolFree
  <2>5. PICK n \in Name : n[2] = call[h].acct /\ files[n] = call[h].read
    BY <1>0, <2>1 DEF ReadIsThere
  <2>6. call[h].read \in Record BY <2>1 DEF Types, CallOK
  <2>7. files[n] # None BY <1>t, <2>5, <2>6
  <2>8. \A a \in Account \ {call[h].acct} : a \notin astray' => a \notin astray BY <2>1
  <2>9. OneFile'
    <3>1. SUFFICES ASSUME NEW m \in Name, NEW k \in Name, m[2] \notin astray', m[2] = k[2],
                          files[m] # None, files[k] # None
                   PROVE  m = k
      BY <2>1, <2>2 DEF OneFile
    <3>2. CASE m[2] \notin astray BY <1>0, <2>2, <3>1, <3>2 DEF OneFile
    <3>3. CASE m[2] \in astray
      <4>1. m[2] = call[h].acct /\ Cardinality(FilesOf(m[2])) = 1 BY <1>t, <2>1, <3>1, <3>3
      <4>2. m \in FilesOf(m[2]) /\ k \in FilesOf(m[2]) BY <3>1 DEF FilesOf
      <4>3. QED BY <1>t, <4>1, <4>2, FilesCounted
    <3>4. QED BY <3>2, <3>3
  <2>10. \A a, pcs : a # call[h].acct /\ At(a, pcs) => At(a, pcs)' BY <2>1 DEF At, Others
  <2>11. \A m : Listing(m) => Listing(m)' BY <2>1, ListingKept
  <2>12. FilesInPool' BY <1>0, <1>t, <2>1, <2>2, <2>8, <2>10, <2>11 DEF FilesInPool
  <2>13. PoolInFiles' BY <1>0, <1>t, <2>1, <2>2, <2>5, <2>7, <2>8, <2>10 DEF PoolInFiles, Elsewhere, fixed
  <2>14. SameTokens'
    <3>1. SUFFICES ASSUME NEW m \in Name, m[2] \notin astray', files[m] # None, pool'[m[2]] # None,
                          files[m].token # heap'[pool'[m[2]]].token
                   PROVE  "register" \in offered \/ At(m[2], {"activate", "add"})'
      BY <2>1, <2>2 DEF SameTokens, Elsewhere, fixed
    <3>2. CASE m[2] = call[h].acct
      <4>1. m = n BY <2>1, <2>2, <2>5, <2>7, <2>9, <3>1, <3>2 DEF OneFile
      <4>2. QED BY <2>1, <2>5, <3>1, <3>2, <4>1
    <3>3. CASE m[2] # call[h].acct
      <4>1. pool'[m[2]] = pool[m[2]] /\ pool[m[2]] \in Obj /\ pool[m[2]] \in Used
        BY <1>t, <2>1, <3>1, <3>3
      <4>2. heap'[pool'[m[2]]] = heap[pool[m[2]]] BY <2>1, <4>1
      <4>3. "register" \in offered \/ At(m[2], {"activate", "add"})
        BY <1>0, <1>t, <2>2, <2>8, <3>1, <3>3, <4>1, <4>2 DEF SameTokens
      <4>4. QED BY <2>10, <3>3, <4>3
    <3>4. QED BY <3>2, <3>3
  <2>15. QED BY <2>2, <2>4, <2>9, <2>12, <2>13, <2>14 DEF Sync
<1>4. QED BY <1>1, <1>2, <1>3

\* The steps of the reloads.
LEMMA ReloadSync ==
  ASSUME Types, Gate, Lone, Sync, NEW h \in Handler,
         Reload(h) \/ ReadListed(h) \/ AddListed(h)
  PROVE  Sync'
<1>0. /\ OneFile /\ FilesInPool /\ PoolInFiles /\ SameTokens /\ \A g \in Handler : ReadIsThere(g)
  BY DEF Sync
<1>t. /\ pool \in [Account -> Obj \cup {None}] /\ None \notin Obj
      /\ \A n \in Name : n[2] \in Account
  BY FilesAssumption DEF Types, TypeOK, Name
<1>k. /\ call[h].kind = "register" => "register" \in offered
      /\ call[h].kind = "register" /\ offered' = offered => SameTokens'
  <2>1. CallOK(call[h]) BY DEF Types
  <2>2. None # "register" BY FilesAssumption DEF Kinds
  <2>3. QED BY <2>1, <2>2 DEF CallOK, SameTokens
<1>a. ASSUME call[h].pc \in {"reload", "list", "listed"}, UNCHANGED <<admin, files>>
      PROVE  Disk = files /\ Disk' = files /\ Strays'
  <2>1. admin.pc \notin Restores BY <1>a, RestoringCalls
  <2>2. QED BY <1>a, <2>1 DEF Disk, Restores, Strays
<1>1. CASE Reload(h)
  <2>1. /\ Others(h)
        /\ UNCHANGED <<Elsewhere, files, heap, pool>>
        /\ call[h].pc = "reload" /\ call[h].kind = "register"
        /\ \/ call'[h].pc = "list" /\ call'[h].todo = Listed /\ astray' = astray
           \/ /\ call'[h].pc = "end"
              /\ astray' = astray \cup {a \in Account : pool[a] = None /\ FilesOf(a) # {}}
    BY <1>1, ReloadEffect
  <2>2. Disk = files /\ Disk' = files /\ Strays' /\ SameTokens' BY <1>a, <1>k, <2>1 DEF Elsewhere, fixed
  <2>3. astray \subseteq astray' BY <2>1
  <2>4. \A g \in Handler : ReadIsThere(g)' BY <1>0, <2>1 DEF ReadIsThere, Others, Elsewhere, fixed
  <2>5. OneFile' BY <1>0, <2>2, <2>3 DEF OneFile
  <2>6. \A a : At(a, {"drop"}) => At(a, {"drop"})' BY <2>1, AtKept
  <2>7. PoolInFiles' BY <1>0, <2>1, <2>2, <2>3, <2>6 DEF PoolInFiles, Elsewhere, fixed
  <2>8. FilesInPool'
    <3>1. SUFFICES ASSUME NEW n \in Name, n[2] \notin astray', files[n] # None, pool[n[2]] = None
                   PROVE  Listing(n)'
      BY <2>1, <2>2 DEF FilesInPool
    <3>2. n \in Listed /\ FilesOf(n[2]) # {} BY <3>1 DEF Listed, FilesOf
    <3>3. call'[h].pc = "list" /\ call'[h].todo = Listed BY <1>t, <2>1, <3>1, <3>2
    <3>4. QED BY <3>2, <3>3 DEF Listing
  <2>9. QED BY <2>2, <2>4, <2>5, <2>7, <2>8 DEF Sync
<1>2. CASE ReadListed(h)
  <2>1. /\ Others(h)
        /\ UNCHANGED <<Elsewhere, files, heap, pool>>
        /\ call[h].pc = "list" /\ call[h].kind = "register"
    BY <1>2, ListEffect
  <2>2. PICK n \in call[h].todo :
          /\ n \in Name
          /\ call'[h].todo = call[h].todo \ {n}
          /\ \/ /\ files[n] # None /\ pool[n[2]] = None
                /\ call'[h].pc = "listed" /\ call'[h].acct = n[2] /\ call'[h].read = files[n]
                /\ astray' = astray
             \/ /\ files[n] = None \/ pool[n[2]] # None
                /\ call'[h].pc = "list" /\ astray' = astray
             \/ /\ call'[h].pc = "list"
                /\ astray' = IF pool[n[2]] = None THEN astray \cup {n[2]} ELSE astray
    BY <1>2, ListEffect
  <2>3. Disk = files /\ Disk' = files /\ Strays' /\ SameTokens' BY <1>a, <1>k, <2>1 DEF Elsewhere, fixed
  <2>4. astray \subseteq astray' BY <2>2
  <2>5. \A g \in Handler \ {h} : ReadIsThere(g)' BY <1>0, <2>1 DEF ReadIsThere, Others, Elsewhere, fixed
  <2>6. ReadIsThere(h)' BY <2>1, <2>2 DEF ReadIsThere
  <2>7. OneFile' BY <1>0, <2>3, <2>4 DEF OneFile
  <2>8. \A a : At(a, {"drop"}) => At(a, {"drop"})' BY <2>1, AtKept
  <2>9. PoolInFiles' BY <1>0, <2>1, <2>3, <2>4, <2>8 DEF PoolInFiles, Elsewhere, fixed
  <2>10. \A a : At(a, {"activate", "add", "listed"}) => At(a, {"activate", "add", "listed"})'
    BY <2>1, AtKept
  <2>11. FilesInPool'
    <3>1. SUFFICES ASSUME NEW m \in Name, m[2] \notin astray', files[m] # None, pool[m[2]] = None
                   PROVE  At(m[2], {"activate", "add", "listed"})' \/ Listing(m)'
      BY <2>1, <2>3 DEF FilesInPool
    <3>2. At(m[2], {"activate", "add", "listed"}) \/ Listing(m)
      BY <1>0, <2>3, <2>4, <3>1 DEF FilesInPool
    <3>3. CASE m = n
      <4>1. call'[h].pc = "listed" /\ call'[h].acct = m[2] BY <2>2, <3>1, <3>3
      <4>2. QED BY <4>1 DEF At
    <3>4. CASE m # n /\ Listing(m)
      <4>1. PICK g \in Handler : \/ call[g].pc = "reload"
                                 \/ call[g].pc \in {"list", "listed"} /\ m \in call[g].todo
        BY <3>4 DEF Listing
      <4>2. CASE g = h
        <5>1. m \in call'[h].todo /\ call'[h].pc \in {"list", "listed"} BY <2>1, <2>2, <3>4, <4>1, <4>2
        <5>2. QED BY <5>1 DEF Listing
      <4>3. CASE g # h BY <2>1, <4>1, <4>3 DEF Listing, Others
      <4>4. QED BY <4>2, <4>3
    <3>5. QED BY <2>10, <3>2, <3>3, <3>4
  <2>12. QED BY <2>3, <2>5, <2>6, <2>7, <2>9, <2>11 DEF Sync
<1>3. CASE AddListed(h)
  <2>1. /\ Others(h)
        /\ UNCHANGED <<Elsewhere, files, history>>
        /\ call[h].pc = "listed" /\ call[h].acct \in Account
        /\ call'[h].pc = "list" /\ call'[h].todo = call[h].todo
        /\ call[h].kind = "register"
        /\ \A a \in Account \ {call[h].acct} : pool'[a] = pool[a]
        /\ pool'[call[h].acct] \in Obj \ Used
    BY <1>3, ListedEffect
  <2>2. Disk = files /\ Disk' = files /\ Strays' /\ SameTokens' BY <1>a, <1>k, <2>1 DEF Elsewhere, fixed
  <2>3. \A g \in Handler : ReadIsThere(g)' BY <1>0, <2>1 DEF ReadIsThere, Others, Elsewhere, fixed
  <2>4. OneFile' BY <1>0, <2>1, <2>2 DEF OneFile, history
  <2>5. \A a : At(a, {"drop"}) => At(a, {"drop"})' BY <2>1, AtKept
  <2>6. "erase" \in offered \/ \E n \in Name : n[2] = call[h].acct /\ files[n] # None
    BY <1>0, <2>1 DEF ReadIsThere
  <2>7. PoolInFiles'
    <3>1. SUFFICES ASSUME NEW a \in Account \ astray, pool'[a] # None, "erase" \notin offered,
                          \A n \in Name : n[2] = a => files[n] = None
                   PROVE  At(a, {"drop"})'
      BY <2>1, <2>2 DEF PoolInFiles, history, Elsewhere, fixed
    <3>2. a # call[h].acct BY <2>6, <3>1
    <3>3. At(a, {"drop"}) BY <1>0, <2>1, <2>2, <3>1, <3>2 DEF PoolInFiles
    <3>4. QED BY <2>5, <3>3
  <2>8. \A a, pcs : a # call[h].acct /\ At(a, pcs) => At(a, pcs)' BY <2>1 DEF At, Others
  <2>9. \A m : Listing(m) => Listing(m)' BY <2>1 DEF Listing, Others
  <2>10. FilesInPool' BY <1>0, <1>t, <2>1, <2>2, <2>8, <2>9 DEF FilesInPool, history
  <2>11. QED BY <2>2, <2>3, <2>4, <2>7, <2>10 DEF Sync
<1>4. QED BY <1>1, <1>2, <1>3

\* The steps of the deletions.
LEMMA DeleteSync ==
  ASSUME Types, Gate, Lone, Deletions, Sync, NEW h \in Handler,
         EraseFile(h) \/ DeleteFile(h) \/ DropDeleted(h)
  PROVE  Sync'
<1>0. /\ OneFile /\ FilesInPool /\ PoolInFiles /\ SameTokens /\ \A g \in Handler : ReadIsThere(g)
  BY DEF Sync
<1>t. /\ \A n \in Name : n[2] \in Account
      /\ None \notin Handler
  BY FilesAssumption DEF Name
<1>a. ASSUME call[h].pc \in {"erase", "remove", "drop"}
      PROVE  /\ Disk = files /\ (admin' = admin => Disk' = files')
             /\ admin' = admin => Strays'
  <2>1. admin.pc \notin Restores BY <1>a, RestoringCalls
  <2>2. QED BY <2>1 DEF Disk, Restores, Strays
<1>s. ASSUME Others(h), call[h].pc \in {"erase", "remove", "drop"},
             UNCHANGED <<Elsewhere, heap, pool, astray>>,
             \A m \in Name : files'[m] # None => files'[m] = files[m]
      PROVE  OneFile' /\ FilesInPool' /\ SameTokens' /\ Strays'
  <2>1. Disk = files /\ Disk' = files' /\ Strays' BY <1>a, <1>s DEF Elsewhere
  <2>2. \A a : At(a, {"activate", "add", "listed"}) => At(a, {"activate", "add", "listed"})'
    BY <1>s, AtKept
  <2>3. \A a : At(a, {"activate", "add"}) => At(a, {"activate", "add"})' BY <1>s, AtKept
  <2>4. \A n : Listing(n) => Listing(n)' BY <1>s, ListingKept
  <2>5. OneFile' BY <1>0, <1>s, <2>1 DEF OneFile
  <2>6. FilesInPool' BY <1>0, <1>s, <2>1, <2>2, <2>4 DEF FilesInPool
  <2>7. SameTokens' BY <1>0, <1>s, <2>1, <2>3 DEF SameTokens, Elsewhere, fixed
  <2>8. QED BY <2>1, <2>5, <2>6, <2>7
<1>1. CASE EraseFile(h)
  <2>1. /\ Others(h)
        /\ UNCHANGED <<Elsewhere, heap, pool, astray>>
        /\ call[h].pc = "erase" /\ call'[h].pc = "end" /\ dirLock = None /\ call[h].kind = "erase"
        /\ \A m \in Name : files'[m] # None => files'[m] = files[m]
    BY <1>1, EraseEffect
  <2>2. "erase" \in offered
    <3>1. CallOK(call[h]) BY DEF Types
    <3>2. None # "erase" BY FilesAssumption DEF Kinds
    <3>3. QED BY <2>1, <3>1, <3>2 DEF CallOK
  <2>3. PoolInFiles' BY <2>1, <2>2 DEF PoolInFiles, Elsewhere, fixed
  <2>4. \A g \in Handler : call[g].pc \notin {"add", "drop", "write"} BY <1>t, <2>1, LockHolder
  <2>5. \A g \in Handler : ReadIsThere(g)'
    BY <2>1, <2>2, <2>4 DEF ReadIsThere, Others, Elsewhere, fixed
  <2>6. QED BY <1>s, <2>1, <2>3, <2>5 DEF Sync
<1>2. CASE DeleteFile(h)
  <2>1. /\ Others(h)
        /\ UNCHANGED <<Elsewhere, heap, pool, astray>>
        /\ call[h].pc = "remove" /\ dirLock = None
        /\ call'[h].acct = call[h].acct /\ call[h].acct \in Account
        /\ \/ call'[h].pc = "end" /\ UNCHANGED files
           \/ /\ call'[h].pc = "drop" /\ Has(call[h].acct, call[h].token)
              /\ files' = [n \in Name |-> IF n[2] = call[h].acct THEN None ELSE files[n]]
    BY <1>2, DeleteEffect DEF history
  <2>2. \A m \in Name : files'[m] # None => files'[m] = files[m] BY <2>1
  <2>3. \A g \in Handler : call[g].pc \notin {"add", "drop", "write"} BY <1>t, <2>1, LockHolder
  <2>4. \A g \in Handler : ReadIsThere(g)'
    <3>1. ReadIsThere(h)' BY <2>1 DEF ReadIsThere
    <3>2. ASSUME NEW g \in Handler \ {h} PROVE ReadIsThere(g)'
      <4>1. call'[g] = call[g] /\ call[g].pc \notin {"add", "write"} BY <2>1, <2>3 DEF Others
      <4>2. CASE UNCHANGED files BY <1>0, <2>1, <4>1, <4>2 DEF ReadIsThere, Elsewhere, fixed
      <4>3. CASE call[g].pc # "listed" BY <4>1, <4>3 DEF ReadIsThere
      <4>4. CASE /\ call[g].pc = "listed" /\ Has(call[h].acct, call[h].token)
                 /\ files' = [n \in Name |-> IF n[2] = call[h].acct THEN None ELSE files[n]]
        <5>1. call[g].acct # call[h].acct BY <4>4 DEF Lone, Has
        <5>2. \A n \in Name : n[2] = call[g].acct => files'[n] = files[n] BY <4>4, <5>1
        <5>3. QED BY <1>0, <2>1, <4>1, <4>4, <5>2 DEF ReadIsThere, Elsewhere, fixed
      <4>5. QED BY <2>1, <4>2, <4>3, <4>4
    <3>3. QED BY <3>1, <3>2
  <2>5. \A a : ~ At(a, {"drop"}) BY <2>3 DEF At
  <2>6. Disk = files /\ Disk' = files' BY <1>a, <2>1 DEF Elsewhere
  <2>7. PoolInFiles'
    <3>1. CASE call'[h].pc = "end" /\ UNCHANGED files
      BY <1>0, <2>1, <2>5, <2>6, <3>1 DEF PoolInFiles, Elsewhere, fixed
    <3>2. CASE /\ call'[h].pc = "drop"
               /\ files' = [n \in Name |-> IF n[2] = call[h].acct THEN None ELSE files[n]]
      <4>1. At(call[h].acct, {"drop"})' BY <2>1, <3>2 DEF At
      <4>2. \A a \in Account \ {call[h].acct} : \A n \in Name : n[2] = a => files'[n] = files[n]
        BY <3>2
      <4>3. QED BY <1>0, <2>1, <2>5, <2>6, <4>1, <4>2 DEF PoolInFiles, Elsewhere, fixed
    <3>3. QED BY <2>1, <3>1, <3>2
  <2>8. QED BY <1>s, <2>1, <2>2, <2>4, <2>7 DEF Sync
<1>3. CASE DropDeleted(h)
  <2>1. /\ Others(h)
        /\ UNCHANGED <<Elsewhere, files, heap, astray>> /\ PoolFree
        /\ call[h].pc = "drop" /\ call'[h].pc = "end" /\ dirLock = h /\ call[h].acct \in Account
        /\ \A a \in Account \ {call[h].acct} : pool'[a] = pool[a]
        /\ pool'[call[h].acct] = IF Has(call[h].acct, call[h].token) THEN None
                                                                      ELSE pool[call[h].acct]
    BY <1>3, DropEffect
  <2>2. Disk = files /\ Disk' = files' /\ Strays' BY <1>a, <2>1 DEF Elsewhere
  <2>3. \A g \in Handler \ {h} : call[g].pc \notin {"add", "drop", "write"} BY <2>1, LockHolder
  <2>4. \A g \in Handler : ReadIsThere(g)' BY <2>1, <2>3 DEF ReadIsThere, Others, PoolFree
  <2>5. Harmless(h) BY DEF Deletions
  <2>6. pool'[call[h].acct] = None BY <2>1, <2>5 DEF Harmless
  <2>7. \A n \in Name : n[2] = call[h].acct => files[n] = None BY <2>1, <2>5 DEF Harmless
  <2>8. \A a : At(a, {"activate", "add", "listed"}) => At(a, {"activate", "add", "listed"})'
    BY <2>1, AtKept
  <2>9. \A a : At(a, {"activate", "add"}) => At(a, {"activate", "add"})' BY <2>1, AtKept
  <2>10. \A a : a # call[h].acct => ~ At(a, {"drop"}) BY <2>3 DEF At
  <2>11. \A n : Listing(n) => Listing(n)' BY <2>1, ListingKept
  <2>12. OneFile' BY <1>0, <2>1, <2>2 DEF OneFile
  <2>13. FilesInPool' BY <1>0, <1>t, <2>1, <2>2, <2>7, <2>8, <2>11 DEF FilesInPool
  <2>14. PoolInFiles' BY <1>0, <2>1, <2>2, <2>6, <2>10 DEF PoolInFiles, Elsewhere, fixed
  <2>15. SameTokens' BY <1>0, <1>t, <2>1, <2>2, <2>6, <2>9 DEF SameTokens, Elsewhere, fixed
  <2>16. QED BY <2>2, <2>4, <2>12, <2>13, <2>14, <2>15 DEF Sync
<1>4. QED BY <1>1, <1>2, <1>3

\* The steps that rewrite files, and those that look only.
LEMMA RewriteSync ==
  ASSUME Types, Gate, Apart, Sync, NEW h \in Handler,
         ReadSaved(h) \/ WriteSaved(h) \/ SetFlag(h) \/ Revert(h) \/ Mark(h) \/ Plain(h)
  PROVE  Sync'
<1>0. \A g \in Handler : ReadIsThere(g) BY DEF Sync
<1>t. /\ pool \in [Account -> Obj \cup {None}] /\ files \in [Name -> Record \cup {None}]
      /\ \A a \in Account : pool[a] # None => pool[a] \in Obj
      /\ \A n \in Name : n[2] \in Account
      /\ None \notin Handler /\ None \notin Record
  BY FilesAssumption DEF Types, TypeOK, Name
<1>s. ASSUME Others(h), call[h].pc \notin {"activate", "add", "reload", "listed", "drop"},
             call[h].pc = "list" => call[h].todo = {},
             UNCHANGED <<Elsewhere, pool, astray>>,
             \A a \in Account : pool[a] # None => heap'[pool[a]].token = heap[pool[a]].token,
             \A m \in Name : /\ Disk'[m] # None <=> Disk[m] # None
                             /\ Disk'[m] # None => Disk'[m].token = Disk[m].token
      PROVE  OneFile' /\ FilesInPool' /\ PoolInFiles' /\ SameTokens' /\ Strays'
  <2>1. UNCHANGED <<fixed, pool>> /\ astray \subseteq astray' BY <1>s DEF Elsewhere
  <2>2. OneFile' /\ FilesInPool' /\ PoolInFiles' /\ SameTokens' BY <1>s, <2>1, PartsKept
  <2>3. Strays' BY <1>s DEF Sync, Strays, Elsewhere
  <2>4. QED BY <2>2, <2>3
<1>d. ASSUME UNCHANGED <<Elsewhere, files>> PROVE Disk' = Disk
  BY <1>d DEF Elsewhere, Disk
<1>1. CASE ReadSaved(h)
  <2>1. /\ Others(h)
        /\ UNCHANGED <<Elsewhere, files, heap, pool, astray>>
        /\ call[h].pc = "save" /\ dirLock = None
    BY <1>1, ReadEffect DEF history
  <2>2. call'[h].pc \in {"save", "revert"} \/ (call'[h].pc = "write" /\ ReadIsThere(h)')
    <3>1. PICK o \in call[h].objs :
            /\ heap[o] \in Object
            /\ \/ \E n \in Name :
                    /\ FilesOf(heap[o].acct) = {n} /\ files[n] # None /\ n[2] = heap[o].acct
                    /\ files[n].token = heap[o].token
                    /\ call'[h].pc = "write" /\ call'[h].acct = n /\ dirLock' = h
                    /\ call'[h].read = [token |-> heap[o].token, disabled |-> heap[o].disabled,
                                        invalid |-> heap[o].invalid]
               \/ call'[h].pc = (IF call[h].kind = "toggle" THEN "revert" ELSE "save")
      BY <1>1, ReadEffect
    <3>2. CASE call'[h].pc = (IF call[h].kind = "toggle" THEN "revert" ELSE "save") BY <3>2
    <3>3. CASE \E n \in Name :
                    /\ FilesOf(heap[o].acct) = {n} /\ files[n] # None /\ n[2] = heap[o].acct
                    /\ files[n].token = heap[o].token
                    /\ call'[h].pc = "write" /\ call'[h].acct = n /\ dirLock' = h
                    /\ call'[h].read = [token |-> heap[o].token, disabled |-> heap[o].disabled,
                                        invalid |-> heap[o].invalid]
      <4>1. PICK n \in Name :
                    /\ files[n] # None
                    /\ files[n].token = heap[o].token
                    /\ call'[h].pc = "write" /\ call'[h].acct = n
                    /\ call'[h].read = [token |-> heap[o].token, disabled |-> heap[o].disabled,
                                        invalid |-> heap[o].invalid]
        BY <3>3
      <4>2. call'[h].read.token = heap[o].token BY <4>1
      <4>3. QED BY <2>1, <4>1, <4>2 DEF ReadIsThere
    <3>4. QED BY <3>1, <3>2, <3>3
  <2>3. \A g \in Handler : call[g].pc \notin {"add", "drop", "write"} BY <1>t, <2>1, LockHolder
  <2>4. \A g \in Handler \ {h} : ReadIsThere(g)'
    BY <1>0, <2>1, <2>3 DEF ReadIsThere, Others, Elsewhere, fixed
  <2>5. ReadIsThere(h)' BY <2>2 DEF ReadIsThere
  <2>6. Disk' = Disk BY <1>d, <2>1
  <2>7. OneFile' /\ FilesInPool' /\ PoolInFiles' /\ SameTokens' /\ Strays' BY <1>s, <2>1, <2>6
  <2>8. QED BY <2>4, <2>5, <2>7 DEF Sync
<1>2. CASE WriteSaved(h)
  <2>1. /\ Others(h)
        /\ UNCHANGED <<Elsewhere, heap, pool, astray>>
        /\ call[h].pc = "write" /\ call[h].acct \in Name /\ call[h].read \in Record
        /\ dirLock = h /\ call'[h].pc \in {"save", "revert"}
        /\ files' = [files EXCEPT ![call[h].acct] = call[h].read] \/ UNCHANGED files
    BY <1>2, WriteEffect DEF history
  <2>2. \A g \in Handler \ {h} : call[g].pc \notin {"add", "drop", "write"} BY <2>1, LockHolder
  <2>4. files[call[h].acct] # None /\ files[call[h].acct].token = call[h].read.token
    BY <1>0, <2>1 DEF ReadIsThere
  <2>5. admin.pc \notin Restores BY <2>1, RestoringCalls
  <2>6. Disk = files /\ Disk' = files' BY <2>1, <2>5, DiskIsFiles DEF Elsewhere
  <2>7. \A m \in Name : /\ files'[m] # None <=> files[m] # None
                        /\ files'[m] # None => files'[m].token = files[m].token
    BY <1>t, <2>1, <2>4
  <2>3. \A g \in Handler : ReadIsThere(g)'
    BY <1>0, <2>1, <2>2, <2>7 DEF ReadIsThere, Others, Elsewhere, fixed
  <2>8. OneFile' /\ FilesInPool' /\ PoolInFiles' /\ SameTokens' /\ Strays' BY <1>s, <2>1, <2>6, <2>7
  <2>9. QED BY <2>3, <2>8 DEF Sync
<1>3. CASE SetFlag(h) \/ Revert(h) \/ Mark(h)
  <2>1. /\ Others(h)
        /\ UNCHANGED <<Elsewhere, files, pool, astray>>
        /\ call[h].pc \in {"flag", "revert", "mark"} /\ call'[h].pc \in {"save", "end", "mark"}
        /\ \A x \in Obj : heap'[x].token = heap[x].token
    BY <1>3, FlagEffect DEF history
  <2>2. \A g \in Handler : ReadIsThere(g)' BY <1>0, <2>1 DEF ReadIsThere, Others, Elsewhere, fixed
  <2>3. Disk' = Disk BY <1>d, <2>1
  <2>4. OneFile' /\ FilesInPool' /\ PoolInFiles' /\ SameTokens' /\ Strays' BY <1>s, <1>t, <2>1, <2>3
  <2>5. QED BY <2>2, <2>4 DEF Sync
<1>4. CASE Plain(h)
  <2>1. /\ Others(h)
        /\ UNCHANGED <<Elsewhere, files, heap, pool, astray>>
        /\ call[h].pc \notin {"activate", "add", "reload", "listed", "drop"}
        /\ call[h].pc = "list" => call[h].todo = {}
        /\ call'[h].pc \notin {"add", "listed", "write"}
    BY <1>4 DEF Plain, Busy, history
  <2>2. \A g \in Handler : ReadIsThere(g)' BY <1>0, <2>1 DEF ReadIsThere, Others, Elsewhere, fixed
  <2>3. Disk' = Disk BY <1>d, <2>1
  <2>4. OneFile' /\ FilesInPool' /\ PoolInFiles' /\ SameTokens' /\ Strays' BY <1>s, <2>1, <2>3
  <2>5. QED BY <2>2, <2>4 DEF Sync
<1>5. QED BY <1>1, <1>2, <1>3, <1>4

\* The files as they are after a failure are the same before and after every step of a
\* backup call but the swap, those lost in the rollback apart, and what is on disk changes
\* during a restore only.
LEMMA BackupDisk ==
  ASSUME Types, Restored, Restored', Strays, Backup, ~ SwapPool
  PROVE  /\ \A n \in Name : n[2] \notin astray' => Disk'[n] = Disk[n]
         /\ admin.pc \notin Restores => files' = files
<1>t. admin \in AdminType BY DEF Types, AdminOK
<1> DEFINE moving == {"clear", "move", "undo", "rewrite"}
<1>a. ASSUME files' = files, admin.pc \notin moving, admin'.pc \notin moving
      PROVE  Disk' = Disk
  BY <1>a DEF Disk
<1>b. ASSUME admin.pc \in moving, admin'.pc \in moving, admin'.snap = admin.snap
      PROVE  Disk' = Disk /\ (admin.pc \notin Restores => files' = files)
  BY <1>b DEF Disk, Restores
<1>1. CASE BeginDownload
  <2>1. files' = files /\ admin.pc = "idle" /\ admin'.pc = "download"
    BY <1>1 DEF BeginDownload, disk, Idle
  <2>2. QED BY <1>a, <2>1
<1>2. CASE ReadBackup
  <2>1. files' = files /\ admin.pc = "download" BY <1>2 DEF ReadBackup, disk
  <2>2. PICK n : admin' = Idle \/ admin' = [admin EXCEPT !.left = @ \ {n}, !.snap[n] = files[n]]
    BY <1>2 DEF ReadBackup
  <2>3. CASE admin' = [admin EXCEPT !.left = @ \ {n}, !.snap[n] = files[n]]
    <3>1. admin'.pc = "download" BY <1>t, <2>1, <2>3 DEF AdminType
    <3>2. QED BY <1>a, <2>1, <3>1
  <2>4. CASE admin' = Idle
    <3>1. admin'.pc = "idle" BY <2>4 DEF Idle
    <3>2. QED BY <1>a, <2>1, <3>1
  <2>5. QED BY <2>2, <2>3, <2>4
<1>3. CASE EndDownload
  <2>1. files' = files /\ admin.pc = "download" /\ admin'.pc = "idle" BY <1>3 DEF EndDownload, disk, Idle
  <2>2. QED BY <1>a, <2>1
<1>4. CASE BeginRestore
  <2>1. files' = files /\ admin.pc = "idle"
        /\ (admin' = admin \/ admin' = [Idle EXCEPT !.pc = "config", !.target = Target, !.was = settings])
    BY <1>4 DEF BeginRestore, disk
  <2>2. admin'.pc \in {"idle", "config"} BY <2>1 DEF Idle
  <2>3. QED BY <1>a, <2>1, <2>2
<1>5. CASE EndRestore
  <2>1. files' = files /\ admin.pc \in {"swapped", "undone"} /\ admin'.pc = "idle"
    BY <1>5 DEF EndRestore, disk, Idle
  <2>2. QED BY <1>a, <2>1
<1>6. CASE RestoreConfig
  <2>1. files' = files /\ admin.pc = "config" /\ admin'.pc \in {"stage", "undone"}
    BY <1>6, <1>t DEF RestoreConfig, AdminType
  <2>2. QED BY <1>a, <2>1
<1>7. CASE StageRestore
  <2>1. /\ files' = files /\ admin.pc = "stage" /\ admin'.pc \in moving /\ admin'.snap = files
    BY <1>7, <1>t DEF StageRestore, AdminType, disk
  <2>2. QED BY <2>1 DEF Disk
<1>8. CASE ClearOne
  <2>1. PICK n : /\ admin.pc = "clear"
                 /\ \/ admin' = [admin EXCEPT !.left = @ \ {n}]
                    \/ admin' = [admin EXCEPT !.pc = "undo", !.left = {}]
    BY <1>8 DEF ClearOne
  <2>2. admin'.pc \in moving /\ admin'.snap = admin.snap BY <1>t, <2>1 DEF AdminType
  <2>3. QED BY <1>b, <2>1, <2>2
<1>9. CASE Cleared
  <2>1. admin.pc = "clear" /\ admin'.pc = "move" /\ admin'.snap = admin.snap
    BY <1>9, <1>t DEF Cleared, AdminType
  <2>2. QED BY <1>b, <2>1
<1>10. CASE MoveOne
  <2>1. PICK n : /\ admin.pc = "move"
                 /\ \/ admin' = [admin EXCEPT !.left = @ \ {n}]
                    \/ admin' = [admin EXCEPT !.pc = "undo",
                         !.left = {m \in Name \ admin.left : admin.target[m] # None}]
    BY <1>10 DEF MoveOne
  <2>2. admin'.pc \in moving /\ admin'.snap = admin.snap BY <1>t, <2>1 DEF AdminType
  <2>3. QED BY <1>b, <2>1, <2>2
<1>11. CASE UndoOne \/ RewriteOne
  <2>1. \E n \in admin.left :
          /\ admin.pc \in {"undo", "rewrite"}
          /\ \/ admin' = [admin EXCEPT !.left = @ \ {n}]
             \/ admin' = [admin EXCEPT !.left = @ \ {n}, !.lost = @ \cup {n}]
             \/ admin' = [admin EXCEPT !.left = @ \ {n}, !.lost = @ \ {n}]
    <3>1. CASE UndoOne BY <3>1 DEF UndoOne
    <3>2. CASE RewriteOne BY <3>2 DEF RewriteOne
    <3>3. QED BY <1>11, <3>1, <3>2
  <2>2. admin'.pc = admin.pc /\ admin'.snap = admin.snap BY <1>t, <2>1 DEF AdminType
  <2>3. QED BY <1>b, <2>1, <2>2
<1>12. CASE Undone
  <2>1. admin.pc = "undo" /\ admin'.pc = "rewrite" /\ admin'.snap = admin.snap
    BY <1>12, <1>t DEF Undone, AdminType
  <2>2. QED BY <1>b, <2>1
<1>13. CASE UndoConfig
  <2>1. /\ admin.pc = "rewrite" /\ admin'.pc = "undone"
        /\ admin'.snap = admin.snap /\ admin'.lost = admin.lost
    BY <1>13, <1>t DEF UndoConfig, AdminType
  <2>2. \A n \in Name \ admin.lost : files'[n] = admin.snap[n] BY <2>1 DEF Restored
  <2>3. astray' = astray BY <1>13 DEF UndoConfig, Unmoved, history
  <2>4. \A n \in Name : n[2] \notin astray' => n \notin admin.lost BY <2>1, <2>3 DEF Strays, Restores
  <2>5. QED BY <2>1, <2>2, <2>4 DEF Disk, Restores
<1>14. QED
  <2>1. BeginDownload \/ ReadBackup \/ EndDownload \/ BeginRestore \/ EndRestore \/ RestoreConfig
          => files' = files
    BY DEF BeginDownload, ReadBackup, EndDownload, BeginRestore, EndRestore, RestoreConfig, disk
  <2>2. StageRestore => files' = files BY DEF StageRestore, disk
  <2>3. UndoConfig => files' = files BY DEF UndoConfig
  <2>4. QED
    BY <2>1, <2>2, <2>3, <1>1, <1>2, <1>3, <1>4, <1>5, <1>6, <1>7, <1>8, <1>9, <1>10, <1>11, <1>12, <1>13
    DEF Backup

\* What a rollback loses goes astray.
LEMMA StraysNext ==
  ASSUME Types, Restored, Strays, Backup
  PROVE  Strays' /\ (~ SwapPool => astray \subseteq astray')
<1>t. admin \in AdminType BY DEF Types, AdminOK
<1>1. CASE BeginDownload \/ EndDownload \/ EndRestore
  <2>1. astray' = astray
    BY <1>1 DEF BeginDownload, EndDownload, EndRestore, Unmoved, history
  <2>3. admin'.pc \in {"idle", "download"}
    <3>1. CASE BeginDownload
      <4>1. admin' = [Idle EXCEPT !.pc = "download", !.left = Listed] BY <3>1 DEF BeginDownload
      <4>2. QED BY <4>1 DEF Idle
    <3>2. CASE EndDownload \/ EndRestore BY <3>2 DEF EndDownload, EndRestore, Idle
    <3>3. QED BY <1>1, <3>1, <3>2
  <2>2. QED BY <2>1, <2>3 DEF Strays, Restores
<1>2. CASE ReadBackup
  <2>1. astray' = astray BY <1>2 DEF ReadBackup, Unmoved, history
  <2>2. PICK n \in admin.left :
          /\ admin.pc = "download"
          /\ \/ admin' = Idle
             \/ admin' = [admin EXCEPT !.left = @ \ {n}, !.snap[n] = files[n]]
    BY <1>2 DEF ReadBackup
  <2>3. CASE admin' = Idle
    <3>1. admin'.pc = "idle" BY <2>3 DEF Idle
    <3>2. QED BY <2>1, <3>1 DEF Strays, Restores
  <2>4. CASE admin' = [admin EXCEPT !.left = @ \ {n}, !.snap[n] = files[n]]
    <3>1. admin'.pc = "download" BY <1>t, <2>2, <2>4 DEF AdminType
    <3>2. QED BY <2>1, <3>1 DEF Strays, Restores
  <2>5. QED BY <2>1, <2>2, <2>3, <2>4
<1>3. CASE BeginRestore
  <2>1. /\ astray' = astray /\ admin.pc = "idle"
        /\ (admin' = admin \/ admin' = [Idle EXCEPT !.pc = "config", !.target = Target, !.was = settings])
    BY <1>3 DEF BeginRestore, Unmoved, history
  <2>2. CASE admin' = admin BY <2>1, <2>2 DEF Strays
  <2>3. CASE admin' = [Idle EXCEPT !.pc = "config", !.target = Target, !.was = settings]
    <3>1. admin'.lost = {} BY <2>3 DEF Idle
    <3>2. QED BY <2>1, <3>1 DEF Strays
  <2>4. QED BY <2>1, <2>2, <2>3
<1>4. CASE RestoreConfig \/ StageRestore \/ Cleared \/ Undone \/ UndoConfig
  <2>1. astray' = astray
    BY <1>4 DEF RestoreConfig, StageRestore, Cleared, Undone, UndoConfig, Unmoved, history
  <2>2. admin.pc \in Restores /\ admin'.lost = admin.lost
    BY <1>4, <1>t DEF RestoreConfig, StageRestore, Cleared, Undone, UndoConfig, AdminType, Restores
  <2>3. QED BY <2>1, <2>2 DEF Strays
<1>5. CASE ClearOne \/ MoveOne
  <2>1. astray' = astray BY <1>5 DEF ClearOne, MoveOne, Unmoved, history
  <2>2. admin.pc \in Restores /\ \E x : \/ admin' = [admin EXCEPT !.left = x]
                                      \/ admin' = [admin EXCEPT !.pc = "undo", !.left = x]
    <3>1. CASE ClearOne
      <4>1. PICK n \in admin.left :
              /\ admin.pc = "clear"
              /\ \/ admin' = [admin EXCEPT !.left = admin.left \ {n}]
                 \/ admin' = [admin EXCEPT !.pc = "undo", !.left = {}]
        BY <3>1 DEF ClearOne
      <4>2. QED BY <4>1 DEF Restores
    <3>2. CASE MoveOne
      <4>1. PICK n \in admin.left :
              /\ admin.pc = "move"
              /\ \/ admin' = [admin EXCEPT !.left = admin.left \ {n}]
                 \/ admin' = [admin EXCEPT !.pc = "undo",
                      !.left = {m \in Name \ admin.left : admin.target[m] # None}]
        BY <3>2 DEF MoveOne
      <4>2. QED BY <4>1 DEF Restores
    <3>3. QED BY <1>5, <3>1, <3>2
  <2>3. admin'.lost = admin.lost BY <1>t, <2>2 DEF AdminType
  <2>4. QED BY <2>1, <2>2, <2>3 DEF Strays
<1>6. CASE UndoOne \/ RewriteOne
  <2>1. \E n \in admin.left :
          /\ admin.pc \in {"undo", "rewrite"}
          /\ \/ /\ astray' = astray
                /\ \/ admin' = [admin EXCEPT !.left = @ \ {n}]
                   \/ admin' = [admin EXCEPT !.left = @ \ {n}, !.lost = @ \ {n}]
             \/ /\ astray' = astray \cup {n[2]}
                /\ admin' = [admin EXCEPT !.left = @ \ {n}, !.lost = @ \cup {n}]
    <3>1. CASE UndoOne BY <3>1 DEF UndoOne
    <3>2. CASE RewriteOne BY <3>2 DEF RewriteOne
    <3>3. QED BY <1>6, <3>1, <3>2
  <2>2. \E n \in admin.left :
          /\ admin.pc \in {"undo", "rewrite"}
          /\ \/ astray' = astray /\ admin'.lost \subseteq admin.lost
             \/ astray' = astray \cup {n[2]} /\ admin'.lost = admin.lost \cup {n}
    <3>1. PICK n \in admin.left :
            /\ admin.pc \in {"undo", "rewrite"}
            /\ \/ /\ astray' = astray
                  /\ \/ admin' = [admin EXCEPT !.left = @ \ {n}]
                     \/ admin' = [admin EXCEPT !.left = @ \ {n}, !.lost = @ \ {n}]
               \/ /\ astray' = astray \cup {n[2]}
                  /\ admin' = [admin EXCEPT !.left = @ \ {n}, !.lost = @ \cup {n}]
      BY <2>1
    <3>2. \/ astray' = astray /\ admin'.lost = admin.lost
          \/ astray' = astray /\ admin'.lost = admin.lost \ {n}
          \/ astray' = astray \cup {n[2]} /\ admin'.lost = admin.lost \cup {n}
      BY <1>t, <3>1 DEF AdminType
    <3>3. QED BY <3>1, <3>2
  <2>3. QED BY <2>1, <2>2 DEF Strays, Restores
<1>7. CASE SwapPool
  <2>1. admin.pc = "move" /\ admin' = [admin EXCEPT !.pc = "swapped"] BY <1>7 DEF SwapPool
  <2>2. admin'.lost = {} BY <1>t, <2>1 DEF AdminType, Restored
  <2>3. QED BY <1>7, <2>2 DEF Strays
<1>8. QED BY <1>1, <1>2, <1>3, <1>4, <1>5, <1>6, <1>7 DEF Backup

\* A backup or a restore.
LEMMA BackupSync ==
  ASSUME Types, Gate, Apart, Restored, Restored', Sync, Backup
  PROVE  Sync'
<1>0. /\ OneFile /\ FilesInPool /\ PoolInFiles /\ SameTokens /\ \A g \in Handler : ReadIsThere(g)
  BY DEF Sync
<1>t. admin \in AdminType BY DEF Types, AdminOK
<1>1. CASE ~ SwapPool
  <2>1. UNCHANGED <<fixed, heap, pool, call>> BY <1>1, BackupKeeps
  <2>2. /\ \A n \in Name : n[2] \notin astray' => Disk'[n] = Disk[n]
        /\ admin.pc \notin Restores => files' = files
    BY <1>1, BackupDisk DEF Sync
  <2>3. /\ \A a, pcs : At(a, pcs)' <=> At(a, pcs)
        /\ \A n : Listing(n)' <=> Listing(n)
    BY <2>1 DEF At, Listing
  <2>7. Strays' /\ astray \subseteq astray' BY <1>1, StraysNext DEF Sync
  <2>4. OneFile' /\ FilesInPool' /\ PoolInFiles' /\ SameTokens'
    BY <1>0, <2>1, <2>2, <2>3, <2>7 DEF OneFile, FilesInPool, PoolInFiles, SameTokens, fixed
  <2>5. \A g \in Handler : ReadIsThere(g)'
    <3>1. CASE admin.pc \notin Restores BY <1>0, <2>1, <2>2, <3>1 DEF ReadIsThere, fixed
    <3>2. CASE admin.pc \in Restores
      <4>1. \A g \in Handler : call[g].pc \in {"ready", "done"} BY <3>2, RestoringCalls
      <4>2. QED BY <2>1, <4>1 DEF ReadIsThere
    <3>3. QED BY <3>1, <3>2
  <2>6. QED BY <2>4, <2>5, <2>7 DEF Sync
<1>2. CASE SwapPool
  <2>1. /\ UNCHANGED <<files, call>>
        /\ admin.pc = "move" /\ admin.left = {}
        /\ admin' = [admin EXCEPT !.pc = "swapped"]
        /\ \A a \in Account :
             IF admin.target[<<"email", a>>] = None THEN pool'[a] = None
             ELSE /\ pool'[a] \in Obj \ Used
                  /\ heap'[pool'[a]].token = admin.target[<<"email", a>>].token
    BY <1>2, SwapEffect
  <2>2. admin'.pc = "swapped" /\ admin'.target = admin.target BY <1>t, <2>1 DEF AdminType
  <2>3. files' = admin.target BY <2>2 DEF Restored
  <2>4. Disk' = admin.target BY <2>2, <2>3 DEF Disk
  <2>5. \A n \in Name : admin.target[n] # None => n = <<"email", n[2]>> /\ n[2] \in Account
    BY DEF Types, AdminOK, Name
  <2>6. \A a \in Account : <<"email", a>> \in Name /\ <<"email", a>>[2] = a BY DEF Name
  <2>7. None \notin Obj BY FilesAssumption
  <2>8. OneFile' BY <2>4, <2>5 DEF OneFile
  <2>9. FilesInPool' BY <2>1, <2>4, <2>5, <2>7 DEF FilesInPool
  <2>10. PoolInFiles' BY <2>1, <2>4, <2>6 DEF PoolInFiles
  <2>11. SameTokens' BY <2>1, <2>4, <2>5 DEF SameTokens
  <2>12. \A g \in Handler : ReadIsThere(g)'
    <3>1. \A g \in Handler : call[g].pc \in {"ready", "done"} BY <2>1, RestoringCalls DEF Restores
    <3>2. QED BY <2>1, <3>1 DEF ReadIsThere
  <2>13. Strays' BY StraysNext DEF Sync
  <2>14. QED BY <2>8, <2>9, <2>10, <2>11, <2>12, <2>13 DEF Sync
<1>3. QED BY <1>1, <1>2

\* Whatever a restore has come to, no account that is not astray has two files on disk.
LEMMA NeverTwoFiles ==
  ASSUME Types, Restored, OneFile, Strays
  PROVE  \A m, n \in Name : m[2] \notin astray /\ m[2] = n[2] /\ files[m] # None /\ files[n] # None
                              => m = n
<1>1. \A m, n \in Name : m[2] = n[2] /\ admin.target[m] # None /\ admin.target[n] # None => m = n
  BY DEF Types, AdminOK, Name
<1>2. CASE admin.pc \notin {"clear", "move", "undo", "rewrite"} BY <1>2 DEF OneFile, Disk
<1>3. CASE admin.pc \in {"clear", "move", "undo", "rewrite"}
  <2>1. \A m, n \in Name : m[2] \notin astray /\ m[2] = n[2] /\ admin.snap[m] # None
                              /\ admin.snap[n] # None => m = n
    BY <1>3 DEF OneFile, Disk
  <2>2. \A n \in Name : n[2] \notin astray => n \notin admin.lost BY <1>3 DEF Strays, Restores
  <2>3. \/ \A n \in Name \ admin.lost : files[n] # None => admin.snap[n] # None
        \/ \A n \in Name \ admin.lost : files[n] # None => admin.target[n] # None
    BY <1>3 DEF Restored
  <2>4. QED BY <1>1, <2>1, <2>2, <2>3
<1>4. QED BY <1>2, <1>3

\* A new start.
LEMMA RestartSync ==
  ASSUME Types, Restart
  PROVE  Sync'
<1>1. /\ UNCHANGED files
      /\ admin' = Idle
      /\ \A h \in Handler : call'[h].pc \in {"ready", "done"}
      /\ \A a \in Account :
           /\ FilesOf(a) # {} /\ a \notin astray' => pool'[a] # None /\ Cardinality(FilesOf(a)) = 1
           /\ pool'[a] # None => \E n \in FilesOf(a) : heap'[pool'[a]].token = files[n].token
  BY RestartEffect
<1>2. Disk' = files /\ Strays' BY <1>1 DEF Disk, Idle, Strays, Restores
<1>3. \A n \in Name : n[2] \in Account /\ (files[n] # None => n \in FilesOf(n[2])) BY DEF Name, FilesOf
<1>4. ASSUME NEW m \in Name, NEW n \in Name, m[2] \notin astray', m[2] = n[2],
             files[m] # None, files[n] # None
      PROVE  m = n
  <2>1. Cardinality(FilesOf(m[2])) = 1 /\ m \in FilesOf(m[2]) /\ n \in FilesOf(m[2])
    BY <1>1, <1>3, <1>4
  <2>2. QED BY <1>3, <2>1, FilesCounted
<1>5. OneFile' BY <1>2, <1>4, <1>1 DEF OneFile
<1>6. FilesInPool' BY <1>1, <1>2, <1>3 DEF FilesInPool
<1>7. PoolInFiles'
  <2>1. \A a \in Account : (\A n \in Name : n[2] = a => files[n] = None) => FilesOf(a) = {}
    BY DEF FilesOf
  <2>2. QED BY <1>1, <1>2, <2>1 DEF PoolInFiles
<1>8. SameTokens'
  <2>1. SUFFICES ASSUME NEW n \in Name, n[2] \notin astray', files[n] # None, pool'[n[2]] # None
                 PROVE  files[n].token = heap'[pool'[n[2]]].token
    BY <1>1, <1>2 DEF SameTokens
  <2>2. PICK m \in FilesOf(n[2]) : heap'[pool'[n[2]]].token = files[m].token BY <1>1, <1>3, <2>1
  <2>3. m \in Name /\ m[2] = n[2] /\ files[m] # None BY DEF FilesOf
  <2>4. m = n BY <1>4, <2>1, <2>3
  <2>5. QED BY <2>2, <2>4
<1>9. \A g \in Handler : ReadIsThere(g)' BY <1>1 DEF ReadIsThere
<1>10. QED BY <1>2, <1>5, <1>6, <1>7, <1>8, <1>9 DEF Sync

\* Failures are counted up.
LEMMA FaultsNext ==
  ASSUME Types, faults \in Nat, [Next]_vars
  PROVE  faults' \in Nat /\ (faults' = 0 => faults = 0)
<1> SUFFICES faults' = faults \/ faults' = faults + 1 OBVIOUS
<1>1. CASE \E h \in Handler : Start(h) \/ Continue(h)
  <2>1. PICK h \in Handler : Start(h) \/ Continue(h) BY <1>1
  <2>2. CASE Start(h) \/ EndCall(h) BY <2>2, StartStep, EndStep
  <2>3. CASE SkipImport(h) \/ SaveImport(h) \/ LoadActive(h) \/ AddActive(h) \/ NothingToImport(h)
    BY <2>3 DEF SkipImport, SaveImport, LoadActive, AddActive, NothingToImport, Fault, Sees
  <2>7. CASE Reload(h) \/ ReadListed(h) \/ AddListed(h) \/ EndReload(h)
    BY <2>7 DEF Reload, ReadListed, AddListed, EndReload, Fault
  <2>4. CASE FindDeleted(h) \/ EraseFile(h) \/ DeleteFile(h) \/ DropDeleted(h)
    BY <2>4 DEF FindDeleted, EraseFile, DeleteFile, DropDeleted, Fault
  <2>5. CASE \/ SnapshotPool(h) \/ Resolve(h) \/ SetFlag(h) \/ Revert(h) \/ SavedAll(h) \/ Mark(h)
             \/ Marked(h)
    BY <2>5 DEF SnapshotPool, Resolve, SetFlag, Revert, SavedAll, Mark, Marked
  <2>6. CASE ReadSaved(h) \/ WriteSaved(h) BY <2>6, ReadEffect, WriteEffect
  <2>8. QED BY <2>1, <2>2, <2>3, <2>4, <2>5, <2>6, <2>7 DEF Continue
<1>2. CASE Backup
  <2>1. CASE \/ BeginDownload \/ ReadBackup \/ EndDownload \/ BeginRestore \/ EndRestore
             \/ Cleared \/ Undone \/ SwapPool
    BY <2>1 DEF BeginDownload, ReadBackup, EndDownload, BeginRestore, EndRestore, Cleared, Undone,
         SwapPool
  <2>2. CASE RestoreConfig \/ StageRestore \/ ClearOne \/ MoveOne
    BY <2>2 DEF RestoreConfig, StageRestore, ClearOne, MoveOne, Fault, PersistFails
  <2>3. CASE UndoOne \/ RewriteOne \/ UndoConfig
    BY <2>3 DEF UndoOne, RewriteOne, UndoConfig, UndoFault, PersistFails
  <2>4. QED BY <1>2, <2>1, <2>2, <2>3 DEF Backup
<1>3. CASE Restart BY <1>3 DEF Restart, Sees, Fault
<1>4. CASE UNCHANGED vars BY <1>4 DEF vars
<1>5. QED BY <1>1, <1>2, <1>3, <1>4 DEF Next

\* Only a failing file operation sets accounts apart.
LEMMA UnharmedNext ==
  ASSUME Types, Restored, OneFile, Strays, Unharmed, [Next]_vars
  PROVE  Unharmed'
<1>1. faults' \in Nat /\ (faults' = 0 => faults = 0) BY FaultsNext DEF Unharmed
<1>2. SUFFICES ASSUME faults' = 0, faults = 0, astray = {} PROVE astray' = {}
  BY <1>1 DEF Unharmed
<1>3. CASE \E h \in Handler : Start(h) \/ Continue(h)
  <2>1. PICK h \in Handler : Start(h) \/ Continue(h) BY <1>3
  <2>2. CASE Start(h) \/ EndCall(h) BY <1>2, <2>2, StartStep, EndStep DEF history
  <2>3. CASE SkipImport(h) \/ AddActive(h) \/ NothingToImport(h)
    BY <1>2, <2>3 DEF SkipImport, AddActive, NothingToImport, Quiet
  <2>9. CASE SaveImport(h) \/ LoadActive(h)
    <3>1. CASE SaveImport(h) BY <1>2, <3>1 DEF SaveImport, Fault, Sees, history
    <3>2. CASE LoadActive(h) BY <1>2, <3>2 DEF LoadActive, Fault, Sees
    <3>3. QED BY <2>9, <3>1, <3>2
  <2>7. CASE Reload(h) \/ ReadListed(h) \/ AddListed(h) \/ EndReload(h)
    <3>1. CASE Reload(h) BY <1>2, <3>1 DEF Reload, Fault
    <3>2. CASE ReadListed(h) BY <1>2, <3>2 DEF ReadListed, Fault
    <3>3. CASE AddListed(h) \/ EndReload(h) BY <1>2, <3>3 DEF AddListed, EndReload, Quiet
    <3>4. QED BY <2>7, <3>1, <3>2, <3>3
  <2>4. CASE FindDeleted(h) \/ EraseFile(h) \/ DeleteFile(h) \/ DropDeleted(h)
    BY <1>2, <2>4 DEF FindDeleted, EraseFile, DeleteFile, DropDeleted, Quiet
  <2>5. CASE \/ SnapshotPool(h) \/ Resolve(h) \/ SetFlag(h) \/ Revert(h) \/ SavedAll(h) \/ Mark(h)
             \/ Marked(h)
    BY <1>2, <2>5 DEF SnapshotPool, Resolve, SetFlag, Revert, SavedAll, Mark, Marked, Quiet
  <2>6. CASE ReadSaved(h) \/ WriteSaved(h) BY <1>2, <2>6, ReadEffect, WriteEffect DEF history
  <2>8. QED BY <2>1, <2>2, <2>3, <2>4, <2>5, <2>6, <2>7, <2>9 DEF Continue
<1>4. CASE Backup
  <2>1. CASE ~ (UndoOne \/ RewriteOne) /\ ~ SwapPool BY <1>2, <1>4, <2>1, BackupKeeps
  <2>2. CASE UndoOne \/ RewriteOne
    <3>1. CASE UndoOne BY <1>2, <3>1 DEF UndoOne, UndoFault
    <3>2. CASE RewriteOne BY <1>2, <3>2 DEF RewriteOne, UndoFault
    <3>3. QED BY <2>2, <3>1, <3>2
  <2>3. CASE SwapPool BY <2>3 DEF SwapPool
  <2>4. QED BY <2>1, <2>2, <2>3
<1>5. CASE Restart
  <2>1. astray' = {a \in Account : FilesOf(a) # {} /\ Cardinality(FilesOf(a)) > 1}
    BY <1>2, <1>5 DEF Restart, Sees, Fault
  <2>2. ASSUME NEW a \in Account, FilesOf(a) # {} PROVE Cardinality(FilesOf(a)) = 1
    <3>1. PICK n \in Name : n[2] = a /\ files[n] # None BY <2>2 DEF FilesOf
    <3>2. \A m \in Name : m[2] = a /\ files[m] # None => m = n BY <1>2, <3>1, NeverTwoFiles
    <3>3. FilesOf(a) = {n} BY <3>1, <3>2 DEF FilesOf
    <3>4. QED BY <3>3, FilesCounted
  <2>3. QED BY <2>1, <2>2
<1>6. CASE UNCHANGED vars BY <1>2, <1>6 DEF vars, history
<1>7. QED BY <1>3, <1>4, <1>5, <1>6 DEF Next

\* Every step.
LEMMA SyncNext ==
  ASSUME Types, Gate, Lone, Deletions, Apart, Restored, Restored', Sync, [Next]_vars
  PROVE  Sync'
<1>1. CASE \E h \in Handler : Start(h) \/ Continue(h)
  <2>1. PICK h \in Handler : Start(h) \/ Continue(h) BY <1>1
  <2>2. CASE SaveImport(h) \/ LoadActive(h) \/ AddActive(h) BY <2>2, ImportSync
  <2>7. CASE Reload(h) \/ ReadListed(h) \/ AddListed(h) BY <2>7, ReloadSync
  <2>3. CASE EraseFile(h) \/ DeleteFile(h) \/ DropDeleted(h) BY <2>3, DeleteSync
  <2>4. CASE ReadSaved(h) \/ WriteSaved(h) \/ SetFlag(h) \/ Revert(h) \/ Mark(h)
    BY <2>4, RewriteSync
  <2>5. CASE \/ Start(h) \/ SkipImport(h) \/ NothingToImport(h) \/ FindDeleted(h) \/ SnapshotPool(h)
             \/ Resolve(h) \/ Marked(h) \/ SavedAll(h) \/ EndCall(h) \/ EndReload(h)
    <3>1. Plain(h) BY <2>5, PlainStep
    <3>2. QED BY <3>1, RewriteSync
  <2>6. QED BY <2>1, <2>2, <2>3, <2>4, <2>5, <2>7 DEF Continue
<1>2. CASE Backup BY <1>2, BackupSync
<1>3. CASE Restart BY <1>3, RestartSync
<1>4. CASE UNCHANGED vars
  <2>1. UNCHANGED <<offered, files, heap, pool, call, admin, astray>> BY <1>4 DEF vars
  <2>2. Disk' = Disk BY <2>1 DEF Disk
  <2>3. /\ \A a, pcs : At(a, pcs)' <=> At(a, pcs)
        /\ \A n : Listing(n)' <=> Listing(n)
    BY <2>1 DEF At, Listing
  <2>4. OneFile' /\ FilesInPool' /\ PoolInFiles' /\ SameTokens'
    BY <2>1, <2>2, <2>3 DEF Sync, OneFile, FilesInPool, PoolInFiles, SameTokens
  <2>5. \A g \in Handler : ReadIsThere(g)' BY <2>1 DEF Sync, ReadIsThere
  <2>6. Strays' BY <2>1 DEF Sync, Strays
  <2>7. QED BY <2>4, <2>5, <2>6 DEF Sync
<1>5. QED BY <1>1, <1>2, <1>3, <1>4 DEF Next

\* The pool of the first state is that of its files.
LEMMA InitPool ==
  ASSUME Init
  PROVE  /\ Disk = files /\ \A h \in Handler : call[h].pc = "ready"
         /\ \A n \in Name : files[n] # None =>
              /\ n = <<"canonical", n[2]>> /\ pool[n[2]] \in Obj
              /\ heap[pool[n[2]]].token = files[n].token
              /\ heap[pool[n[2]]].disabled = files[n].disabled
         /\ \A a \in Account : pool[a] # None =>
              <<"canonical", a>> \in Name /\ files[<<"canonical", a>>] # None
<1>1. PICK s \in SUBSET Account, token, other \in [Account -> Token] :
        /\ files = [n \in Name |-> IF n[1] = "canonical" /\ n[2] \in s
                      THEN [token |-> token[n[2]], disabled |-> FALSE, invalid |-> FALSE] ELSE None]
        /\ \A a \in s : pool[a] \in Obj /\ heap[pool[a]] = [acct |-> a, token |-> token[a],
                                                             disabled |-> FALSE, invalid |-> FALSE]
        /\ \A a \in Account \ s : pool[a] = None
  BY InitEffect
<1>2. \A a \in Account : [token |-> token[a], disabled |-> FALSE, invalid |-> FALSE] # None
  <2>1. \A a \in Account : [token |-> token[a], disabled |-> FALSE, invalid |-> FALSE] \in Record
    BY DEF Record
  <2>2. QED BY <2>1, FilesAssumption
<1>3. Disk = files /\ \A h \in Handler : call[h].pc = "ready"
  BY DEF Init, Disk, Idle, NewCall
<1>4. ASSUME NEW n \in Name, files[n] # None
      PROVE  /\ n = <<"canonical", n[2]>> /\ pool[n[2]] \in Obj
             /\ heap[pool[n[2]]].token = files[n].token
             /\ heap[pool[n[2]]].disabled = files[n].disabled
  <2>1. n[1] = "canonical" /\ n[2] \in s BY <1>1, <1>4
  <2>2. n = <<"canonical", n[2]>> BY <2>1 DEF Name
  <2>3. files[n] = [token |-> token[n[2]], disabled |-> FALSE, invalid |-> FALSE] BY <1>1, <2>1
  <2>4. pool[n[2]] \in Obj /\ heap[pool[n[2]]] = [acct |-> n[2], token |-> token[n[2]],
                                                  disabled |-> FALSE, invalid |-> FALSE]
    BY <1>1, <2>1
  <2>5. heap[pool[n[2]]].token = token[n[2]] /\ heap[pool[n[2]]].disabled = FALSE BY <2>4
  <2>6. files[n].token = token[n[2]] /\ files[n].disabled = FALSE BY <2>3
  <2>7. QED BY <2>2, <2>4, <2>5, <2>6
<1>5. ASSUME NEW a \in Account, pool[a] # None
      PROVE  <<"canonical", a>> \in Name /\ files[<<"canonical", a>>] # None
  <2>1. a \in s BY <1>1, <1>5
  <2>2. <<"canonical", a>> \in Name /\ <<"canonical", a>>[1] = "canonical" /\ <<"canonical", a>>[2] = a
    BY DEF Name
  <2>3. files[<<"canonical", a>>] = [token |-> token[a], disabled |-> FALSE, invalid |-> FALSE]
    BY <1>1, <2>1, <2>2
  <2>4. QED BY <1>2, <2>2, <2>3
<1>6. QED BY <1>3, <1>4, <1>5

\* So they agree.
LEMMA InitSync ==
  ASSUME Init
  PROVE  Sync
<1>1. /\ Disk = files /\ \A h \in Handler : call[h].pc = "ready"
      /\ \A n \in Name : files[n] # None =>
           /\ n = <<"canonical", n[2]>> /\ pool[n[2]] \in Obj
           /\ heap[pool[n[2]]].token = files[n].token
      /\ \A a \in Account : pool[a] # None =>
           <<"canonical", a>> \in Name /\ files[<<"canonical", a>>] # None
  BY InitPool
<1>2. None \notin Obj BY FilesAssumption
<1>3. OneFile BY <1>1 DEF OneFile
<1>4. FilesInPool BY <1>1, <1>2 DEF FilesInPool
<1>5. PoolInFiles BY <1>1 DEF PoolInFiles
<1>6. SameTokens BY <1>1 DEF SameTokens
<1>7. \A h \in Handler : ReadIsThere(h) BY <1>1 DEF ReadIsThere
<1>8. Strays BY DEF Init, Idle, Strays
<1>9. QED BY <1>3, <1>4, <1>5, <1>6, <1>7, <1>8 DEF Sync

\* The invariant of the pool and the files.
Synced == Types /\ Gate /\ Lone /\ Deletions /\ (Apart => Restored /\ Sync /\ Unharmed)

\* It holds at first.
LEMMA InitSynced == Init => Synced
<1>1. SUFFICES ASSUME Init PROVE Synced OBVIOUS
<1>2. Restored
  <2>1. admin.pc = "idle" BY <1>1 DEF Init, Idle
  <2>2. QED BY <2>1 DEF Restored
<1>3. Unharmed BY <1>1 DEF Init, Unharmed
<1>4. QED BY <1>1, <1>2, <1>3, InitTypes, InitGate, InitLone, InitDeletions, InitSync DEF Synced

\* Every step keeps it.
LEMMA SyncedNext == Synced /\ [Next]_vars => Synced'
<1>1. SUFFICES ASSUME Synced, [Next]_vars PROVE Synced' OBVIOUS
<1>2. Types /\ Gate /\ Lone /\ Deletions /\ (Apart => Restored /\ Sync /\ Unharmed)
  BY <1>1 DEF Synced
<1>3. Types' /\ Gate' /\ Lone' /\ Deletions'
  BY <1>1, <1>2, TypesNext, GateNext, LoneNext, DeletionsNext
<1>4. Apart' <=> Apart BY <1>1, <1>2, ScenarioKept DEF Apart, fixed
<1>5. ASSUME Apart PROVE Restored' /\ Sync' /\ Unharmed'
  <2>1. Restored' BY <1>1, <1>2, <1>5, RestoredNext
  <2>2. Sync' BY <1>1, <1>2, <1>5, <2>1, SyncNext
  <2>3. Unharmed' BY <1>1, <1>2, <1>5, UnharmedNext DEF Sync
  <2>4. QED BY <2>1, <2>2, <2>3
<1>6. QED BY <1>3, <1>4, <1>5 DEF Synced

\* It is an invariant.
LEMMA SyncInv == Spec => []Synced
BY InitSynced, SyncedNext, PTL DEF Spec

\* Between calls the pool is what a restart would load: every account of the pool has
\* one file, every file is in the pool, both with the same token, whatever writes and
\* removals failed or were interrupted, and however imports, reloads, deletions,
\* refreshes, rejected logins, backups and restarts came together.  Excluded are accounts
\* astray: their file could not be read when they were saved, activated, reloaded or loaded
\* at a start, or their part of a rollback has failed; and a rejected login that is
\* recorded during a restore.
THEOREM PoolsAreOnDisk == Spec => [](Apart => PoolIsOnDisk)
<1>1. Synced => (Apart => PoolIsOnDisk)
  <2>1. SUFFICES ASSUME Sync, admin.pc = "idle", \A h \in Handler : call[h].pc \in {"ready", "done"},
                        NEW a \in Account \ astray
                 PROVE  /\ pool[a] = None => FilesOf(a) = {}
                        /\ pool[a] # None => /\ Cardinality(FilesOf(a)) = 1 \/ "erase" \in offered
                                             /\ "register" \in offered \/
                                                  \A n \in FilesOf(a) : files[n].token = heap[pool[a]].token
    BY DEF Synced, PoolIsOnDisk, Quiescent
  <2>2. Disk = files BY <2>1 DEF Disk
  <2>3. /\ ~ At(a, {"activate", "add", "listed"}) /\ ~ At(a, {"drop"})
        /\ ~ At(a, {"activate", "add"}) /\ \A n : ~ Listing(n)
    BY <2>1 DEF At, Listing
  <2>4. pool[a] = None => FilesOf(a) = {} BY <2>1, <2>2, <2>3 DEF Sync, FilesInPool, FilesOf
  <2>5. ASSUME pool[a] # None, "erase" \notin offered
        PROVE  Cardinality(FilesOf(a)) = 1
    <3>1. PICK n \in Name : n[2] = a /\ files[n] # None
      BY <2>1, <2>2, <2>3, <2>5 DEF Sync, PoolInFiles
    <3>2. \A m \in Name : m[2] = a /\ files[m] # None => m = n BY <2>1, <2>2, <3>1 DEF Sync, OneFile
    <3>3. FilesOf(a) = {n} BY <3>1, <3>2 DEF FilesOf
    <3>4. QED BY <3>1, <3>3, FilesCounted
  <2>6. ASSUME pool[a] # None, "register" \notin offered, NEW n \in FilesOf(a)
        PROVE  files[n].token = heap[pool[a]].token
    <3>1. n \in Name /\ n[2] = a /\ files[n] # None BY DEF FilesOf
    <3>2. QED BY <2>1, <2>2, <2>3, <2>6, <3>1 DEF Sync, SameTokens
  <2>7. QED BY <2>4, <2>5, <2>6
<1>2. QED BY <1>1, SyncInv, PTL

-----------------------------------------------------------------------------
(* The switches.                                                           *)

\* A call that sets a switch goes on with the one object it has.
LEMMA OneObjectNext ==
  ASSUME Types, \A h \in Handler : OneObject(h), [Next]_vars
  PROVE  \A h \in Handler : OneObject(h)'
<1>0. call \in [Handler -> CallType] /\ None # "toggle" BY FilesAssumption DEF Types, Kinds
<1>1. CASE \E h \in Handler : Start(h) \/ Continue(h)
  <2>1. PICK h \in Handler : Start(h) \/ Continue(h) BY <1>1
  <2>2. SUFFICES Others(h) /\ OneObject(h)' BY DEF Others, OneObject
  <2>t. call[h] \in CallType /\ OneObject(h) BY <1>0
  <2>3. CASE Start(h)
    <3>1. Others(h) BY <2>3, StartStep DEF Others
    <3>2. CASE BeginImport(h)
      <4>0. PICK t \in Token, s \in SUBSET Account \ {{}} :
              \E kind \in {"import", "register"} :
                Begin(h, kind, [NewCall EXCEPT !.kind = kind, !.pc = "import", !.todo = s, !.token = t])
        BY <3>2, Zenon DEF BeginImport
      <4>1. PICK kind \in {"import", "register"} :
              Begin(h, kind, [NewCall EXCEPT !.kind = kind, !.pc = "import", !.todo = s, !.token = t])
        BY <4>0
      <4>2. \/ call' = [call EXCEPT ![h] = [NewCall EXCEPT !.pc = "done"]]
            \/ call' = [call EXCEPT ![h] = [NewCall EXCEPT !.kind = kind, !.pc = "import", !.todo = s, !.token = t]]
        BY <4>1 DEF Begin, Done
      <4>3. call'[h].kind # "toggle" /\ call'[h].pc # "snapshot" BY <1>0, <4>2 DEF NewCall
      <4>4. QED BY <3>1, <4>3 DEF OneObject
    <3>3. CASE BeginDelete(h)
      <4>1. PICK a \in Account, kind \in {"delete", "erase"} :
              Begin(h, kind, [NewCall EXCEPT !.kind = kind, !.pc = "find", !.acct = a])
        BY <3>3, Zenon DEF BeginDelete
      <4>2. \/ call' = [call EXCEPT ![h] = [NewCall EXCEPT !.pc = "done"]]
            \/ call' = [call EXCEPT ![h] = [NewCall EXCEPT !.kind = kind, !.pc = "find", !.acct = a]]
        BY <4>1 DEF Begin, Done
      <4>3. call'[h].kind # "toggle" /\ call'[h].pc # "snapshot" BY <1>0, <4>2 DEF NewCall
      <4>4. QED BY <3>1, <4>3 DEF OneObject
    <3>4. CASE BeginRefresh(h)
      <4>1. \/ call' = [call EXCEPT ![h] = [NewCall EXCEPT !.pc = "done"]]
            \/ call' = [call EXCEPT ![h] = [NewCall EXCEPT !.kind = "refresh", !.pc = "snapshot"]]
        BY <3>4 DEF BeginRefresh, Begin, Done
      <4>2. call'[h].kind # "toggle" BY <1>0, <4>1 DEF NewCall
      <4>3. QED BY <3>1, <4>2 DEF OneObject
    <3>5. CASE BeginToggle(h)
      <4>1. PICK a, d :
              Begin(h, "toggle", [NewCall EXCEPT !.kind = "toggle", !.acct = a, !.prev = d, !.pc = "resolve"])
        BY <3>5 DEF BeginToggle
      <4>2. \/ call' = [call EXCEPT ![h] = [NewCall EXCEPT !.pc = "done"]]
            \/ call' = [call EXCEPT ![h] = [NewCall EXCEPT !.kind = "toggle", !.acct = a, !.prev = d, !.pc = "resolve"]]
        BY <4>1 DEF Begin, Done
      <4>3. call'[h].objs = {} /\ call'[h].pc # "snapshot" BY <1>0, <4>2 DEF NewCall
      <4>4. QED BY <3>1, <4>3 DEF OneObject
    <3>6. CASE BeginReject(h)
      <4>1. PICK s, d :
              call' = [call EXCEPT ![h] = [NewCall EXCEPT !.kind = "reject", !.pc = "mark", !.todo = s, !.objs = s,
                                             !.prev = d]]
        BY <3>6 DEF BeginReject
      <4>2. call'[h].kind # "toggle" /\ call'[h].pc # "snapshot" BY <1>0, <4>1 DEF NewCall
      <4>3. QED BY <3>1, <4>2 DEF OneObject
    <3>7. QED BY <2>3, <3>2, <3>3, <3>4, <3>5, <3>6 DEF Start
  <2>4. CASE EndCall(h)
    <3>1. Others(h) /\ call'[h].pc = "done" /\ call'[h].objs = {} BY <2>4, EndStep DEF Others
    <3>2. QED BY <3>1 DEF OneObject
  <2>5. CASE Continue(h) /\ ~ EndCall(h)
    <3>1. Others(h) /\ call'[h].kind \in {call[h].kind, None} BY <2>5, MidStep DEF Others
    <3>2. SUFFICES /\ call'[h].pc # "snapshot"
                   /\ \/ call'[h].objs \subseteq call[h].objs \/ call[h].pc = "snapshot"
                      \/ \A o, p \in call'[h].objs : o = p
      BY <1>0, <2>t, <3>1 DEF OneObject
    <3>3. CASE SaveImport(h) \/ LoadActive(h) \/ AddActive(h) \/ Reload(h) \/ ReadListed(h) \/ AddListed(h)
      <4>1. CASE SaveImport(h)
        <5>1. call'[h].objs = call[h].objs /\ call'[h].pc \in {"end", "activate", "reload"}
          BY <4>1, SaveEffect
        <5>2. QED BY <5>1
      <4>2. CASE LoadActive(h)
        <5>1. call'[h].objs = call[h].objs /\ call'[h].pc \in {"end", "add"} BY <4>2, LoadEffect
        <5>2. QED BY <5>1
      <4>3. CASE AddActive(h)
        <5>1. call'[h].objs = call[h].objs /\ call'[h].pc \in {"end", "import"} BY <4>3, AddEffect
        <5>2. QED BY <5>1
      <4>4. CASE Reload(h)
        <5>1. call'[h].objs = call[h].objs /\ call'[h].pc \in {"list", "end"} BY <4>4, ReloadEffect
        <5>2. QED BY <5>1
      <4>5. CASE ReadListed(h)
        <5>1. call'[h].objs = call[h].objs /\ call'[h].pc \in {"list", "listed"} BY <4>5, ListEffect
        <5>2. QED BY <5>1
      <4>6. CASE AddListed(h)
        <5>1. call'[h].objs = call[h].objs /\ call'[h].pc = "list" BY <4>6, ListedEffect
        <5>2. QED BY <5>1
      <4>7. QED BY <3>3, <4>1, <4>2, <4>3, <4>4, <4>5, <4>6
    <3>4. CASE EraseFile(h) \/ DeleteFile(h) \/ DropDeleted(h)
      <4>1. call'[h].objs = call[h].objs /\ call'[h].pc \in {"end", "drop"}
        BY <3>4, EraseEffect, DeleteEffect, DropEffect
      <4>2. QED BY <4>1
    <3>5. CASE ReadSaved(h) \/ WriteSaved(h)
      <4>1. CASE ReadSaved(h)
        <5>1. PICK o \in call[h].objs :
                /\ call'[h].objs = call[h].objs
                /\ \/ \E n \in Name :
                        /\ FilesOf(heap[o].acct) = {n} /\ files[n] # None /\ n[2] = heap[o].acct
                        /\ files[n].token = heap[o].token
                        /\ call'[h].pc = "write" /\ call'[h].acct = n /\ dirLock' = h
                        /\ call'[h].read = [token |-> heap[o].token, disabled |-> heap[o].disabled,
                                            invalid |-> heap[o].invalid]
                   \/ call'[h].pc = (IF call[h].kind = "toggle" THEN "revert" ELSE "save")
          BY <4>1, ReadEffect
        <5>2. call'[h].pc \in {"write", "revert", "save"} BY <5>1
        <5>3. QED BY <5>1, <5>2
      <4>2. CASE WriteSaved(h)
        <5>1. call'[h].objs = call[h].objs /\ call'[h].pc \in {"save", "revert"} BY <4>2, WriteEffect
        <5>2. QED BY <5>1
      <4>3. QED BY <3>5, <4>1, <4>2
    <3>6. CASE SetFlag(h) \/ Revert(h) \/ Mark(h)
      <4>1. call'[h].objs \subseteq call[h].objs /\ call'[h].pc \in {"save", "end", "mark"}
        BY <3>6, FlagEffect
      <4>2. QED BY <4>1
    <3>7. CASE SkipImport(h) \/ NothingToImport(h) \/ EndReload(h)
      <4>1. call'[h].objs = call[h].objs /\ call'[h].pc \in {"import", "end"}
        BY <2>t, <1>0, <3>7 DEF SkipImport, NothingToImport, EndReload, CallType
      <4>2. QED BY <4>1
    <3>8. CASE FindDeleted(h)
      <4>1. PICK pc, t :
              /\ pc \in {"remove", "end", "erase"}
              /\ \/ call' = [call EXCEPT ![h].pc = pc, ![h].token = t]
                 \/ call' = [call EXCEPT ![h].pc = pc]
        BY <3>8 DEF FindDeleted
      <4>2. call'[h].pc = pc /\ call'[h].objs = call[h].objs BY <1>0, <4>1 DEF CallType
      <4>3. pc # "snapshot" BY <4>1
      <4>4. QED BY <4>2, <4>3
    <3>9. CASE SnapshotPool(h)
      <4>1. call[h].pc = "snapshot" /\ call'[h].pc = "save" BY <1>0, <3>9 DEF SnapshotPool, CallType
      <4>2. QED BY <4>1
    <3>10. CASE Resolve(h)
      <4>1. call' = [call EXCEPT ![h].acct = None,
                      ![h].pc = IF pool[call[h].acct] = None THEN "end" ELSE "flag",
                      ![h].objs = {pool[call[h].acct]} \ {None}]
        BY <3>10 DEF Resolve
      <4>2. call'[h].pc \in {"end", "flag"} /\ call'[h].objs = {pool[call[h].acct]} \ {None}
        BY <1>0, <4>1 DEF CallType
      <4>3. QED BY <4>2
    <3>11. CASE Marked(h)
      <4>1. call'[h].pc = "save" /\ call'[h].objs = call[h].objs BY <1>0, <3>11 DEF Marked, CallType
      <4>2. QED BY <4>1
    <3>12. CASE SavedAll(h)
      <4>1. call'[h].pc \in {"done", "end"} /\ call'[h].objs = {} BY <1>0, <3>12 DEF SavedAll, NewCall
      <4>2. QED BY <4>1
    <3>13. QED BY <2>5, <3>3, <3>4, <3>5, <3>6, <3>7, <3>8, <3>9, <3>10, <3>11, <3>12 DEF Continue
  <2>6. QED BY <2>1, <2>3, <2>4, <2>5
<1>2. CASE Backup
  <2>1. call' = call BY <1>2, BackupKeeps, SwapEffect
  <2>2. QED BY <2>1 DEF OneObject
<1>3. CASE Restart
  <2>1. call' = [h \in Handler |-> IF call[h].pc = "ready" THEN call[h] ELSE [NewCall EXCEPT !.pc = "done"]]
    BY <1>3 DEF Restart
  <2>2. \A h \in Handler : call'[h] = call[h] \/ (call'[h].objs = {} /\ call'[h].pc = "done")
    BY <2>1 DEF NewCall
  <2>3. QED BY <2>2 DEF OneObject
<1>4. CASE UNCHANGED vars BY <1>4 DEF vars, OneObject
<1>5. QED BY <1>1, <1>2, <1>3, <1>4 DEF Next

\* While all is calm nobody imports.
LEMMA CalmCalls ==
  ASSUME Types, Calm, NEW h \in Handler
  PROVE  call[h].pc \notin {"import", "activate", "add", "reload", "list", "listed"}
<1>1. CallOK(call[h]) BY DEF Types
<1>2. "import" \notin offered /\ "register" \notin offered BY DEF Calm
<1>3. None \notin {"import", "register"} BY FilesAssumption DEF Kinds
<1>4. QED BY <1>1, <1>2, <1>3 DEF CallOK

\* A step that only lets accounts and files go, changes no flag and no save, keeps what is
\* said of the switches and of the other calls.
LEMMA SwitchesKept ==
  ASSUME Types, Switches, NEW h \in Handler, Others(h),
         \A a \in Account : pool'[a] \in {pool[a], None},
         \A o \in Obj : o \in Used => heap'[o].acct = heap[o].acct,
         \A n \in Name : Disk'[n] # None => Disk[n] # None
  PROVE  /\ \A g \in Handler \ {h} : StillThere(g)'
         /\ (/\ \A n \in Name : Disk'[n] # None => Disk'[n].disabled = Disk[n].disabled
             /\ \A a \in Account : pool[a] # None /\ pool'[a] # None =>
                  heap'[pool[a]].disabled = heap[pool[a]].disabled
             /\ call[h].pc # "write" /\ call'[h].pc # "write"
             /\ call[h].pc = "save" =>
                  call[h].todo = {} \/ (call'[h].pc = "save" /\ call[h].todo \subseteq call'[h].todo))
            => SwitchSaved'
<1>0. SwitchSaved /\ \A g \in Handler : StillThere(g) BY DEF Switches
<1>t. \A n \in Name : n[2] \in Account BY DEF Name
<1>1. ASSUME NEW g \in Handler \ {h} PROVE StillThere(g)'
  <2>1. call'[g] = call[g] BY DEF Others
  <2>2. SUFFICES ASSUME call[g].pc \notin {"ready", "done"}, NEW o \in call[g].objs
                 PROVE  /\ pool'[heap'[o].acct] \in {o, None}
                        /\ call[g].pc = "revert" => \A n \in Name : n[2] = heap'[o].acct => Disk'[n] = None
    BY <2>1 DEF StillThere
  <2>3. o \in Obj /\ o \in Used BY DEF Types, CallType, Used
  <2>4. heap[o] \in Object BY <2>3 DEF Types, HeapOK
  <2>5. heap'[o].acct = heap[o].acct /\ heap[o].acct \in Account BY <2>3, <2>4 DEF Object
  <2>6. /\ pool[heap[o].acct] \in {o, None}
        /\ call[g].pc = "revert" => \A n \in Name : n[2] = heap[o].acct => Disk[n] = None
    BY <1>0, <2>2 DEF StillThere
  <2>7. pool'[heap[o].acct] \in {pool[heap[o].acct], None} BY <2>5
  <2>8. QED BY <2>5, <2>6, <2>7
<1>2. ASSUME \A n \in Name : Disk'[n] # None => Disk'[n].disabled = Disk[n].disabled,
             \A a \in Account : pool[a] # None /\ pool'[a] # None =>
               heap'[pool[a]].disabled = heap[pool[a]].disabled,
             call[h].pc # "write", call'[h].pc # "write",
             call[h].pc = "save" =>
               call[h].todo = {} \/ (call'[h].pc = "save" /\ call[h].todo \subseteq call'[h].todo),
             NEW n \in Name, Disk'[n] # None, pool'[n[2]] # None, ~ Saving(pool[n[2]])'
      PROVE  /\ Disk'[n].disabled = heap'[pool'[n[2]]].disabled \/ Writing(n)'
             /\ \A g \in Handler : call'[g].pc = "write" /\ call'[g].acct = n =>
                  call'[g].read.disabled = heap'[pool'[n[2]]].disabled
  <2>1. pool'[n[2]] = pool[n[2]] /\ pool[n[2]] # None BY <1>2, <1>t
  <2>2. heap'[pool'[n[2]]].disabled = heap[pool[n[2]]].disabled BY <1>2, <1>t, <2>1
  <2>3. ~ Saving(pool[n[2]])
    <3>1. SUFFICES ASSUME NEW g \in Handler, call[g].pc \in {"save", "write"}, pool[n[2]] \in call[g].todo
                   PROVE  Saving(pool[n[2]])'
      BY <1>2 DEF Saving
    <3>2. call'[g].pc \in {"save", "write"} /\ pool[n[2]] \in call'[g].todo BY <1>2, <3>1 DEF Others
    <3>3. QED BY <2>1, <3>2 DEF Saving
  <2>4. /\ Disk[n].disabled = heap[pool[n[2]]].disabled \/ Writing(n)
        /\ \A g \in Handler : call[g].pc = "write" /\ call[g].acct = n =>
             call[g].read.disabled = heap[pool[n[2]]].disabled
    BY <1>0, <1>2, <2>1, <2>3 DEF SwitchSaved
  <2>5. Writing(n) => Writing(n)' BY <1>2 DEF Writing, Others
  <2>6. QED BY <1>2, <2>2, <2>4, <2>5 DEF Others
<1>3. QED BY <1>1, <1>2 DEF SwitchSaved

\* Deletions, and the steps that look only.
LEMMA DeleteSwitches ==
  ASSUME Types, Gate, Deletions, Switches, NEW h \in Handler,
         EraseFile(h) \/ DeleteFile(h) \/ DropDeleted(h) \/ Plain(h)
  PROVE  Switches'
<1>t. \A a \in Account : pool[a] # None => pool[a] \in Obj BY DEF Types, TypeOK
<1>1. CASE EraseFile(h) \/ DeleteFile(h) \/ DropDeleted(h)
  <2>1. /\ Others(h)
        /\ UNCHANGED <<Elsewhere, heap>>
        /\ call[h].pc \in {"erase", "remove", "drop"} /\ call'[h].pc \in {"end", "drop"}
        /\ call'[h].objs = call[h].objs
        /\ \A m \in Name : files'[m] # None => files'[m] = files[m]
        /\ \A a \in Account : pool'[a] \in {pool[a], None}
    <3>1. CASE EraseFile(h)
      <4>1. /\ Others(h) /\ UNCHANGED <<Elsewhere, heap, pool>>
            /\ call[h].pc = "erase" /\ call'[h].pc = "end" /\ call'[h].objs = call[h].objs
            /\ \A m \in Name : files'[m] # None => files'[m] = files[m]
        BY <3>1, EraseEffect
      <4>2. QED BY <4>1
    <3>2. CASE DeleteFile(h)
      <4>1. /\ Others(h) /\ UNCHANGED <<Elsewhere, heap, pool>>
            /\ call[h].pc = "remove" /\ call'[h].pc \in {"end", "drop"} /\ call'[h].objs = call[h].objs
            /\ \A m \in Name : files'[m] # None => files'[m] = files[m]
        BY <3>2, DeleteEffect
      <4>2. QED BY <4>1
    <3>3. CASE DropDeleted(h)
      <4>1. /\ Others(h) /\ UNCHANGED <<Elsewhere, heap, files>>
            /\ call[h].pc = "drop" /\ call'[h].pc = "end" /\ call'[h].objs = call[h].objs
            /\ \A a \in Account : pool'[a] \in {pool[a], None}
        BY <3>3, DropEffect
      <4>2. QED BY <4>1
    <3>4. QED BY <1>1, <3>1, <3>2, <3>3
  <2>2. admin.pc \notin Restores BY <2>1, RestoringCalls
  <2>3. Disk = files /\ Disk' = files' BY <2>1, <2>2, DiskIsFiles DEF Elsewhere
  <2>4. (\A g \in Handler \ {h} : StillThere(g)') /\ SwitchSaved' BY <1>t, <2>1, <2>3, SwitchesKept
  <2>5. StillThere(h)'
    <3>1. ASSUME NEW o \in call[h].objs PROVE pool'[heap[o].acct] \in {o, None}
      <4>1. pool[heap[o].acct] \in {o, None} BY <2>1 DEF Switches, StillThere
      <4>2. heap[o] \in Object BY DEF Types, HeapOK, Used
      <4>3. heap[o].acct \in Account BY <4>2 DEF Object
      <4>4. pool'[heap[o].acct] \in {pool[heap[o].acct], None} BY <2>1, <4>3
      <4>5. QED BY <4>1, <4>4
    <3>2. QED BY <2>1, <3>1 DEF StillThere
  <2>6. QED BY <2>4, <2>5 DEF Switches
<1>2. CASE Plain(h)
  <2>1. /\ Others(h)
        /\ UNCHANGED <<Elsewhere, files, heap, pool>>
        /\ call[h].pc # "write" /\ call'[h].pc \notin {"write", "revert"}
        /\ call[h].pc = "save" => call[h].todo = {}
        /\ call'[h].objs \subseteq (IF call[h].pc \in {"ready", "done"} THEN {} ELSE call[h].objs) \cup InPool
    BY <1>2 DEF Plain, Busy
  <2>2. Disk' = Disk BY <2>1 DEF Elsewhere, Disk
  <2>3. (\A g \in Handler \ {h} : StillThere(g)') /\ SwitchSaved' BY <1>t, <2>1, <2>2, SwitchesKept
  <2>4. StillThere(h)'
    <3>1. SUFFICES ASSUME NEW o \in call'[h].objs PROVE pool[heap[o].acct] \in {o, None}
      BY <2>1 DEF StillThere
    <3>2. CASE o \in InPool
      <4>1. PICK a \in Account : pool[a] = o /\ o \in Obj BY <3>2 DEF InPool
      <4>2. o # None BY <4>1, FilesAssumption
      <4>3. heap[o].acct = a BY <4>1, <4>2 DEF Types, HeapOK
      <4>4. QED BY <4>1, <4>3
    <3>3. CASE o \notin InPool
      <4>1. call[h].pc \notin {"ready", "done"} /\ o \in call[h].objs BY <2>1, <3>1, <3>3
      <4>2. QED BY <4>1 DEF Switches, StillThere
    <3>4. QED BY <3>2, <3>3
  <2>5. QED BY <2>3, <2>4 DEF Switches
<1>3. QED BY <1>1, <1>2

\* A flag changes, and will be saved, or is put back.
LEMMA FlagSwitches ==
  ASSUME Types, Gate, Apart, Switches, NEW h \in Handler, SetFlag(h) \/ Revert(h) \/ Mark(h)
  PROVE  Switches'
<1>0. SwitchSaved /\ \A g \in Handler : StillThere(g) BY DEF Switches
<1>t. /\ \A a \in Account : pool[a] # None => pool[a] \in Obj /\ heap[pool[a]].acct = a
      /\ \A n \in Name : n[2] \in Account
  BY DEF Types, TypeOK, HeapOK, Name
<1>1. /\ Others(h)
      /\ UNCHANGED <<Elsewhere, files, pool>>
  BY FlagEffect
<1>2. PICK o \in call[h].objs :
        /\ o \in Used /\ o \in Obj /\ heap[o] \in Object
        /\ \A x \in Obj \ {o} : heap'[x] = heap[x]
        /\ heap'[o].acct = heap[o].acct /\ heap'[o].token = heap[o].token
        /\ \/ /\ call[h].pc = "flag" /\ call'[h].pc = "save"
              /\ call'[h].objs = call[h].objs /\ call'[h].todo = {o}
           \/ /\ call[h].pc = "revert" /\ call'[h].pc = "end" /\ call'[h].objs = {}
           \/ /\ call[h].pc = "mark" /\ call'[h].pc = "mark" /\ call'[h].objs = call[h].objs
              /\ heap'[o].disabled = heap[o].disabled
  BY FlagEffect
<1>3. Disk' = Disk BY <1>1 DEF Elsewhere, Disk
<1>4. \A x \in Obj : heap'[x].acct = heap[x].acct BY <1>2
<1>5. /\ \A g \in Handler \ {h} : StillThere(g)'
      /\ (/\ \A a \in Account : pool[a] # None /\ pool'[a] # None =>
               heap'[pool[a]].disabled = heap[pool[a]].disabled)
         => SwitchSaved'
  BY <1>1, <1>2, <1>3, <1>4, SwitchesKept
<1>6. StillThere(h)'
  <2>1. CASE call'[h].objs = {} BY <2>1 DEF StillThere
  <2>2. CASE /\ call[h].pc \in {"flag", "mark"} /\ call'[h].pc \in {"save", "mark"}
             /\ call'[h].objs = call[h].objs
    <3>1. \A x \in call[h].objs : x \in Obj BY DEF Types, CallType
    <3>2. QED BY <1>0, <1>1, <1>4, <2>2, <3>1 DEF StillThere
  <2>3. QED BY <1>2, <2>1, <2>2
<1>7. SwitchSaved'
  <2>1. CASE call[h].pc = "mark" /\ heap'[o].disabled = heap[o].disabled
    <3>1. \A x \in Obj : heap'[x].disabled = heap[x].disabled BY <1>2, <2>1
    <3>2. QED BY <1>t, <1>5, <3>1
  <2>2. CASE \/ call[h].pc = "flag" /\ call'[h].pc = "save" /\ call'[h].todo = {o}
             \/ call[h].pc = "revert" /\ call'[h].pc = "end"
    <3>1. SUFFICES ASSUME NEW n \in Name, Disk[n] # None, pool[n[2]] # None, ~ Saving(pool[n[2]])'
                   PROVE  /\ Disk[n].disabled = heap'[pool[n[2]]].disabled \/ Writing(n)'
                          /\ \A g \in Handler : call'[g].pc = "write" /\ call'[g].acct = n =>
                               call'[g].read.disabled = heap'[pool[n[2]]].disabled
      BY <1>1, <1>3 DEF SwitchSaved
    <3>2. pool[n[2]] # o
      <4>1. SUFFICES ASSUME pool[n[2]] = o PROVE FALSE OBVIOUS
      <4>2. heap[o].acct = n[2] BY <1>t, <3>1, <4>1
      <4>3. CASE call[h].pc = "flag" /\ call'[h].pc = "save" /\ call'[h].todo = {o}
        <5>1. Saving(o)' BY <4>3 DEF Saving
        <5>2. QED BY <1>1, <3>1, <4>1, <5>1 DEF Saving
      <4>4. CASE call[h].pc = "revert"
        <5>1. Disk[n] = None BY <1>0, <4>2, <4>4 DEF StillThere
        <5>2. QED BY <3>1, <5>1
      <4>5. QED BY <2>2, <4>3, <4>4
    <3>3. heap'[pool[n[2]]] = heap[pool[n[2]]] BY <1>2, <1>t, <3>1, <3>2
    <3>4. ~ Saving(pool[n[2]])
      <4>1. \A g \in Handler : call[g].pc \in {"save", "write"} => call'[g] = call[g] BY <1>1, <2>2 DEF Others
      <4>2. QED BY <1>1, <3>1, <4>1 DEF Saving
    <3>5. /\ Disk[n].disabled = heap[pool[n[2]]].disabled \/ Writing(n)
          /\ \A g \in Handler : call[g].pc = "write" /\ call[g].acct = n =>
               call[g].read.disabled = heap[pool[n[2]]].disabled
      BY <1>0, <3>1, <3>4 DEF SwitchSaved
    <3>6. \A g \in Handler : (call[g].pc = "write" \/ call'[g].pc = "write") => call'[g] = call[g]
      BY <1>1, <2>2 DEF Others
    <3>7. Writing(n) => Writing(n)' BY <3>6 DEF Writing
    <3>8. QED BY <3>3, <3>5, <3>6, <3>7
  <2>3. QED BY <1>2, <2>1, <2>2
<1>8. QED BY <1>5, <1>6, <1>7 DEF Switches

\* A file is read to be written again, or is written.
LEMMA SaveSwitches ==
  ASSUME Types, Gate, Apart, Sync, Unharmed, Calm, faults' = 0, Switches, NEW h \in Handler, OneObject(h),
         ReadSaved(h) \/ WriteSaved(h)
  PROVE  Switches'
<1>0. /\ SwitchSaved /\ \A g \in Handler : StillThere(g)
      /\ OneFile /\ FilesInPool /\ SameTokens /\ ReadIsThere(h)
  BY DEF Switches, Sync
<1>t. /\ \A a \in Account : pool[a] # None => pool[a] \in Obj /\ heap[pool[a]].acct = a
      /\ \A n \in Name : n[2] \in Account
      /\ None \notin Handler /\ None \notin Record
      /\ call[h] \in CallType /\ CallOK(call[h])
  BY FilesAssumption DEF Types, TypeOK, HeapOK, Name
<1>d. ASSUME call[h].pc \in {"save", "write"}, admin' = admin
      PROVE  Disk = files /\ Disk' = files'
  <2>1. admin.pc \notin Restores BY <1>d, RestoringCalls
  <2>2. QED BY <1>d, <2>1, DiskIsFiles
<1>c. /\ \A a : ~ At(a, {"activate", "add", "listed"}) /\ ~ At(a, {"activate", "add"})
      /\ \A n : ~ Listing(n)
      /\ astray = {}
  BY CalmCalls DEF At, Listing, Calm, Unharmed
<1>w. ASSUME dirLock \in {h, None}
      PROVE  \A g \in Handler : g # h => call[g].pc # "write"
  BY <1>t, <1>w, LockHolder
<1>1. CASE ReadSaved(h)
  <2>1. /\ Others(h)
        /\ UNCHANGED <<Elsewhere, files, heap, pool>>
        /\ call[h].pc = "save" /\ dirLock = None
    BY <1>1, ReadEffect
  <2>2. PICK o \in call[h].objs :
          /\ o \in call[h].todo /\ o \in Used /\ o \in Obj /\ heap[o] \in Object
          /\ call'[h].objs = call[h].objs /\ call'[h].todo = call[h].todo \ {o}
          /\ \/ \E n \in Name :
                  /\ FilesOf(heap[o].acct) = {n} /\ files[n] # None /\ n[2] = heap[o].acct
                  /\ files[n].token = heap[o].token
                  /\ call'[h].pc = "write" /\ call'[h].acct = n /\ dirLock' = h
                  /\ call'[h].read = [token |-> heap[o].token, disabled |-> heap[o].disabled,
                                      invalid |-> heap[o].invalid]
             \/ /\ ~ \E n \in Name : FilesOf(heap[o].acct) = {n} /\ files[n].token = heap[o].token
                /\ call'[h].pc = (IF call[h].kind = "toggle" THEN "revert" ELSE "save")
                /\ dirLock' = None
    BY <1>1, ReadEffect
  <2>3. Disk = files /\ Disk' = files BY <1>d, <2>1 DEF Elsewhere
  <2>4. \A g \in Handler \ {h} : StillThere(g)' BY <2>1, <2>3, SwitchesKept
  <2>5. heap[o].acct \in Account /\ pool[heap[o].acct] \in {o, None}
    BY <1>0, <2>1, <2>2 DEF StillThere, Object
  <2>6. \A g \in Handler : g # h => call[g].pc # "write" BY <1>w, <2>1
  <2>w. \A g \in Handler : call'[g].pc = "write" => g = h BY <2>1, <2>6 DEF Others
\* The other files and objects.
  <2>7. ASSUME NEW m \in Name, files[m] # None, pool[m[2]] # None, pool[m[2]] # o,
               ~ Saving(pool[m[2]])',
               call'[h].pc \in {"save", "write"} \/ call[h].todo \subseteq {o}
        PROVE  files[m].disabled = heap[pool[m[2]]].disabled
    <3>1. ~ Saving(pool[m[2]])
      <4>1. SUFFICES ASSUME NEW g \in Handler, call[g].pc \in {"save", "write"}, pool[m[2]] \in call[g].todo
                     PROVE  Saving(pool[m[2]])'
        BY <2>7 DEF Saving
      <4>2. call'[g].pc \in {"save", "write"} /\ pool'[m[2]] \in call'[g].todo
        BY <2>1, <2>2, <2>7, <4>1 DEF Others
      <4>3. QED BY <2>1, <4>2 DEF Saving
    <3>2. ~ Writing(m) BY <2>1, <2>6 DEF Writing
    <3>3. QED BY <1>0, <2>3, <2>7, <3>1, <3>2 DEF SwitchSaved
  <2>8. CASE \E n \in Name :
               /\ FilesOf(heap[o].acct) = {n} /\ files[n] # None /\ n[2] = heap[o].acct
               /\ call'[h].pc = "write" /\ call'[h].acct = n
               /\ call'[h].read = [token |-> heap[o].token, disabled |-> heap[o].disabled,
                                   invalid |-> heap[o].invalid]
    <3>1. PICK n \in Name :
            /\ FilesOf(heap[o].acct) = {n} /\ files[n] # None /\ n[2] = heap[o].acct
            /\ call'[h].pc = "write" /\ call'[h].acct = n
            /\ call'[h].read = [token |-> heap[o].token, disabled |-> heap[o].disabled,
                                invalid |-> heap[o].invalid]
      BY <2>8
    <3>2. call'[h].read.disabled = heap[o].disabled BY <3>1
    <3>3. StillThere(h)' BY <1>0, <2>1, <2>2, <3>1 DEF StillThere
    <3>4. ASSUME NEW m \in Name, files[m] # None, pool[m[2]] # None, ~ Saving(pool[m[2]])'
          PROVE  /\ files[m].disabled = heap[pool[m[2]]].disabled \/ Writing(m)'
                 /\ \A g \in Handler : call'[g].pc = "write" /\ call'[g].acct = m =>
                      call'[g].read.disabled = heap[pool[m[2]]].disabled
      <4>1. CASE m = n
        <5>1. pool[m[2]] = o BY <2>5, <3>1, <3>4, <4>1
        <5>2. Writing(m)' BY <3>1, <4>1 DEF Writing
        <5>3. QED BY <2>w, <3>2, <5>1, <5>2
      <4>2. CASE m # n
        <5>1. pool[m[2]] # o
          <6>1. SUFFICES ASSUME pool[m[2]] = o PROVE FALSE OBVIOUS
          <6>2. m[2] = heap[o].acct BY <1>t, <3>4, <6>1
          <6>3. m \in FilesOf(heap[o].acct) BY <3>4, <6>2 DEF FilesOf
          <6>4. QED BY <3>1, <4>2, <6>3
        <5>2. files[m].disabled = heap[pool[m[2]]].disabled BY <2>7, <3>1, <3>4, <5>1
        <5>3. QED BY <2>w, <3>1, <4>2, <5>2
      <4>3. QED BY <4>1, <4>2
    <3>5. SwitchSaved' BY <2>1, <2>3, <3>4 DEF SwitchSaved
    <3>6. QED BY <2>4, <3>3, <3>5 DEF Switches
  <2>9. CASE /\ ~ \E n \in Name : FilesOf(heap[o].acct) = {n} /\ files[n].token = heap[o].token
             /\ call'[h].pc = (IF call[h].kind = "toggle" THEN "revert" ELSE "save")
    <3>1. ASSUME NEW m \in Name, files[m] # None PROVE pool[m[2]] # o
      <4>1. SUFFICES ASSUME pool[m[2]] = o PROVE FALSE OBVIOUS
      <4>2. o # None BY <2>2, FilesAssumption
      <4>3. m[2] = heap[o].acct BY <1>t, <4>1, <4>2
      <4>4. \A n \in Name : n[2] = m[2] /\ files[n] # None => n = m BY <1>0, <1>c, <2>3, <3>1 DEF OneFile
      <4>5. FilesOf(heap[o].acct) = {m} BY <3>1, <4>3, <4>4 DEF FilesOf
      <4>6. files[m].token = heap[pool[m[2]]].token
        <5>1. "register" \notin offered BY DEF Calm
        <5>2. QED BY <1>0, <1>c, <2>3, <3>1, <4>1, <4>2, <5>1 DEF SameTokens
      <4>7. QED BY <2>9, <4>1, <4>5, <4>6
    <3>2. ASSUME call[h].kind = "toggle" PROVE \A x \in call[h].objs : x = o
      BY <2>2, <3>2 DEF OneObject
    <3>3. call'[h].pc \in {"save", "write"} \/ call[h].todo \subseteq {o}
      BY <1>t, <2>1, <2>9, <3>2 DEF CallOK
    <3>4. call'[h].pc # "write" BY <2>9
    <3>5. ASSUME NEW m \in Name, files[m] # None, pool[m[2]] # None, ~ Saving(pool[m[2]])'
          PROVE  files[m].disabled = heap[pool[m[2]]].disabled
      BY <2>7, <3>1, <3>3, <3>5
    <3>6. SwitchSaved' BY <2>1, <2>3, <2>w, <3>4, <3>5 DEF SwitchSaved
    <3>7. StillThere(h)'
      <4>1. \A x \in call[h].objs : pool[heap[x].acct] \in {x, None}
        BY <1>0, <2>1 DEF StillThere
      <4>2. ASSUME call'[h].pc = "revert", NEW x \in call[h].objs, NEW n \in Name, n[2] = heap[x].acct
            PROVE  files[n] = None
        <5>1. x = o BY <2>9, <3>2, <4>2
        <5>2. SUFFICES ASSUME files[n] # None PROVE FALSE OBVIOUS
        <5>3. pool[n[2]] # o BY <3>1, <5>2
        <5>4. pool[n[2]] = None BY <2>5, <4>2, <5>1, <5>3
        <5>5. QED BY <1>0, <1>c, <2>3, <5>2, <5>4 DEF FilesInPool
      <4>3. QED BY <2>1, <2>2, <2>3, <4>1, <4>2 DEF StillThere
    <3>8. QED BY <2>4, <3>6, <3>7 DEF Switches
  <2>10. QED BY <2>2, <2>8, <2>9
<1>2. CASE WriteSaved(h)
  <2>1. /\ Others(h)
        /\ UNCHANGED <<Elsewhere, heap, pool>>
        /\ call[h].pc = "write" /\ call[h].acct \in Name /\ call[h].read \in Record
        /\ dirLock = h
        /\ call'[h].objs = call[h].objs /\ call'[h].todo = call[h].todo
    BY <1>2, WriteEffect
  <2>2. /\ files' = [files EXCEPT ![call[h].acct] = call[h].read]
        /\ call'[h].pc = "save"
    <3>1. faults = 0 BY DEF Calm
    <3>2. QED BY <1>2, <3>1, WriteEffect
  <2>3. Disk = files /\ Disk' = files' BY <1>d, <2>1 DEF Elsewhere
  <2>4. files[call[h].acct] # None BY <1>0, <2>1 DEF ReadIsThere
  <2>5. /\ files \in [Name -> Record \cup {None}] BY DEF Types, TypeOK
  <2>6. /\ files'[call[h].acct] = call[h].read
        /\ \A m \in Name : m # call[h].acct => files'[m] = files[m]
    BY <2>1, <2>2, <2>5
  <2>7. \A n \in Name : files'[n] # None => files[n] # None BY <2>4, <2>6
  <2>8. \A g \in Handler \ {h} : StillThere(g)' BY <2>1, <2>3, <2>7, SwitchesKept
  <2>9. StillThere(h)' BY <1>0, <2>1, <2>2 DEF StillThere
  <2>10. \A g \in Handler : g # h => call[g].pc # "write" BY <1>w, <2>1
  <2>11. \A g \in Handler : call'[g].pc # "write" BY <2>1, <2>2, <2>10 DEF Others
  <2>12. ASSUME NEW m \in Name, files'[m] # None, pool[m[2]] # None, ~ Saving(pool[m[2]])'
         PROVE  files'[m].disabled = heap[pool[m[2]]].disabled
    <3>1. ~ Saving(pool[m[2]])
      <4>1. SUFFICES ASSUME NEW g \in Handler, call[g].pc \in {"save", "write"}, pool[m[2]] \in call[g].todo
                     PROVE  Saving(pool[m[2]])'
        BY <2>12 DEF Saving
      <4>2. call'[g].pc \in {"save", "write"} /\ pool'[m[2]] \in call'[g].todo
        BY <2>1, <2>2, <4>1 DEF Others
      <4>3. QED BY <2>1, <4>2 DEF Saving
    <3>2. /\ files[m].disabled = heap[pool[m[2]]].disabled \/ Writing(m)
          /\ \A g \in Handler : call[g].pc = "write" /\ call[g].acct = m =>
               call[g].read.disabled = heap[pool[m[2]]].disabled
      BY <1>0, <2>3, <2>7, <2>12, <3>1 DEF SwitchSaved
    <3>3. CASE m = call[h].acct BY <2>1, <2>6, <3>2, <3>3
    <3>4. CASE m # call[h].acct
      <4>1. ~ Writing(m) BY <2>10, <3>4 DEF Writing
      <4>2. QED BY <2>6, <3>2, <3>4, <4>1
    <3>5. QED BY <3>3, <3>4
  <2>13. SwitchSaved' BY <2>1, <2>3, <2>11, <2>12 DEF SwitchSaved
  <2>14. QED BY <2>8, <2>9, <2>13 DEF Switches
<1>3. QED BY <1>1, <1>2

\* The first state of a process, and the one after a restore.
LEMMA FreshSwitches ==
  ASSUME \A h \in Handler : call[h].pc \in {"ready", "done"},
         \A n \in Name : Disk[n] # None /\ pool[n[2]] # None =>
           Disk[n].disabled = heap[pool[n[2]]].disabled
  PROVE  Switches
BY DEF Switches, SwitchSaved, StillThere

\* A backup or a restore.
LEMMA BackupSwitches ==
  ASSUME Types, Gate, Apart, Restored, Restored', Sync, astray' = {}, Switches, Backup
  PROVE  Switches'
<1>t. admin \in AdminType BY DEF Types, AdminOK
<1>1. CASE ~ SwapPool
  <2>1. UNCHANGED <<heap, pool, call>> BY <1>1, BackupKeeps
  <2>2. \A n \in Name : Disk'[n] = Disk[n] BY <1>1, BackupDisk DEF Sync
  <2>3. QED BY <2>1, <2>2 DEF Switches, SwitchSaved, StillThere, Saving, Writing
<1>2. CASE SwapPool
  <2>1. /\ UNCHANGED <<files, call>>
        /\ admin.pc = "move" /\ admin.left = {}
        /\ admin' = [admin EXCEPT !.pc = "swapped"]
        /\ \A a \in Account :
             IF admin.target[<<"email", a>>] = None THEN pool'[a] = None
             ELSE /\ pool'[a] \in Obj \ Used
                  /\ heap'[pool'[a]].token = admin.target[<<"email", a>>].token
                  /\ heap'[pool'[a]].disabled = admin.target[<<"email", a>>].disabled
    BY <1>2, SwapEffect
  <2>2. admin'.pc = "swapped" /\ admin'.target = admin.target BY <1>t, <2>1 DEF AdminType
  <2>3. Disk' = admin.target BY <2>2 DEF Restored, Disk
  <2>4. \A n \in Name : admin.target[n] # None => n = <<"email", n[2]>> /\ n[2] \in Account
    BY DEF Types, AdminOK, Name
  <2>5. \A h \in Handler : call'[h].pc \in {"ready", "done"}
    BY <2>1, RestoringCalls DEF Restores
  <2>6. \A n \in Name : Disk'[n] # None => Disk'[n].disabled = heap'[pool'[n[2]]].disabled
    BY <2>1, <2>3, <2>4
  <2>7. QED BY <2>5, <2>6 DEF Switches, SwitchSaved, StillThere
<1>3. QED BY <1>1, <1>2

\* A new start.
LEMMA RestartSwitches ==
  ASSUME Types, astray' = {}, Restart
  PROVE  Switches'
<1>1. /\ UNCHANGED files
      /\ admin' = Idle
      /\ \A h \in Handler : call'[h].pc \in {"ready", "done"}
      /\ \A a \in Account :
           /\ FilesOf(a) # {} => pool'[a] # None /\ Cardinality(FilesOf(a)) = 1
           /\ pool'[a] # None => \E n \in FilesOf(a) : heap'[pool'[a]].disabled = files[n].disabled
  BY RestartEffect
<1>2. Disk' = files BY <1>1 DEF Disk, Idle
<1>3. ASSUME NEW n \in Name, files[n] # None PROVE files[n].disabled = heap'[pool'[n[2]]].disabled
  <2>1. n[2] \in Account /\ n \in FilesOf(n[2]) BY <1>3 DEF Name, FilesOf
  <2>2. PICK m \in FilesOf(n[2]) : heap'[pool'[n[2]]].disabled = files[m].disabled BY <1>1, <2>1
  <2>3. m = n BY <1>1, <2>1, FilesCounted
  <2>4. QED BY <2>2, <2>3
<1>4. QED BY <1>1, <1>2, <1>3 DEF Switches, SwitchSaved, StillThere

\* Every step, as long as no write fails.
LEMMA SwitchesNext ==
  ASSUME Types, Gate, Deletions, Apart, Restored, Restored', Sync, Unharmed, Unharmed', Calm, faults' = 0,
         \A g \in Handler : OneObject(g), Switches, [Next]_vars
  PROVE  Switches'
<1>1. CASE \E h \in Handler : Start(h) \/ Continue(h)
  <2>1. PICK h \in Handler : Start(h) \/ Continue(h) BY <1>1
  <2>2. CASE SaveImport(h) \/ LoadActive(h) \/ AddActive(h) \/ Reload(h) \/ ReadListed(h) \/ AddListed(h)
    <3>1. call[h].pc \in {"import", "activate", "add", "reload", "list", "listed"}
      BY <2>2 DEF SaveImport, LoadActive, AddActive, Reload, ReadListed, AddListed
    <3>2. QED BY <3>1, CalmCalls
  <2>3. CASE EraseFile(h) \/ DeleteFile(h) \/ DropDeleted(h) BY <2>3, DeleteSwitches
  <2>4. CASE ReadSaved(h) \/ WriteSaved(h) BY <2>4, SaveSwitches
  <2>5. CASE SetFlag(h) \/ Revert(h) \/ Mark(h) BY <2>5, FlagSwitches
  <2>6. CASE \/ Start(h) \/ SkipImport(h) \/ NothingToImport(h) \/ FindDeleted(h) \/ SnapshotPool(h)
             \/ Resolve(h) \/ Marked(h) \/ SavedAll(h) \/ EndCall(h) \/ EndReload(h)
    <3>1. Plain(h) BY <2>6, PlainStep
    <3>2. QED BY <3>1, DeleteSwitches
  <2>7. QED BY <2>1, <2>2, <2>3, <2>4, <2>5, <2>6 DEF Continue
<1>0. astray' = {} BY DEF Unharmed
<1>2. CASE Backup BY <1>0, <1>2, BackupSwitches
<1>3. CASE Restart BY <1>0, <1>3, RestartSwitches
<1>4. CASE UNCHANGED vars
  <2>1. UNCHANGED <<files, heap, pool, call, admin>> BY <1>4 DEF vars
  <2>2. Disk' = Disk BY <2>1 DEF Disk
  <2>3. QED BY <2>1, <2>2 DEF Switches, SwitchSaved, StillThere, Saving, Writing
<1>5. QED BY <1>1, <1>2, <1>3, <1>4 DEF Next

\* The invariant of the switches.
Switched ==
  /\ Synced
  /\ \A h \in Handler : OneObject(h)
  /\ Apart /\ Calm => Switches

\* It is inductive.
LEMMA SwitchedInv == Spec => []Switched
<1>1. Init => Switched
  <2>1. SUFFICES ASSUME Init PROVE Switched OBVIOUS
  <2>2. Synced BY <2>1, InitSynced
  <2>4. \A h \in Handler : OneObject(h)
    <3>1. \A h \in Handler : call[h].pc = "ready" /\ call[h].objs = {} BY <2>1 DEF Init, NewCall
    <3>2. QED BY <3>1 DEF OneObject
  <2>5. Switches
    <3>1. /\ Disk = files /\ \A h \in Handler : call[h].pc = "ready"
          /\ \A n \in Name : files[n] # None => heap[pool[n[2]]].disabled = files[n].disabled
      BY <2>1, InitPool
    <3>2. QED BY <3>1, FreshSwitches
  <2>6. QED BY <2>2, <2>4, <2>5 DEF Switched
<1>2. Switched /\ [Next]_vars => Switched'
  <2>1. SUFFICES ASSUME Switched, [Next]_vars PROVE Switched' OBVIOUS
  <2>2. /\ Types /\ Gate /\ Deletions /\ (Apart => Restored /\ Sync /\ Unharmed)
        /\ \A h \in Handler : OneObject(h)
        /\ Apart /\ Calm => Switches
    BY <2>1 DEF Switched, Synced
  <2>3. Synced' BY <2>1, SyncedNext DEF Switched
  <2>4. offered' = offered BY <2>1, <2>2, ScenarioKept DEF fixed
  <2>5. Apart' <=> Apart BY <2>4 DEF Apart
  <2>6. \A h \in Handler : OneObject(h)' BY <2>1, <2>2, OneObjectNext
  <2>7. ASSUME Apart, Calm' PROVE Switches'
    <3>1. Restored' /\ Unharmed' BY <2>3, <2>5, <2>7 DEF Synced
    <3>2. faults' = 0 /\ Calm BY <2>1, <2>2, <2>4, <2>7, FaultsNext DEF Calm, Unharmed
    <3>3. QED BY <2>1, <2>2, <2>7, <3>1, <3>2, SwitchesNext
  <2>8. QED BY <2>3, <2>5, <2>6, <2>7 DEF Switched
<1>3. QED BY <1>1, <1>2, PTL DEF Spec

\* Between calls the switch of an account in memory is the one of its file, however two
\* administrators, a refresh, deletions, rejected logins, backups and restarts overlap, as
\* long as no write has failed and nothing replaces accounts under the handlers; again but
\* for a rejected login that is recorded during a restore.
THEOREM SwitchesAreOnDisk == Spec => [](Apart => SwitchIsOnDisk)
<1>1. Switched => (Apart => SwitchIsOnDisk)
  <2>1. SUFFICES ASSUME Switched, Apart, Quiescent, faults = 0,
                        offered \cap {"import", "register"} = {},
                        NEW a \in Account, pool[a] # None, NEW n \in FilesOf(a)
                 PROVE  files[n].disabled = heap[pool[a]].disabled
    BY DEF SwitchIsOnDisk
  <2>2. Switches BY <2>1 DEF Switched, Calm
  <2>3. admin.pc = "idle" /\ \A h \in Handler : call[h].pc \in {"ready", "done"}
    BY <2>1 DEF Quiescent
  <2>4. n \in Name /\ n[2] = a /\ Disk[n] = files[n] /\ files[n] # None BY <2>3 DEF FilesOf, Disk
  <2>5. ~ Saving(pool[a]) /\ ~ Writing(n) BY <2>3 DEF Saving, Writing
  <2>6. QED BY <2>1, <2>2, <2>4, <2>5 DEF Switches, SwitchSaved
<1>2. QED BY <1>1, SwitchedInv, PTL
=============================================================================
