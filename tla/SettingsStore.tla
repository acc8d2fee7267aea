---------------------------- MODULE SettingsStore ----------------------------
(***************************************************************************)
(* The settings of the server (settings/store.py, config.py) and the       *)
(* stored credentials (settings/api_keys.py): rows of app_settings with    *)
(* three caches in front of them.  A SettingsStore keeps the merged        *)
(* settings; config.py keeps a Settings object with the copy all callers   *)
(* read; api_keys keeps decrypted values.  Nothing but the database locks: *)
(* request threads read, fill and drop the caches between one another's    *)
(* steps.  A save through the settings API replaces the store and the      *)
(* Settings object; app.py goes on writing through the first store.        *)
(*                                                                         *)
(* A row is the number of the save that wrote it.  The file and the        *)
(* environment do not change while the server runs.                        *)
(***************************************************************************)
EXTENDS Integers, Sequences, SequencesExt

CONSTANTS
    Threads,       \* request threads
    Stores,        \* SettingsStore objects; one is used again when nobody holds it
    First,         \* the store app.py keeps as _settings_store
    Ops,           \* the operations the threads perform
    MaxSaves, MaxKeys, None

ASSUME SettingsConstants ==
    /\ First \in Stores
    /\ Ops \subseteq {"read", "form", "patch", "generate", "key"}
    /\ MaxSaves \in Nat
    /\ MaxKeys \in Nat
    /\ None \notin {"read", "patch"} \cup Ops
    /\ None \notin Nat \cup Stores \cup [rows : 0..MaxSaves, key : 0..MaxKeys]

VARIABLES
    rows,      \* the number of saves of sections of the settings
    key,       \* the number of changes of the stored credential
    cache,     \* _cache of each store
    values,    \* _value_cache of api_keys for the credential
    current,   \* _store of settings/store.py
    raw,       \* raw of the Settings object made together with each store
    shown,     \* _settings of config.py, named by that store
    thread,    \* what each request thread is doing
    answered   \* history: the newest of each that an answered request wrote

vars == <<rows, key, cache, values, current, raw, shown, thread, answered>>

\* Merged settings: the saves they hold and the credential they know of.
Config == [rows : 0..MaxSaves, key : 0..MaxKeys]
Saved == [patch : 0..MaxSaves, any : 0..MaxSaves, key : 0..MaxKeys]

(***************************************************************************)
(* What is left to do in a request: the steps of each operation.           *)
(***************************************************************************)
\* merged: the rows, the flag of the credential, then into the cache.
Rebuild == <<"load", "flag", "note", "keep">>

\* load_settings of a reader, and of _reload_settings after a save.
Read == <<"sight", "hold", "merged", "put", "see">>
Renewal == <<"renew", "hold", "merged", "show", "drop", "answer">>

\* SettingsStore.update_section.
Update == Rebuild \o <<"take", "save", "drop", "section">>

Program(op) ==
    CASE op = "read" -> Read
      [] op = "form" -> <<"merged">>
      [] op = "patch" -> Update \o Renewal
      [] op = "generate" -> Update \o <<"answer">>
      [] op = "key" -> <<"savekey", "forget", "hold", "drop">> \o Renewal

Steps == {"load", "flag", "note", "keep", "take", "copy", "sight", "hold", "merged", "put", "see", "renew",
          "show", "drop", "answer", "save", "section", "savekey", "forget"}

Thread == [op : Ops \cup {None}, todo : Seq(Steps), store : Stores, view : Stores,
           got : Config \cup {None}, secret : 0..MaxKeys, wrote : 0..MaxSaves, wrotekey : 0..MaxKeys,
           since : Saved]

Nobody == [op |-> None, todo |-> <<>>, store |-> First, view |-> First, got |-> None,
           secret |-> 0, wrote |-> 0, wrotekey |-> 0,
           since |-> [patch |-> 0, any |-> 0, key |-> 0]]

At(c, step) == thread[c].todo # <<>> /\ Head(thread[c].todo) = step

\* Thread c has done its step, changed what change says, and goes on.
Goes(c, t) == thread' = [thread EXCEPT ![c] = [t EXCEPT !.todo = Tail(@)]]

\* It does first what its step turned out to need.
GoesVia(c, steps) == thread' = [thread EXCEPT ![c].todo = steps \o Tail(@)]

Larger(a, b) == IF a >= b THEN a ELSE b

(***************************************************************************)
(* A request begins.                                                       *)
(***************************************************************************)
Begin(c, op) ==
    /\ thread[c].todo = <<>>
    /\ op \in {"patch", "generate"} => rows < MaxSaves
    /\ op = "key" => key < MaxKeys
    /\ thread' = [thread EXCEPT ![c] = [Nobody EXCEPT !.op = op, !.todo = Program(op),
                                                      !.since = answered]]
    /\ UNCHANGED <<rows, key, cache, values, current, raw, shown, answered>>

\* merged and section when the cache is there; when it is not, they build it.
Fresh(c) == cache[thread[c].store] # None

Merged(c) ==
    /\ At(c, "merged")
    /\ GoesVia(c, IF Fresh(c) THEN <<"copy">> ELSE Rebuild)
    /\ UNCHANGED <<rows, key, cache, values, current, raw, shown, answered>>

Section(c) ==
    /\ At(c, "section")
    /\ GoesVia(c, IF Fresh(c) THEN <<"take">> ELSE Rebuild \o <<"take">>)
    /\ UNCHANGED <<rows, key, cache, values, current, raw, shown, answered>>

Take_Unchecked(c) ==
    /\ At(c, "take")
    /\ Goes(c, [thread[c] EXCEPT !.got = cache[thread[c].store]])
    /\ UNCHANGED <<rows, key, cache, values, current, raw, shown, answered>>

\* section reads the cache again after its check; when somebody dropped it in
\* between, there is nothing to look the section up in and the request fails.
Take(c) ==
    LET found == cache[thread[c].store]
    IN /\ At(c, "take")
       /\ IF found # None
          THEN Goes(c, [thread[c] EXCEPT !.got = found])
          ELSE thread' = [thread EXCEPT ![c] = Nobody]
       /\ UNCHANGED <<rows, key, cache, values, current, raw, shown, answered>>

\* merged reads it again too, and hands out what it finds: nothing, when
\* somebody dropped the cache in between.
Copy(c) ==
    /\ At(c, "copy")
    /\ Goes(c, [thread[c] EXCEPT !.got = cache[thread[c].store]])
    /\ UNCHANGED <<rows, key, cache, values, current, raw, shown, answered>>

\* One query for all sections.
Load(c) ==
    /\ At(c, "load")
    /\ Goes(c, [thread[c] EXCEPT !.got = [rows |-> rows, key |-> 0]])
    /\ UNCHANGED <<rows, key, cache, values, current, raw, shown, answered>>

\* stored_value: from its cache, or from the row.
Flag(c) ==
    /\ At(c, "flag")
    /\ Goes(c, [thread[c] EXCEPT !.secret = IF values # None THEN values ELSE key])
    /\ UNCHANGED <<rows, key, cache, values, current, raw, shown, answered>>

Note(c) ==
    /\ At(c, "note")
    /\ values' = thread[c].secret
    /\ Goes(c, [thread[c] EXCEPT !.got.key = thread[c].secret])
    /\ UNCHANGED <<rows, key, cache, current, raw, shown, answered>>

Keep(c) ==
    /\ At(c, "keep")
    /\ cache' = [cache EXCEPT ![thread[c].store] = thread[c].got]
    /\ Goes(c, thread[c])
    /\ UNCHANGED <<rows, key, values, current, raw, shown, answered>>

(***************************************************************************)
(* config.load_settings: the shared Settings object and the current store. *)
(***************************************************************************)
Sight(c) ==
    /\ At(c, "sight")
    /\ Goes(c, [thread[c] EXCEPT !.view = shown])
    /\ UNCHANGED <<rows, key, cache, values, current, raw, shown, answered>>

Hold(c) ==
    /\ At(c, "hold")
    /\ Goes(c, [thread[c] EXCEPT !.store = current])
    /\ UNCHANGED <<rows, key, cache, values, current, raw, shown, answered>>

Put(c) ==
    /\ At(c, "put")
    /\ raw' = [raw EXCEPT ![thread[c].view] = thread[c].got]
    /\ Goes(c, thread[c])
    /\ UNCHANGED <<rows, key, cache, values, current, shown, answered>>

\* The caller reads the object, which others reload too.  With no settings in
\* it the request fails: there is nothing to look a section up in.
See(c) ==
    /\ At(c, "see")
    /\ Goes(c, [thread[c] EXCEPT !.got = raw[thread[c].view]])
    /\ UNCHANGED <<rows, key, cache, values, current, raw, shown, answered>>

InUse(s) ==
    \/ s \in {First, current, shown}
    \/ \E c \in Threads : s \in {thread[c].store, thread[c].view}

Renew_Kept(c) ==
    /\ At(c, "renew")
    /\ Goes(c, [thread[c] EXCEPT !.store = current, !.view = shown])
    /\ UNCHANGED <<rows, key, cache, values, current, raw, shown, answered>>

\* get_store with force_new: another store, and a Settings object for it.
Renew(c) ==
    /\ At(c, "renew")
    /\ \E s \in Stores :
          /\ ~InUse(s)
          /\ current' = s
          /\ cache' = [cache EXCEPT ![s] = None]
          /\ Goes(c, [thread[c] EXCEPT !.store = s, !.view = s])
    /\ UNCHANGED <<rows, key, values, raw, shown, answered>>

\* The object is published; what follows concerns app.py's own store again.
Show(c) ==
    /\ At(c, "show")
    /\ raw' = [raw EXCEPT ![thread[c].view] = thread[c].got]
    /\ shown' = thread[c].view
    /\ Goes(c, [thread[c] EXCEPT !.store = First])
    /\ UNCHANGED <<rows, key, cache, values, current, answered>>

\* SettingsStore.invalidate.
Drop(c) ==
    /\ At(c, "drop")
    /\ cache' = [cache EXCEPT ![thread[c].store] = None]
    /\ Goes(c, thread[c])
    /\ UNCHANGED <<rows, key, values, current, raw, shown, answered>>

(***************************************************************************)
(* Writes.                                                                 *)
(***************************************************************************)
Save(c) ==
    /\ At(c, "save")
    /\ rows < MaxSaves
    /\ rows' = rows + 1
    /\ Goes(c, [thread[c] EXCEPT !.wrote = rows + 1])
    /\ UNCHANGED <<key, cache, values, current, raw, shown, answered>>

\* set_key and clear_key.
SaveKey(c) ==
    /\ At(c, "savekey")
    /\ key < MaxKeys
    /\ key' = key + 1
    /\ Goes(c, [thread[c] EXCEPT !.wrotekey = key + 1])
    /\ UNCHANGED <<rows, cache, values, current, raw, shown, answered>>

Forget(c) ==
    /\ At(c, "forget")
    /\ values' = None
    /\ Goes(c, thread[c])
    /\ UNCHANGED <<rows, key, cache, current, raw, shown, answered>>

Answer(c) ==
    /\ At(c, "answer")
    /\ answered' =
          [patch |-> IF thread[c].op = "patch" THEN Larger(answered.patch, thread[c].wrote)
                     ELSE answered.patch,
           any |-> Larger(answered.any, thread[c].wrote),
           key |-> Larger(answered.key, thread[c].wrotekey)]
    /\ thread' = [thread EXCEPT ![c] = Nobody]
    /\ UNCHANGED <<rows, key, cache, values, current, raw, shown>>

\* What the first store has cached when the database is attached to it: it
\* was read without the sections saved there.
Attached_Kept == [rows |-> 0, key |-> 0]
Attached == None

\* The process ends and starts again: only the rows are left.
Restart ==
    /\ thread' = [c \in Threads |-> Nobody]
    /\ cache' = [s \in Stores |-> IF s = First THEN Attached ELSE None]
    /\ values' = None
    /\ current' = First
    /\ shown' = First
    /\ raw' = [s \in Stores |-> None]
    /\ UNCHANGED <<rows, key, answered>>

Step(c) ==
    \/ Merged(c) \/ Section(c) \/ Take(c) \/ Copy(c) \/ Load(c) \/ Flag(c) \/ Note(c) \/ Keep(c)
    \/ Sight(c) \/ Hold(c) \/ Put(c) \/ See(c) \/ Renew(c) \/ Show(c) \/ Drop(c)
    \/ Save(c) \/ SaveKey(c) \/ Forget(c) \/ Answer(c)

Init ==
    /\ rows = 0
    /\ key = 0
    /\ cache = [s \in Stores |-> None]
    /\ values = None
    /\ current = First
    /\ shown = First
    /\ raw = [s \in Stores |-> None]
    /\ thread = [c \in Threads |-> Nobody]
    /\ answered = [patch |-> 0, any |-> 0, key |-> 0]

Next ==
    \/ \E c \in Threads, op \in Ops : Begin(c, op)
    \/ \E c \in Threads : Step(c)
    \/ Restart

Spec == Init /\ [][Next]_vars

(***************************************************************************)
(* Properties.                                                             *)
(***************************************************************************)
\* Every variable has its type, and a thread that is about to cache settings,
\* or to save a section over the one it read, has them.  What it is about to
\* put into a Settings object may be missing: see Copy.
TypeOK ==
    /\ rows \in 0..MaxSaves
    /\ key \in 0..MaxKeys
    /\ cache \in [Stores -> Config \cup {None}]
    /\ values \in 0..MaxKeys \cup {None}
    /\ current \in Stores
    /\ raw \in [Stores -> Config \cup {None}]
    /\ shown \in Stores
    /\ thread \in [Threads -> Thread]
    /\ answered \in Saved
    /\ \A c \in Threads, step \in {"note", "keep", "save"} :
          At(c, step) => thread[c].got # None

\* A request of kind op that went through, with what it was given.
Done(c, op) == thread[c].op = op /\ thread[c].todo = <<>> /\ thread[c].got # None

\* A page or a scan that starts after a save was answered, and finds settings
\* at all, reads settings with that save in them, whatever other threads fill
\* the caches with meanwhile.
ReadSees == \A c \in Threads : Done(c, "read") => thread[c].got.rows >= thread[c].since.patch

\* The same of any save: "every write goes through the store and invalidates it".
EveryWriteSeen == \A c \in Threads : Done(c, "read") => thread[c].got.rows >= thread[c].since.any

\* The current store holds no settings older than the newest answered save,
\* so nothing a slow reader puts into a cache outlives the save it missed.
CurrentIsNew ==
    cache[current] # None => cache[current].rows >= answered.patch
=============================================================================
