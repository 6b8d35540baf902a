---------------------------- MODULE AccountKeys ----------------------------
(***************************************************************************)
(* The keys of the account controller: the key store, the keys shown, and  *)
(* the settings kept beside them (names, recent and selected master keys,  *)
(* external accounts), each with its copy in the browser's storage.  None  *)
(* of these calls takes a mutex.                                            *)
(***************************************************************************)
EXTENDS Naturals, Sequences, FiniteSets, SequencesExt

CONSTANTS
    Keys,
    KeyCalls,       \* concurrent calls
    KeyWorkloads,   \* which operation each is, in one behaviour
    MaxRecent,      \* 5 in the code
    NoKey           \* undefined

KeyNames == {"createMaster", "create", "createMany", "remove", "removeMany", "rename", "select",
             "recent", "external", "clear"}
KeyOperation == [name : KeyNames, keys : (SUBSET Keys) \ {{}}]

ASSUME KeyAssumption ==
    /\ KeyWorkloads \subseteq [KeyCalls -> KeyOperation]
    /\ MaxRecent \in Nat /\ NoKey \notin Keys

VARIABLES
    keyOp, keyPc,
    keyStore,           \* the keys of the key store
    storedKeys,         \* the keys shown
    keysCopy,           \* the copy of them a call has made
    keysLeft,           \* the keys a call has yet to add or remove
    settings, disk,     \* the settings, and what the storage has of them
    keysOverlapped      \* history: the keys have changed between the halves of another call

keyVars == <<keyOp, keyPc, keyStore, storedKeys, keysCopy, keysLeft, settings, disk, keysOverlapped>>

Settings == [names : SUBSET Keys, recent : Seq(Keys), selected : Keys \cup {NoKey},
             external : Seq(Keys)]
NoSettings == [names |-> {}, recent |-> <<>>, selected |-> NoKey, external |-> <<>>]

(* Every variable has its type. *)
KeysTypeOK ==
    /\ keyOp \in [KeyCalls -> KeyOperation]
    /\ keyPc \in [KeyCalls -> {"idle", "one", "many", "clearing", "done", "failed"}]
    /\ keyStore \subseteq Keys /\ storedKeys \subseteq Keys
    /\ keysCopy \in [KeyCalls -> SUBSET Keys] /\ keysLeft \in [KeyCalls -> SUBSET Keys]
    /\ settings \in Settings /\ disk \in Settings
    /\ keysOverlapped \in BOOLEAN

KeysInit ==
    /\ keyOp \in KeyWorkloads /\ keyPc = [c \in KeyCalls |-> "idle"]
    /\ keyStore \in SUBSET Keys /\ storedKeys = keyStore
    /\ keysCopy = [c \in KeyCalls |-> {}] /\ keysLeft = [c \in KeyCalls |-> {}]
    /\ settings = NoSettings /\ disk = NoSettings
    /\ keysOverlapped = FALSE

KeyCallBegins(c, names) == keyPc[c] = "idle" /\ keyOp[c].name \in names
KeyGoto(c, place) == keyPc' = [keyPc EXCEPT ![c] = place]
TheKey(c) == CHOOSE k \in keyOp[c].keys : TRUE

(* The keys change under the calls between their halves: those that have   *)
(* copied the keys, and a logOut() that has cleared the store.              *)
TouchKeys(c) ==
    keysOverlapped' =
        (keysOverlapped \/ \E d \in KeyCalls \ {c} : keyPc[d] \in {"one", "many", "clearing"})

(* Each setting is written to the storage as soon as it is changed. *)
Set(c, new) ==
    /\ settings' = new /\ disk' = new
    /\ TouchKeys(c)

(* createMasterKey(), createDerivedKey(), createLedgerKey(): the key goes  *)
(* to the store, ...                                                        *)
AddKey(c) ==
    /\ KeyCallBegins(c, {"createMaster", "create"})
    /\ keyStore' = keyStore \cup {TheKey(c)}
    /\ KeyGoto(c, "one") /\ TouchKeys(c)
    /\ UNCHANGED <<keyOp, storedKeys, keysCopy, keysLeft, settings, disk>>

(* ... and to the keys shown as they are by then.  A new master key is     *)
(* named before, and selected after.                                        *)
ShowKey(c) ==
    /\ keyPc[c] = "one" /\ keyOp[c].name \in {"createMaster", "create"}
    /\ storedKeys' = storedKeys \cup {TheKey(c)}
    /\ IF keyOp[c].name = "createMaster"
         THEN Set(c, [settings EXCEPT !.names = @ \cup {TheKey(c)}, !.selected = TheKey(c)])
         ELSE TouchKeys(c) /\ UNCHANGED <<settings, disk>>
    /\ KeyGoto(c, "done")
    /\ UNCHANGED <<keyOp, keyStore, keysCopy, keysLeft>>

(* removeKey(), likewise. *)
RemoveKey(c) ==
    /\ KeyCallBegins(c, {"remove"})
    /\ keyStore' = keyStore \ {TheKey(c)}
    /\ KeyGoto(c, "one") /\ TouchKeys(c)
    /\ UNCHANGED <<keyOp, storedKeys, keysCopy, keysLeft, settings, disk>>

(* Mutant: the removed key is still shown. *)
KeepKey(c) ==
    /\ keyPc[c] = "one" /\ keyOp[c].name = "remove"
    /\ KeyGoto(c, "done") /\ TouchKeys(c)
    /\ UNCHANGED <<keyOp, keyStore, storedKeys, keysCopy, keysLeft, settings, disk>>

HideKey(c) ==
    /\ keyPc[c] = "one" /\ keyOp[c].name = "remove"
    /\ storedKeys' = storedKeys \ {TheKey(c)}
    /\ KeyGoto(c, "done") /\ TouchKeys(c)
    /\ UNCHANGED <<keyOp, keyStore, keysCopy, keysLeft, settings, disk>>

(* createDerivedKeys() and removeKeys() copy the keys shown first, ... *)
CopyKeys(c) ==
    /\ KeyCallBegins(c, {"createMany", "removeMany"})
    /\ keysCopy' = [keysCopy EXCEPT ![c] = storedKeys]
    /\ keysLeft' = [keysLeft EXCEPT ![c] = keyOp[c].keys]
    /\ KeyGoto(c, "many")
    /\ UNCHANGED <<keyOp, keyStore, storedKeys, settings, disk, keysOverlapped>>

(* ... then add or remove each key, the ones side by side with the others: *)
(* the first failure ends the call, which shows nothing of what was done.  *)
ChangeOne(c, k) ==
    /\ k \in keysLeft[c]
    /\ keysLeft' = [keysLeft EXCEPT ![c] = @ \ {k}]
    /\ \/ /\ keyStore' = IF keyOp[c].name = "createMany" THEN keyStore \cup {k}
                                                         ELSE keyStore \ {k}
          /\ UNCHANGED keyPc
       \/ KeyGoto(c, "failed") /\ UNCHANGED keyStore
    /\ TouchKeys(c)
    /\ UNCHANGED <<keyOp, storedKeys, keysCopy, settings, disk>>

PutCopy(c) ==
    /\ keyPc[c] = "many" /\ keysLeft[c] = {}
    /\ storedKeys' = IF keyOp[c].name = "createMany" THEN keysCopy[c] \cup keyOp[c].keys
                                                     ELSE keysCopy[c] \ keyOp[c].keys
    /\ KeyGoto(c, "done") /\ TouchKeys(c)
    /\ UNCHANGED <<keyOp, keyStore, keysCopy, keysLeft, settings, disk>>

Renamed(k) == [settings EXCEPT !.names = @ \cup {k}]
Selected(k) == [settings EXCEPT !.selected = k]

(* The most recent first, each once. *)
Recent(k) ==
    LET recent == <<k>> \o SelectSeq(settings.recent, LAMBDA key : key # k)
    IN  [settings EXCEPT !.recent = SubSeq(recent, 1, IF Len(recent) < MaxRecent
                                                        THEN Len(recent) ELSE MaxRecent)]

External(k) ==
    [settings EXCEPT !.external = <<k>> \o SelectSeq(@, LAMBDA key : key # k)]

ChangeSetting(c) ==
    /\ KeyCallBegins(c, {"rename", "select", "recent", "external"})
    /\ CASE keyOp[c].name = "rename" -> Set(c, Renamed(TheKey(c)))
         [] keyOp[c].name = "select" -> Set(c, Selected(TheKey(c)))
         [] keyOp[c].name = "recent" -> Set(c, Recent(TheKey(c)))
         [] keyOp[c].name = "external" -> Set(c, External(TheKey(c)))
    /\ KeyGoto(c, "done")
    /\ UNCHANGED <<keyOp, keyStore, storedKeys, keysCopy, keysLeft>>

(* logOut() clears the store and the storage, then what is shown. *)
ClearKeys(c) ==
    /\ KeyCallBegins(c, {"clear"})
    /\ keyStore' = {} /\ disk' = NoSettings
    /\ KeyGoto(c, "clearing") /\ TouchKeys(c)
    /\ UNCHANGED <<keyOp, storedKeys, keysCopy, keysLeft, settings>>

ResetKeys(c) ==
    /\ keyPc[c] = "clearing"
    /\ storedKeys' = {} /\ settings' = NoSettings
    /\ KeyGoto(c, "done") /\ TouchKeys(c)
    /\ UNCHANGED <<keyOp, keyStore, keysCopy, keysLeft, disk>>

KeysNext ==
    \E c \in KeyCalls :
        \/ AddKey(c) \/ ShowKey(c) \/ RemoveKey(c) \/ HideKey(c) \/ CopyKeys(c) \/ PutCopy(c)
        \/ ChangeSetting(c) \/ ClearKeys(c) \/ ResetKeys(c)
        \/ \E k \in Keys : ChangeOne(c, k)

KeysSpec == KeysInit /\ [][KeysNext]_keyVars

(* With no call under way the keys shown are those of the store, and the   *)
(* settings those of the storage.  The exceptions: calls that overlap, and *)
(* one that failed having added or removed some of its keys.                *)
KeysShownAreStored ==
    (\A c \in KeyCalls : keyPc[c] \in {"idle", "done"}) =>
        \/ keysOverlapped
        \/ storedKeys = keyStore /\ settings = disk
=============================================================================
