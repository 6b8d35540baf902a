--------------------------- MODULE AccountsManagement ---------------------------
(***************************************************************************)
(* The popup's management of seeds, keys and accounts.  A handler of a     *)
(* component makes several calls to the background one after another, with *)
(* what it read when it started; a call may fail, or the window be closed, *)
(* between any two of them.  A handler is a sequence of try blocks, and a  *)
(* block a sequence of calls.                                              *)
(***************************************************************************)
EXTENDS Naturals, Sequences, FiniteSets

CONSTANTS
    Seeds, LedgerSeeds, SeedKeys, SeedOf, FirstKeyOf,  \* the keys of each seed
    Wallets, OwnerOf,   \* the accounts that may be created for each key
    Custody,            \* <<w, k>>: k is a custodian of w, but not its owner
    Kept,               \* what the storage may hold when the popup is opened
    MaxHandlers,        \* bounds the handlers started
    Nobody              \* undefined

(* What the storage holds. *)
Storage == [keys : SUBSET SeedKeys, entries : SUBSET Wallets, visible : SUBSET Wallets,
            external : SUBSET (Wallets \X SeedKeys), seed : Seeds \cup {Nobody},
            account : Wallets \cup {Nobody}]

(* A wallet is derived from every key.  The background has selected an      *)
(* account, if there is one, when the popup is opened.                        *)
ASSUME ManagementAssumption ==
    /\ IsFiniteSet(SeedKeys) /\ LedgerSeeds \subseteq Seeds
    /\ SeedOf \in [SeedKeys -> Seeds] /\ FirstKeyOf \in [Seeds -> SeedKeys]
    /\ OwnerOf \in [Wallets -> SeedKeys] /\ Custody \subseteq Wallets \X SeedKeys
    /\ \A k \in SeedKeys : \E w \in Wallets : OwnerOf[w] = k
    /\ Kept \subseteq Storage /\ \A b \in Kept : b.account = Nobody => b.entries = {}
    /\ Nobody \notin Seeds \cup SeedKeys \cup Wallets

VARIABLES
    stored,     \* of the background: keys, entries, visible, external, seed, account
    place,       \* of the popup: panel, step, local step, current seed, key, account
    pending,    \* the blocks of the handler, with the calls it has still to make
    after,      \* what the handler does in the end
    handlers, strays, astray    \* history

managementVars == <<stored, place, pending, after, handlers, strays, astray>>

Closed == [panel |-> "none", step |-> "manageSeeds", local |-> "index", seed |-> Nobody,
           key |-> Nobody, account |-> Nobody, selected |-> {}, unselected |-> {}]
Stay == [go |-> "stay", key |-> Nobody, account |-> Nobody]
Nothing == [keys |-> {}, entries |-> {}, visible |-> {}, external |-> {},
            seed |-> Nobody, account |-> Nobody]

----------------------------------------------------------------------------
(* What the popup derives from the state. *)

KeysOf(b, s) == {k \in b.keys : SeedOf[k] = s}
MasterKeys(b) == {SeedOf[k] : k \in b.keys}
LinkedTo(b, K) == {w \in b.entries : \E k \in K : <<w, k>> \in b.external}
OwnedBy(b, K) == {w \in b.entries : OwnerOf[w] \in K}
Under(b, s) == OwnedBy(b, KeysOf(b, s)) \cup LinkedTo(b, KeysOf(b, s))
Listed(b, s) == Under(b, s) \cap b.visible

AtWelcome == stored.entries = {} \/ stored.seed = Nobody
AtMain == stored.account # Nobody /\ ~AtWelcome

(* An earlier popup may have left accounts without a key, and the selected   *)
(* one astray.                                                                *)
ManagementInit ==
    /\ stored \in {Nothing} \cup Kept /\ place = Closed /\ pending = <<>> /\ after = Stay
    /\ handlers = 0
    /\ strays = {w \in stored.entries :
                    OwnerOf[w] \notin stored.keys /\ w \notin LinkedTo(stored, stored.keys)}
    /\ astray = (stored.account \notin Listed(stored, stored.seed) \cup {Nobody})

----------------------------------------------------------------------------
(* The calls. *)

Call(name, of) == [name |-> name, of |-> of, item |-> Nobody, undo |-> Nobody, stay |-> TRUE]

(* What a call changes that gets as far as part. *)
Effect(b, name, part) ==
    IF part = {} THEN b
    ELSE CASE name = "look"              -> b
           [] name = "createKeys"        -> [b EXCEPT !.keys = @ \cup part]
           [] name = "createSelectedKey" -> [b EXCEPT !.keys = @ \cup part,
                                                      !.seed = SeedOf[CHOOSE k \in part : TRUE]]
           [] name = "removeKeys"        -> [b EXCEPT !.keys = @ \ part]
           [] name = "createAccount"     -> [b EXCEPT !.entries = @ \cup part, !.visible = @ \cup part,
                                                      !.account = CHOOSE w \in part : TRUE]
           [] name = "createAccounts"    -> [b EXCEPT !.entries = @ \cup part, !.visible = @ \cup part]
           [] name = "removeAccounts"    -> [b EXCEPT !.entries = @ \ part]
           [] name = "selectSeed"        -> [b EXCEPT !.seed = CHOOSE s \in part : TRUE]
           [] name = "selectAccount"     -> [b EXCEPT !.account = IF part \subseteq b.entries
                                                                  THEN CHOOSE w \in part : TRUE ELSE @]
           [] name = "show"              -> [b EXCEPT !.visible = @ \cup part]
           [] name = "hide"              -> [b EXCEPT !.visible = @ \ part]
           [] name = "link"              -> [b EXCEPT !.external = @ \cup part]
           [] name = "logOut"            -> Nothing

(* The seed of the account's key, or of the first key it is linked to. *)
SeedsFor(b, w) ==
    LET links == {k \in SeedKeys : <<w, k>> \in b.external}
    IN  IF OwnerOf[w] \in b.keys THEN {SeedOf[OwnerOf[w]]}
        ELSE IF links = {} THEN {Nobody}
        ELSE {IF k \in b.keys THEN SeedOf[k] ELSE Nobody : k \in links}

(* ensureAccountSelected() keeps an account that is stored, and a seed. *)
EnsuredBy(b, w) ==
    {[b EXCEPT !.account = w, !.seed = s] : s \in IF b.seed # Nobody THEN {b.seed} ELSE SeedsFor(b, w)}
Ensured(b) ==
    IF b.account \in b.entries THEN {b} ELSE UNION {EnsuredBy(b, w) : w \in b.entries}

Outcomes(b, c) == IF c.name = "ensure" THEN Ensured(b) ELSE {Effect(b, c.name, c.of)}

(* Only what is done account by account fails half-way; the keys shown are  *)
(* changed in the end, when nothing can fail.                                 *)
Failures(b, c) ==
    IF c.name = "ensure" THEN {b}
    ELSE {Effect(b, c.name, part) :
            part \in IF c.name \in {"createKeys", "removeKeys", "logOut"} THEN {{}}
                     ELSE IF c.name = "removeAccounts" THEN SUBSET c.of ELSE {{}, c.of}}

(* The selected account has been created under another seed, chosen by      *)
(* ensureAccountSelected() for a seed of before, reached by a key that is    *)
(* removed or of another seed, or has lost the key it was linked by; a       *)
(* Ledger's key is removed whatever is selected.                              *)
LosesSelected(c, b, b2) ==
    CASE c.name = "createAccount" \/ (c.name = "ensure" /\ b # b2) ->
            b2.account \notin Under(b2, b2.seed)
      [] c.name = "selectAccount" -> c.item # Nobody
      [] c.name \in {"removeKeys", "removeAccounts"} ->
            \/ b.account \in LinkedTo(b, c.of)
            \/ c.item # Nobody /\ b.account \in OwnedBy(b, c.of) \cup c.of
      [] OTHER -> FALSE

FindsSelected(c) == c.name \in {"createAccount", "selectAccount", "logOut"}

(* A switch to another seed and account ends between the two. *)
Interrupted(blocks, b) ==
    /\ \E i \in DOMAIN blocks : \E j \in DOMAIN blocks[i] : blocks[i][j].name = "selectAccount"
    /\ b.account \notin Under(b, b.seed)

(* A component begins with a state of its own. *)
At(p, step) == [p EXCEPT !.step = step, !.local = "index", !.selected = {}, !.unselected = {}]

Arrive(p, a) ==
    CASE a.go = "stay"    -> p
      [] a.go = "key"     -> [At(p, "manageKey") EXCEPT !.seed = SeedOf[a.key], !.key = a.key]
      [] a.go = "seed"    -> At(p, "manageSeed")
      [] a.go = "seeds"   -> At(p, "manageSeeds")
      [] a.go = "account" -> [At(p, "manageAccount") EXCEPT
                                 !.account = a.account, !.panel = IF @ = "window" THEN @ ELSE "seeds"]
      [] a.go = "panel"   -> [p EXCEPT !.panel = "none"]
      [] a.go = "main"    -> Closed

Continue(blocks, a) ==
    /\ pending' = blocks
    /\ IF blocks = <<>> THEN place' = Arrive(place, a) /\ after' = Stay
                         ELSE after' = a /\ UNCHANGED place

NextCall == Head(Head(pending))

Rest == LET block == Tail(Head(pending))
        IN  (IF block = <<>> THEN <<>> ELSE <<block>>) \o Tail(pending)

Succeed ==
    /\ pending # <<>>
    /\ LET c == NextCall IN
       \E b \in Outcomes(stored, c) :
          /\ stored' = b
          /\ Continue(Rest, after)
          /\ astray' = (LosesSelected(c, stored, b) \/ (astray /\ ~FindsSelected(c)))
          /\ strays' = strays \ (stored.entries \ b.entries)
    /\ UNCHANGED handlers

(* The rest of the try block is skipped.  A key is removed again if its      *)
(* account cannot be created, or if that fails when it is.                    *)
Fail ==
    /\ pending # <<>>
    /\ LET c == NextCall
           undone == IF c.undo = Nobody THEN <<>>
                     ELSE <<<<[Call("removeKeys", {c.undo}) EXCEPT !.item = c.undo]>>>>
       IN \E b \in Failures(stored, c) :
          /\ stored' = b
          /\ Continue(undone \o Tail(pending), IF c.stay THEN Stay ELSE after)
          /\ astray' = (astray \/ LosesSelected(c, stored, b) \/ Interrupted(pending, b))
          /\ strays' = (strays \cup OwnedBy(b, {c.undo}) \cup LinkedTo(b, {c.undo}))
                         \ (stored.entries \ b.entries)
    /\ UNCHANGED handlers

Begin(blocks, a) ==
    /\ pending = <<>> /\ handlers < MaxHandlers /\ handlers' = handlers + 1
    /\ pending' = blocks /\ after' = a
    /\ UNCHANGED <<stored, place>>
Start(calls, a) == Begin(<<calls>>, a) /\ UNCHANGED <<strays, astray>>

Visit(p) == place' = p /\ UNCHANGED <<stored, pending, after, handlers, strays, astray>>

(* A drawer that is closed leaves its handler going, a window does not. *)
ClosePanel == place.panel \in {"seeds", "create"} /\ Visit(Closed)

CloseWindow ==
    /\ pending # <<>> \/ place.panel # "none"
    /\ place' = Closed /\ pending' = <<>> /\ after' = Stay
    /\ astray' = (astray \/ Interrupted(pending, stored))
    /\ UNCHANGED <<stored, handlers, strays>>

----------------------------------------------------------------------------
(* The first page. *)

Try(name, of) == [Call(name, of) EXCEPT !.stay = FALSE]
CreateUnder(k, w) == [Call("createAccount", {w}) EXCEPT !.undo = k]

NewAccount(k, w) ==
    /\ AtWelcome /\ k \notin stored.keys /\ w \notin stored.entries
    /\ Start(<<Call("createSelectedKey", {k}), CreateUnder(k, w)>>, Stay)

(* What is found is imported, one account at least. *)
ImportAccount(k, W) ==
    /\ AtWelcome /\ k \notin stored.keys
    /\ Start(<<Call("createSelectedKey", {k}), [Call("look", {k}) EXCEPT !.undo = k],
               [Call("createAccounts", W) EXCEPT !.undo = k], [Call("ensure", {}) EXCEPT !.undo = k]>>, Stay)

(* The keys in the order they were checked in. *)
Orders(K) == {f \in [1 .. Cardinality(K) -> K] : \A i, j \in DOMAIN f : f[i] = f[j] => i = j}

(* The keys unselected lose the key first, and then one account. *)
OfKey(k, c) == [c EXCEPT !.item = k, !.stay = FALSE]
LedgerRemoval(k) ==
    <<OfKey(k, Call("removeKeys", {k}))>>
      \o (IF OwnedBy(stored, {k}) = {} THEN <<>>
          ELSE <<OfKey(k, Call("removeAccounts", {CHOOSE w \in OwnedBy(stored, {k}) : TRUE}))>>)
LedgerCreation(k) ==
    <<OfKey(k, Call("createKeys", {k})),
      OfKey(k, CreateUnder(k, CHOOSE w \in Wallets : OwnerOf[w] = k))>>

(* One after another, each with its own catch. *)
LedgerBlocks(remove, create) ==
    [i \in DOMAIN remove |-> LedgerRemoval(remove[i])]
      \o [i \in DOMAIN create |-> LedgerCreation(create[i])]

(* The seed of the Ledger is asked for and selected, whatever has failed. *)
LedgerSignIn(s, K) ==
    /\ AtWelcome /\ K # {} /\ K \cap stored.keys = {}
    /\ \E create \in Orders(K) :
          Begin(LedgerBlocks(<<>>, create) \o <<<<Call("look", {s}), Call("selectSeed", {s})>>>>, Stay)
    /\ UNCHANGED <<strays, astray>>

----------------------------------------------------------------------------
(* The main page. *)

OnMain == AtMain /\ place.panel = "none"

Slide(w) ==
    /\ OnMain /\ w \in Listed(stored, stored.seed) \ {stored.account}
    /\ Start(<<Call("selectAccount", {w})>>, Stay)

OnSelectMaster(s) ==
    /\ OnMain /\ s \in MasterKeys(stored) \ {stored.seed}
    /\ \/ \E w \in Listed(stored, s) :
             Start(<<Call("selectSeed", {s}), Call("selectAccount", {w})>>, [Stay EXCEPT !.go = "panel"])
       \/ /\ Listed(stored, s) = {}
          /\ Visit([place EXCEPT !.panel = "seeds", !.step = "manageSeed", !.local = "index", !.seed = s])

OnManageSeeds == OnMain /\ Visit([Closed EXCEPT !.panel = "window"])

LogOut ==
    /\ OnMain /\ Start(<<Call("logOut", stored.keys \cup {Nobody})>>, [Stay EXCEPT !.go = "main"])

(* The form takes the first of the seed's keys, unless it has one. *)
AddAccountCard ==
    /\ OnMain
    /\ LET keys == KeysOf(stored, stored.seed) IN
       Visit([place EXCEPT !.panel = "create", !.local = "index",
                          !.seed = IF keys = {} THEN Nobody ELSE stored.seed,
                          !.key = IF @ = Nobody /\ keys # {} THEN CHOOSE k \in keys : TRUE ELSE @])

----------------------------------------------------------------------------
(* Seeds. *)

AtStep(step, local) == place.panel \in {"seeds", "window"} /\ place.step = step /\ place.local = local
GoTo(step) == At(place, step)

OnManageMasterKey(s) ==
    /\ AtStep("manageSeeds", "index") /\ s \in MasterKeys(stored)
    /\ Visit([GoTo("manageSeed") EXCEPT !.seed = s])

AddSeed ==
    /\ AtStep("manageSeeds", "index") /\ Visit([Closed EXCEPT !.panel = place.panel, !.step = "createSeed"])

SeedSteps ==
    {<<"index", "show">>, <<"show", "check">>, <<"check", "newPassword">>, <<"index", "phrase">>,
     <<"phrase", "importPassword">>, <<"index", "ledger">>}
SeedStepBack ==
    {<<"show", "index">>, <<"phrase", "index">>, <<"check", "show">>, <<"newPassword", "show">>,
     <<"importPassword", "phrase">>}

TurnSeedStep ==
    /\ \E move \in SeedSteps \cup SeedStepBack :
          /\ AtStep("createSeed", move[1])
          /\ Visit([place EXCEPT !.local = move[2]])

LeaveCreateSeed ==
    /\ AtStep("createSeed", "index") \/ AtStep("createSeed", "ledger")
    /\ Visit(GoTo("manageSeeds"))

(* What fails once the key is stored is not told. *)
SubmitSeed(k, W) ==
    /\ k \notin stored.keys
    /\ \/ AtStep("createSeed", "newPassword") /\ W = {}
       \/ AtStep("createSeed", "importPassword") /\ W # {}
    /\ Start(IF W = {} THEN <<Call("createKeys", {k})>>
             ELSE <<Call("createKeys", {k}), Try("look", {k}), Try("createAccounts", W), Try("ensure", {})>>,
             [Stay EXCEPT !.go = "key", !.key = k])

OnManageDerivedKey(k) ==
    /\ AtStep("manageSeed", "index") /\ k \in KeysOf(stored, place.seed)
    /\ Visit([GoTo("manageKey") EXCEPT !.key = k])

(* Only a window offers it. *)
BackToSeeds ==
    /\ place.panel = "window" /\ AtStep("manageSeed", "index")
    /\ Visit([Closed EXCEPT !.panel = place.panel])

----------------------------------------------------------------------------
(* Keys. *)

AddDerivedKey ==
    /\ AtStep("manageSeed", "index") /\ place.seed \notin {Nobody}
    /\ Visit(GoTo("createKey"))

(* The password is accepted: the keys stored are selected. *)
EnterPassword ==
    /\ AtStep("createKey", "index") /\ place.seed \notin LedgerSeeds /\ stored.account # Nobody
    /\ Visit([place EXCEPT !.local = "select", !.selected = KeysOf(stored, place.seed)])

AtSelection == AtStep("createKey", "select") /\ stored.account # Nobody

(* The key of the selected account stays selected. *)
CheckKey(k) ==
    /\ AtSelection /\ SeedOf[k] = place.seed /\ k # OwnerOf[stored.account]
    /\ Visit([place EXCEPT !.selected = IF k \in @ THEN @ \ {k} ELSE @ \cup {k}])

LedgerAt == AtStep("createSeed", "ledger") \/ (AtStep("createKey", "index") /\ place.seed \in LedgerSeeds)

(* A key that is stored and selected again counts as new. *)
CheckLedgerKey(k) ==
    /\ LedgerAt /\ SeedOf[k] \in LedgerSeeds
    /\ Visit(IF k \notin place.unselected /\ k \in place.selected \cup stored.keys
               THEN [place EXCEPT !.selected = @ \ {k}, !.unselected = @ \cup {k}]
               ELSE [place EXCEPT !.selected = @ \cup {k}, !.unselected = @ \ {k}])

SaveLedgerAccounts ==
    /\ LedgerAt
    /\ place.unselected \cup place.selected # {}
    /\ \E remove \in Orders(place.unselected), create \in Orders(place.selected) :
          Begin(LedgerBlocks(remove, create),
                [Stay EXCEPT !.go = IF place.step = "createKey" THEN "seed" ELSE "seeds"])
    /\ strays' = strays \cup OwnedBy(stored, place.unselected) \cup LinkedTo(stored, place.unselected)
    /\ UNCHANGED astray

(* A call for nothing is not made. *)
IfAny(c) == IF c.of = {} THEN <<>> ELSE <<c>>

(* Mutant: the keys are removed before their accounts. *)
KeysFirst(create, remove, W) ==
    IfAny(Try("createKeys", create)) \o IfAny(Try("removeKeys", remove))
        \o IfAny(Try("removeAccounts", W))

KeyCallsOf(create, remove, W) ==
    IfAny(Try("createKeys", create)) \o IfAny(Try("removeAccounts", W))
        \o IfAny(Try("removeKeys", remove))

(* Of the accounts of the keys removed, those that are shown and of the     *)
(* selected seed are.  A key that was unselected before its account became  *)
(* the selected one is shown as selected, and removed.                        *)
OnSubmitKeys ==
    LET known == KeysOf(stored, place.seed)
        removed == known \ place.selected
        W == OwnedBy(stored, removed) \cap Listed(stored, stored.seed)
        calls == KeyCallsOf(place.selected \ known, removed, W)
    IN /\ AtSelection
       /\ calls # <<>>
       /\ Begin(<<calls>>, [Stay EXCEPT !.go = "seed"])
       /\ strays' = strays \cup (OwnedBy(stored, removed) \ W) \cup LinkedTo(stored, removed)
       /\ astray' = (astray \/ OwnerOf[stored.account] \in removed)

BackToSeed ==
    /\ place.step \in {"createKey", "manageKey"} /\ place.panel \in {"seeds", "window"}
    /\ Visit([GoTo("manageSeed") EXCEPT !.key = Nobody])

----------------------------------------------------------------------------
(* Accounts. *)

AddAccount == AtStep("manageKey", "index") /\ Visit(GoTo("createAccount"))

AtForm(local) ==
    /\ place.panel = "create" \/ (place.panel \in {"seeds", "window"} /\ place.step = "createAccount")
    /\ place.local = local

(* Its name is entered on the way. *)
AccountSteps ==
    {<<"index", "type">>, <<"index", "address">>, <<"type", "index">>, <<"address", "index">>}

TurnAccountStep ==
    \E move \in AccountSteps : AtForm(move[1]) /\ Visit([place EXCEPT !.local = move[2]])

OnChangeDerivedKey(k) ==
    /\ AtForm("index") /\ k \in KeysOf(stored, place.seed) /\ Visit([place EXCEPT !.key = k])

(* The form of the drawer has nowhere to go back to. *)
BackFromIndex == AtForm("index") /\ place.panel # "create" /\ Visit(GoTo("manageKey"))

(* The key of the form may have been removed since it was opened. *)
SubmitAccount(w, calls) ==
    /\ place.key # Nobody
    /\ Begin(<<calls>>, [Stay EXCEPT !.go = "account", !.account = w])
    /\ strays' = IF place.key \in stored.keys THEN strays ELSE strays \cup {w}
    /\ UNCHANGED astray

OnSubmit(w) ==
    /\ AtForm("type") /\ OwnerOf[w] = place.key /\ w \notin stored.entries
    /\ SubmitAccount(w, <<Call("createAccount", {w})>>)

(* An account of one's own, or one that the key is a custodian of. *)
OnAddExisting(w) ==
    /\ AtForm("address")
    /\ \/ OwnerOf[w] = place.key /\ w \notin stored.entries
          /\ SubmitAccount(w, <<Call("look", {w}), Call("createAccount", {w})>>)
       \/ <<w, place.key>> \in Custody
          /\ SubmitAccount(w, <<Call("look", {w}), Call("link", {<<w, place.key>>}),
                                 IF w \in stored.entries THEN Call("show", {w})
                                 ELSE Call("createAccount", {w})>>)

OnManageAccount(w) ==
    /\ AtStep("manageKey", "index")
    /\ w \in OwnedBy(stored, {place.key}) \cup LinkedTo(stored, {place.key})
    /\ Visit([GoTo("manageAccount") EXCEPT !.account = w])

(* A linked key may be of another seed, which does not become current. *)
ManageLinkedKey(k) ==
    /\ AtStep("manageAccount", "index") /\ k \in stored.keys
    /\ k = OwnerOf[place.account] \/ <<place.account, k>> \in stored.external
    /\ Visit([GoTo("manageKey") EXCEPT !.key = k])

(* Whether the page came to the account by its key, and by the seed to that. *)
ReachedByKey ==
    /\ place.key \in KeysOf(stored, place.seed)
    /\ place.account \in OwnedBy(stored, {place.key}) \cup LinkedTo(stored, {place.key})

OnSelectAccount ==
    /\ AtStep("manageAccount", "index") /\ place.seed # Nobody
    /\ Start(<<Call("selectSeed", {place.seed}), Call("show", {place.account}),
               [Call("selectAccount", {place.account}) EXCEPT
                   !.item = IF ReachedByKey THEN Nobody ELSE place.account]>>,
             [Stay EXCEPT !.go = "main"])

(* Mutant: the selected account can be hidden. *)
ToggleAnyVisibility ==
    /\ AtStep("manageAccount", "index")
    /\ Start(<<Call(IF place.account \in stored.visible THEN "hide" ELSE "show", {place.account})>>, Stay)

OnToggleVisibility ==
    /\ AtStep("manageAccount", "index") /\ place.account # stored.account
    /\ Start(<<Call(IF place.account \in stored.visible THEN "hide" ELSE "show", {place.account})>>, Stay)

BackToKey ==
    /\ AtStep("manageAccount", "index") /\ Visit([GoTo("manageKey") EXCEPT !.account = Nobody])

ManagementNext ==
    \/ Succeed \/ Fail \/ ClosePanel \/ CloseWindow
    \/ OnManageSeeds \/ LogOut \/ AddAccountCard \/ AddSeed \/ TurnSeedStep \/ LeaveCreateSeed
    \/ BackToSeeds \/ AddDerivedKey \/ EnterPassword \/ SaveLedgerAccounts \/ OnSubmitKeys \/ BackToSeed
    \/ AddAccount \/ TurnAccountStep \/ BackFromIndex \/ OnSelectAccount \/ OnToggleVisibility \/ BackToKey
    \/ \E s \in Seeds \ LedgerSeeds, W \in SUBSET Wallets :
          /\ \A w \in W : OwnerOf[w] = FirstKeyOf[s]
          /\ (W # {} /\ ImportAccount(FirstKeyOf[s], W)) \/ SubmitSeed(FirstKeyOf[s], W)
               \/ (\E w \in W : NewAccount(FirstKeyOf[s], w))
    \/ \E s \in LedgerSeeds, K \in SUBSET SeedKeys :
          (\A k \in K : SeedOf[k] = s) /\ LedgerSignIn(s, K)
    \/ \E w \in Wallets : Slide(w) \/ OnSubmit(w) \/ OnAddExisting(w) \/ OnManageAccount(w)
    \/ \E s \in Seeds : OnSelectMaster(s) \/ OnManageMasterKey(s)
    \/ \E k \in SeedKeys :
          \/ OnManageDerivedKey(k) \/ CheckKey(k) \/ CheckLedgerKey(k)
          \/ OnChangeDerivedKey(k) \/ ManageLinkedKey(k)

ManagementSpec == ManagementInit /\ [][ManagementNext]_managementVars

----------------------------------------------------------------------------
(* Types. *)

CallsOf(names, args) ==
    [name : names, of : SUBSET args, item : SeedKeys \cup Wallets \cup {Nobody},
     undo : SeedKeys \cup {Nobody}, stay : BOOLEAN]
Calls ==
    CallsOf({"createKeys", "createSelectedKey", "removeKeys"}, SeedKeys)
      \cup CallsOf({"createAccount", "createAccounts", "removeAccounts", "selectAccount", "show", "hide"},
                   Wallets)
      \cup CallsOf({"link"}, Wallets \X SeedKeys) \cup CallsOf({"selectSeed"}, Seeds)
      \cup CallsOf({"look", "ensure", "logOut"}, Seeds \cup SeedKeys \cup Wallets \cup {Nobody})
Blocks == Seq(Calls) \ {<<>>}
Pages ==
    [panel : {"none", "seeds", "window", "create"},
     step : {"manageSeeds", "manageSeed", "createSeed", "manageKey", "createKey", "manageAccount",
             "createAccount"},
     local : {"index", "show", "check", "newPassword", "phrase", "importPassword", "ledger", "select",
              "type", "address"},
     seed : Seeds \cup {Nobody}, key : SeedKeys \cup {Nobody}, account : Wallets \cup {Nobody},
     selected : SUBSET SeedKeys, unselected : SUBSET SeedKeys]
Ends == [go : {"stay", "key", "seed", "seeds", "account", "panel", "main"},
         key : SeedKeys \cup {Nobody}, account : Wallets \cup {Nobody}]

(* The types, and that the page of an account, and the end that leads to   *)
(* one, have it.                                                              *)
ManagementTypeOK ==
    /\ stored \in Storage /\ place \in Pages /\ pending \in Seq(Blocks) /\ after \in Ends
    /\ handlers \in Nat /\ strays \subseteq Wallets /\ astray \in BOOLEAN
    /\ place.step = "manageAccount" => place.account \in Wallets
    /\ after.go = "key" => after.key \in SeedKeys
    /\ after.go = "account" => after.account \in Wallets

----------------------------------------------------------------------------
(* Whatever fails, every account has a key that is stored, its own or one   *)
(* it is linked to; but for one that was hidden or of another seed when its  *)
(* key was removed, one of a Ledger, one whose creation failed after the     *)
(* fact, and one that was linked to a key since removed.                      *)
KeysOutliveAccounts ==
    \A w \in stored.entries \ strays : OwnerOf[w] \in stored.keys \/ w \in LinkedTo(stored, stored.keys)

(* Between handlers the selected account is one of those the main page      *)
(* lists for the selected seed, unless it went astray.                        *)
SelectedIsListed ==
    pending = <<>> /\ ~astray =>
        stored.account \in Listed(stored, stored.seed) \cup {Nobody}
=============================================================================
