---------------------------- MODULE KeyringStore ----------------------------
(***************************************************************************)
(* The keyring store (internal/secrets/store.go).  A token of the default  *)
(* client lives under two keys, its own and the one older versions read,   *)
(* and an operation writes them one after the other: it may stop between,  *)
(* and a keyring that reports an error may have made the change.  Any      *)
(* error reading the first key falls back to the second, and copies it     *)
(* over the first.  Operations do not overlap: the token store above runs  *)
(* them on one worker, in order (TokenStore).                              *)
(***************************************************************************)
EXTENDS Naturals, Sequences, FiniteSets, GoMaps

CONSTANTS
    KeyringClients, DefaultClient,   \* OAuth client names
    KeyringEmails, KeyringTokens,
    Corrupt,                         \* an item that is not a stored token
    MaxKeys                          \* bound: the keys that operations fill

Absent == "absent"                           \* no item

ASSUME DefaultClientAssumption ==
    /\ DefaultClient \in KeyringClients /\ MaxKeys \in Nat
    /\ Absent \notin KeyringTokens \cup KeyringEmails \cup {Corrupt}

VARIABLES
    opening,      \* how the keyring was opened: closed, refused, opened, ready
    ring,         \* the keyring: key -> item
    possible,     \* what each slot may hold, after what was answered to its writers
    answers       \* what the last operation read: a set of answers

keyringVars == <<opening, ring, possible, answers>>

(***************************************************************************)
(* Opening                                                                 *)
(***************************************************************************)

NotSet == ""                                 \* a setting that is not given
Backends == {"keychain", "secret-service", "file"}   \* those the library may have
Modes == {"interactive", "unattended", "noInput", "inspect"}

\* ResolveKeyringBackendInfo: the environment, then the configuration, then auto
BackendName(env) ==
    IF env.backend # NotSet THEN env.backend ELSE IF env.configured # NotSet THEN env.configured ELSE "auto"

ForcesFile(env) == env.linux /\ BackendName(env) = "auto" /\ ~env.dbus

\* {} stands for no restriction, as in the library
AllowedBackends(env) ==
    IF BackendName(env) = "auto" THEN (IF ForcesFile(env) THEN {"file"} ELSE {}) ELSE {BackendName(env)}

WithoutFile(allowed) == (IF allowed = {} THEN Backends ELSE allowed) \ {"file"}

\* an unset password is asked for on a terminal; a set one is used, empty or not,
\* but an unattended opening takes an empty one for none
Prompt(mode, env) ==
    IF mode = "unattended"
    THEN IF env.password = "set" THEN "fixed" ELSE "refuses"
    ELSE IF env.password # "unset" THEN "fixed" ELSE IF env.tty THEN "terminal" ELSE "refuses"

Opened(mode, ok, backends, prompt, timed, found) ==
    [mode |-> mode, ok |-> ok, backends |-> backends, prompt |-> prompt, timed |-> timed, found |-> found]
Closed == Opened("closed", FALSE, {}, "refuses", FALSE, FALSE)
Ready  == [Closed EXCEPT !.mode = "ready"]

\* what is handed to the library, if nothing refuses before; found tells whether
\* the directory is there, which only an inspection does not create
OpenKeyring(mode, env) ==
    LET readOnly == mode = "inspect"
        allowed  == IF readOnly /\ ~env.directory THEN WithoutFile(AllowedBackends(env))
                    ELSE AllowedBackends(env)
    IN  IF BackendName(env) \notin {"auto", "keychain", "file"}
        \/ (readOnly /\ ~env.directory /\ allowed = {})
        \/ (mode = "noInput" /\ (BackendName(env) = "file" \/ ForcesFile(env)) /\ env.password # "set")
        THEN [Closed EXCEPT !.mode = mode]
        ELSE Opened(mode, TRUE, allowed, Prompt(mode, env),
                    mode = "unattended" \/ (env.linux /\ BackendName(env) = "auto" /\ env.dbus),
                    env.directory \/ ~readOnly)

Environments ==
    [backend : {NotSet, "auto", "file", "bogus"}, configured : {NotSet, "keychain", "file"}, linux : BOOLEAN,
     dbus : BOOLEAN, directory : BOOLEAN, password : {"unset", "empty", "set"}, tty : BOOLEAN]

(***************************************************************************)
(* Keys                                                                    *)
(***************************************************************************)

TokenKey(c, e)   == <<"token", c, e>>
LegacyKey(e)     == <<"token", e>>
AccountKey(c)    == <<"default_account", c>>
GlobalAccountKey == <<"default_account">>

\* ParseTokenKey: both keys of a token name the same client and address
Parsed(key) == IF Len(key) = 3 THEN <<key[2], key[3]>> ELSE <<DefaultClient, key[2]>>
IsTokenKey(key) == key[1] = "token"
Listed(r) == {Parsed(k) : k \in {x \in DOMAIN r : IsTokenKey(x)}}

\* one write or removal: done, failed without effect, or failed after it
Writes(r, k, v) ==
    LET after == IF v = Absent THEN DropKey(r, k) ELSE SetKey(r, k, v)
    IN  {[ok |-> TRUE, ring |-> after], [ok |-> FALSE, ring |-> r], [ok |-> FALSE, ring |-> after]}

\* the first key, and the second only once the first is done
WritesBoth(r, k1, k2, v) ==
    UNION {IF first.ok THEN Writes(first.ring, k2, v) ELSE {first} : first \in Writes(r, k1, v)}

\* fault seeded in TokenWrites: the key older versions read is left behind
OwnKeyOnly(r, c, e, v) == Writes(r, TokenKey(c, e), v)

TokenWrites(r, c, e, v) ==
    IF c = DefaultClient THEN WritesBoth(r, TokenKey(c, e), LegacyKey(e), v)
                         ELSE Writes(r, TokenKey(c, e), v)

(***************************************************************************)
(* Reading                                                                 *)
(***************************************************************************)

Read(kind, item, r) == [kind |-> kind, item |-> item, ring |-> r]
Decoded(item, r) == IF item = Corrupt THEN Read("error", Absent, r) ELSE Read("found", item, r)

\* the answer of GetToken and the keyring it leaves.  A key that is there may
\* still fail to be read; without the first key the answer is "not found" even
\* when it is the second that could not be read
TokenReads(r, c, e, migrates) ==
    LET own == TokenKey(c, e)
        old == LegacyKey(e)
    IN  (IF own \in DOMAIN r THEN {Decoded(r[own], r), Read("error", Absent, r)} ELSE {Read("none", Absent, r)})
        \cup (IF c # DefaultClient \/ old \notin DOMAIN r THEN {}
              ELSE IF ~migrates THEN {Decoded(r[old], r), Read("error", Absent, r)}
              ELSE {IF w.ok THEN Decoded(r[old], w.ring) ELSE Read("error", Absent, w.ring)
                    : w \in Writes(r, own, r[old])})

Slot(c, e) == <<"token", c, e>>
Answer(slot, read) == [slot |-> slot, kind |-> read.kind, item |-> read.item]

(***************************************************************************)
(* Operations                                                              *)
(***************************************************************************)

Wrote(slots, w, v) ==
    /\ Cardinality(DOMAIN w.ring) <= MaxKeys
    /\ ring' = w.ring
    /\ possible' = [s \in DOMAIN possible |->
            IF s \notin slots THEN possible[s] ELSE IF w.ok THEN {v} ELSE possible[s] \cup {v}]
    /\ answers' = {}
    /\ UNCHANGED opening

SetToken(c, e, t) == \E w \in TokenWrites(ring, c, e, t) : Wrote({Slot(c, e)}, w, t)

DeleteToken(c, e) == \E w \in TokenWrites(ring, c, e, Absent) : Wrote({Slot(c, e)}, w, Absent)

\* a completed copy leaves both keys with the token that was read
GetToken(c, e) ==
    /\ \E x \in TokenReads(ring, c, e, TRUE) :
          /\ ring' = x.ring
          /\ answers' = {Answer(Slot(c, e), x)}
    /\ UNCHANGED <<opening, possible>>

\* ListTokens reads in the order of the keys, copying as it goes, up to the first error
ListTokens ==
    /\ \E done \in SUBSET Listed(ring) :
          /\ \E reads \in [done -> UNION {TokenReads(ring, id[1], id[2], TRUE) : id \in done}] :
                /\ \A id \in done : reads[id] \in TokenReads(ring, id[1], id[2], TRUE) /\ reads[id].kind = "found"
                /\ ring' = [k \in (UNION {DOMAIN reads[id].ring : id \in done}) \cup DOMAIN ring |->
                              IF \E id \in done : k = TokenKey(id[1], id[2])
                              THEN LET id == CHOOSE id \in done : k = TokenKey(id[1], id[2])
                                   IN  reads[id].ring[k]
                              ELSE ring[k]]
                /\ answers' = IF done = Listed(ring)
                              THEN {Answer(Slot(id[1], id[2]), reads[id]) : id \in done} ELSE {}
    /\ UNCHANGED <<opening, possible>>

\* InspectTokens copies nothing and reports each error with its entry
InspectTokens ==
    /\ \E reads \in [Listed(ring) -> UNION {TokenReads(ring, id[1], id[2], FALSE) : id \in Listed(ring)}] :
          /\ \A id \in Listed(ring) : reads[id] \in TokenReads(ring, id[1], id[2], FALSE)
          /\ answers' = {Answer(Slot(id[1], id[2]), reads[id]) : id \in Listed(ring)}
    /\ UNCHANGED <<opening, ring, possible>>

SetDefaultAccount(c, e) ==
    \E w \in WritesBoth(ring, AccountKey(c), GlobalAccountKey, e) :
        Wrote({AccountKey(c), GlobalAccountKey}, w, e)

\* the client's own account, and the one set last when it has none
GetDefaultAccount(c) ==
    LET k == IF AccountKey(c) \in DOMAIN ring THEN AccountKey(c) ELSE GlobalAccountKey
    IN  /\ answers' = {[slot |-> k, kind |-> IF k \in DOMAIN ring THEN "found" ELSE "none",
                        item |-> IF k \in DOMAIN ring THEN ring[k] ELSE Absent]}
        /\ UNCHANGED <<opening, ring, possible>>

\* only an unattended opening that the library answered in time serves
OpenStore(mode, env) ==
    /\ opening = Closed
    /\ opening' = OpenKeyring(mode, env)
    /\ UNCHANGED <<ring, possible, answers>>

StartStore ==
    /\ opening.mode = "unattended" /\ opening.ok
    /\ opening' = Ready
    /\ UNCHANGED <<ring, possible, answers>>

AccountKeys == {AccountKey(c) : c \in KeyringClients} \cup {GlobalAccountKey}

\* a keyring an older version used holds a token under the second key only, which
\* reads as absent while that key cannot be read
KeyringInit ==
    /\ opening = Closed
    /\ ring \in {EmptyMap} \cup {[k \in {LegacyKey(e)} |-> v] :
                                   e \in KeyringEmails, v \in KeyringTokens \cup {Corrupt}}
    /\ possible = [s \in {Slot(c, e) : c \in KeyringClients, e \in KeyringEmails} \cup AccountKeys |->
            {Absent} \cup {ring[k] : k \in {x \in DOMAIN ring : s = Slot(DefaultClient, x[2])}}]
    /\ answers = {}

KeyringNext ==
    \/ \E mode \in Modes, env \in Environments : OpenStore(mode, env)
    \/ StartStore
    \/ /\ opening = Ready
       /\ \/ \E c \in KeyringClients, e \in KeyringEmails :
               \/ \E t \in KeyringTokens : SetToken(c, e, t)
               \/ DeleteToken(c, e)
               \/ GetToken(c, e)
               \/ SetDefaultAccount(c, e)
          \/ \E c \in KeyringClients : GetDefaultAccount(c)
          \/ ListTokens
          \/ InspectTokens

(***************************************************************************)
(* Properties                                                              *)
(***************************************************************************)

\* What is read is what the last completed write or delete left, or what one
\* that failed since may have left, whichever key it was read from.
AnswersStand ==
    \A a \in answers :
        /\ a.kind = "found" => a.item \in possible[a.slot]
        /\ a.kind = "none"  => Absent \in possible[a.slot]

\* The server's opening never asks on a terminal and is always bounded; an
\* inspection never makes a keyring file; --no-input never opens the file
\* alone without its password.
OpenedAsAsked ==
    opening.ok =>
        /\ opening.mode = "unattended" => opening.prompt # "terminal" /\ opening.timed
        /\ opening.mode = "inspect" /\ ~opening.found => opening.backends # {} /\ "file" \notin opening.backends
        /\ opening.mode = "noInput" /\ opening.backends = {"file"} => opening.prompt = "fixed"

\* Both of the above (store.go:418 SetToken, :466 GetToken, :511 DeleteToken,
\* :195 openKeyringAt).
KeyringKept == AnswersStand /\ OpenedAsAsked
=============================================================================
