---------------------------- MODULE AccessControl ----------------------------
(***************************************************************************)
(* Who is let in, and to what: the users and API keys that the             *)
(* create_api_key command stores, the lookup of a key by                   *)
(* get_authenticated_user with its throttled write of last_used_at, and    *)
(* the endpoints that read rows of a conversation or a document for their  *)
(* owner.  (LongTermMemory models the endpoints of the memories.)          *)
(*                                                                         *)
(* Each statement is a step (READ COMMITTED).  An UPDATE writes the        *)
(* columns that were assigned, here last_used_at alone, and fails when its *)
(* row is gone.  An API key stands for its hash; keys are revoked, and     *)
(* users removed, by hand: users own conversations and documents ON DELETE *)
(* SET NULL and keys ON DELETE CASCADE.                                    *)
(*                                                                         *)
(* Bounds: MaxClock of time; MaxStall from the moment a request reads the  *)
(* clock until its write of last_used_at is committed.                     *)
(***************************************************************************)
EXTENDS Naturals

CONSTANTS
    Users,
    NoOne,         \* no owner, and the caller while authentication is disabled
    ApiKeys,
    Things,        \* conversations and documents
    Calls,         \* bound: requests
    AuthEnabled,   \* auth_enabled
    Throttle,      \* API_KEY_LAST_USED_THROTTLE
    MaxStall,
    MaxClock

ASSUME AccessAssumption ==
    /\ NoOne \notin Users
    /\ "absent" \notin Users \union {NoOne}
    /\ AuthEnabled \in BOOLEAN
    /\ Throttle \in Nat
    /\ MaxStall \in Nat
    /\ MaxClock \in Nat

VARIABLES
    users,     \* the users table
    apiKeys,   \* the api_keys table
    mint,      \* the create_api_key command that is to print a key
    owner,     \* owner_user_id of a thing that exists
    creator,   \* history: who created a thing
    clock,     \* utcnow(), from 1 on
    lastAuth,  \* history: the last time a key was let in
    call       \* the requests

accessVars == <<users, apiKeys, mint, owner, creator, clock, lastAuth, call>>
tables == <<users, apiKeys, owner, creator>>

\* last_used_at is 0 for NULL.  A key that is not stored is what anyone may make up.
KeyRow == [user : Users \union {NoOne}, state : {"none", "live", "revoked", "gone"}, lastUsed : Nat]
NoKey == [user |-> NoOne, state |-> "none", lastUsed |-> 0]
Stored(k) == apiKeys[k].state \in {"live", "revoked"}
Exists(x) == owner[x] # "absent"

Mint == [pc : {"new", "user", "key", "print", "printed", "failed"}, user : Users \union {NoOne},
         known : BOOLEAN]
NoMint == [pc |-> "new", user |-> NoOne, known |-> FALSE]

\* late: history, whether the key was revoked or gone when the request came.
Kind == {"tool_runs", "summary", "document"}
NoCall == [pc |-> "new", key |-> "none", loaded |-> 0, stamp |-> 0, caller |-> NoOne,
           kind |-> "tool_runs", of |-> "none", shown |-> FALSE, late |-> FALSE]
CallPc == {"new", "lookup", "judge", "touch", "check", "recheck", "rows", "confirm",
           "answered", "unauthorized", "missing", "failed"}
Call == [pc : CallPc, key : ApiKeys \union {"none"}, loaded : Nat, stamp : Nat,
         caller : Users \union {NoOne}, kind : Kind, of : Things \union {"none"},
         shown : BOOLEAN, late : BOOLEAN]

Moves(c, p) == call' = [call EXCEPT ![c].pc = p]

\* Without an answer that shows anything; what the request held goes with it.
Ends(c, p) == call' = [call EXCEPT ![c] = [NoCall EXCEPT !.pc = p]]

-----------------------------------------------------------------------------
(* The create_api_key command: two transactions, then the key is printed.  *)

\* upsert_user looks the user up.
MintBegins(k, u) ==
    /\ mint[k].pc = "new"
    /\ mint' = [mint EXCEPT ![k] = [pc |-> "user", user |-> u, known |-> u \in users]]
    /\ UNCHANGED <<tables, clock, lastAuth, call>>

\* It inserts or updates the row it found none or one of, and commits.
MintUser(k) ==
    /\ mint[k].pc = "user"
    /\ mint[k].known <=> mint[k].user \in users
    /\ users' = users \union {mint[k].user}
    /\ mint' = [mint EXCEPT ![k].pc = "key"]
    /\ UNCHANGED <<apiKeys, owner, creator, clock, lastAuth, call>>

\* create_api_key, for a user that exists.
StoresKey(k) ==
    /\ mint[k].pc = "key"
    /\ mint[k].user \in users
    /\ apiKeys' = [apiKeys EXCEPT
                     ![k] = [user |-> mint[k].user, state |-> "live", lastUsed |-> 0]]
    /\ UNCHANGED <<users, owner, creator, clock, lastAuth, call>>

MintKey(k) == StoresKey(k) /\ mint' = [mint EXCEPT ![k].pc = "print"]

\* The answer to the commit is lost: the key is stored, and nobody is told.
MintKeyUntold(k) == StoresKey(k) /\ mint' = [mint EXCEPT ![k].pc = "failed"]

MintPrints(k) ==
    /\ mint[k].pc = "print"
    /\ mint' = [mint EXCEPT ![k].pc = "printed"]
    /\ UNCHANGED <<tables, clock, lastAuth, call>>

\* Another run inserted or someone removed the user, the database fails, the command dies.
MintFails(k) ==
    /\ mint[k].pc \in {"user", "key", "print"}
    /\ mint' = [mint EXCEPT ![k].pc = "failed"]
    /\ UNCHANGED <<tables, clock, lastAuth, call>>

-----------------------------------------------------------------------------
(* get_authenticated_user.                                                 *)

\* Without authentication no key is looked up, and everyone sees everything; with it, a
\* request brings a key that was printed,
Arrives(c, k, kind, x) ==
    /\ call[c].pc = "new"
    /\ AuthEnabled => mint[k].pc = "printed"
    /\ call' = [call EXCEPT ![c] =
                  [NoCall EXCEPT !.pc = IF AuthEnabled THEN "lookup" ELSE "check",
                                 !.key = k, !.kind = kind, !.of = x,
                                 !.late = apiKeys[k].state # "live"]]
    /\ UNCHANGED <<tables, mint, clock, lastAuth>>

\* or none, or one that is not stored.
ArrivesUnknown(c) ==
    /\ call[c].pc = "new"
    /\ AuthEnabled
    /\ Ends(c, "unauthorized")
    /\ UNCHANGED <<tables, mint, clock, lastAuth>>

\* The row authenticate_api_key selects: of a key that is not revoked, with its user.
Valid(k) == apiKeys[k].state = "live" /\ apiKeys[k].user \in users

Lookup(c) ==
    /\ call[c].pc = "lookup"
    /\ IF Valid(call[c].key)
       THEN call' = [call EXCEPT ![c].pc = "judge",
                                 ![c].loaded = apiKeys[call[c].key].lastUsed,
                                 ![c].caller = apiKeys[call[c].key].user]
       ELSE Ends(c, "unauthorized")
    /\ UNCHANGED <<tables, mint, clock, lastAuth>>

\* Mutant of Recent: the throttle is taken twice.
RecentTwice(loaded) == loaded # 0 /\ clock <= loaded + 2 * Throttle

\* last_used_at as it was loaded is not older than the throttle.
Recent(loaded) == loaded # 0 /\ clock <= loaded + Throttle

LetIn(k, t) == lastAuth' = [lastAuth EXCEPT ![k] = IF t > @ THEN t ELSE @]

\* The row has come: the clock is read, and the write decided on.
Judge(c) ==
    /\ call[c].pc = "judge"
    /\ IF Recent(call[c].loaded)
       THEN /\ call' = [call EXCEPT ![c].pc = "check", ![c].loaded = 0]
            /\ LetIn(call[c].key, clock)
       ELSE /\ call' = [call EXCEPT ![c].pc = "touch", ![c].loaded = 0, ![c].stamp = clock]
            /\ UNCHANGED lastAuth
    /\ UNCHANGED <<tables, mint, clock>>

\* Mutant of Touched: the row is written back as it was loaded.
TouchedWhole(c) ==
    [user |-> call[c].caller, state |-> "live", lastUsed |-> call[c].stamp]

\* The row after UPDATE api_keys SET last_used_at.
Touched(c) == [apiKeys[call[c].key] EXCEPT !.lastUsed = call[c].stamp]

Touch(c) ==
    LET k == call[c].key
    IN  /\ call[c].pc = "touch"
        /\ Stored(k)
        /\ apiKeys' = [apiKeys EXCEPT ![k] = Touched(c)]
        /\ LetIn(k, call[c].stamp)
        /\ call' = [call EXCEPT ![c].pc = "check", ![c].stamp = 0]
        /\ UNCHANGED <<users, mint, owner, creator, clock>>

\* A statement fails; the UPDATE also when its row is gone.
CallFails(c) ==
    /\ call[c].pc \in {"lookup", "touch", "check", "recheck", "rows", "confirm"}
    /\ Ends(c, "failed")
    /\ UNCHANGED <<tables, mint, clock, lastAuth>>

-----------------------------------------------------------------------------
(* The endpoints.                                                          *)

\* Mutant of Visible: the owner is not compared.
VisibleToAll(c) == Exists(call[c].of)

\* conversation_exists, and get_document.
Visible(c) ==
    /\ Exists(call[c].of)
    /\ call[c].caller # NoOne => owner[call[c].of] = call[c].caller

\* 404 for what does not exist or is another's.
Check(c) ==
    /\ call[c].pc = "check"
    /\ IF ~Visible(c) THEN Ends(c, "missing")
       ELSE Moves(c, IF call[c].kind = "summary" THEN "rows" ELSE "recheck")
    /\ UNCHANGED <<tables, mint, clock, lastAuth>>

\* list_tool_runs and count_document_chunks select the owner once more, since nothing keeps
\* the row that was checked loaded; what has changed hands has no rows.
Recheck(c) ==
    /\ call[c].pc = "recheck"
    /\ IF Visible(c) THEN Moves(c, "rows") ELSE Ends(c, "answered")
    /\ UNCHANGED <<tables, mint, clock, lastAuth>>

\* The rows, by the id alone; a summary there may be or not.
ReadRows(c) ==
    /\ call[c].pc = "rows"
    /\ \/ /\ call[c].kind # "summary"
          /\ call' = [call EXCEPT ![c].pc = "answered", ![c].shown = TRUE]
       \/ call[c].kind = "summary" /\ Moves(c, "confirm")
       \/ call[c].kind = "summary" /\ Ends(c, "answered")
    /\ UNCHANGED <<tables, mint, clock, lastAuth>>

\* get_conversation_summary looks at the owner once it has the summary.
Confirm(c) ==
    /\ call[c].pc = "confirm"
    /\ call' = [call EXCEPT ![c].pc = "answered", ![c].shown = Visible(c)]
    /\ UNCHANGED <<tables, mint, clock, lastAuth>>

-----------------------------------------------------------------------------
(* What goes on beside the requests.                                       *)

\* A chat or an upload, see ChatWorkflow and DocumentPipeline.
Create(x, u) ==
    /\ ~Exists(x)
    /\ IF AuthEnabled THEN u \in users ELSE u = NoOne
    /\ owner' = [owner EXCEPT ![x] = u]
    /\ creator' = [creator EXCEPT ![x] = u]
    /\ UNCHANGED <<users, apiKeys, mint, clock, lastAuth, call>>

Revoke(k) ==
    /\ apiKeys[k].state = "live"
    /\ apiKeys' = [apiKeys EXCEPT ![k].state = "revoked"]
    /\ UNCHANGED <<users, mint, owner, creator, clock, lastAuth, call>>

RemoveUser(u) ==
    /\ u \in users
    /\ users' = users \ {u}
    /\ apiKeys' = [k \in ApiKeys |-> IF Stored(k) /\ apiKeys[k].user = u
                                     THEN [apiKeys[k] EXCEPT !.state = "gone"] ELSE apiKeys[k]]
    /\ owner' = [x \in Things |-> IF owner[x] = u THEN NoOne ELSE owner[x]]
    /\ UNCHANGED <<mint, creator, clock, lastAuth, call>>

ClockTicks ==
    /\ clock < MaxClock
    /\ \A c \in Calls : call[c].pc = "touch" => clock < call[c].stamp + MaxStall
    /\ clock' = clock + 1
    /\ UNCHANGED <<tables, mint, lastAuth, call>>

AccessInit ==
    /\ users = {}
    /\ apiKeys = [k \in ApiKeys |-> NoKey]
    /\ mint = [k \in ApiKeys |-> NoMint]
    /\ owner = [x \in Things |-> "absent"]
    /\ creator = [x \in Things |-> NoOne]
    /\ clock = 1
    /\ lastAuth = [k \in ApiKeys |-> 0]
    /\ call = [c \in Calls |-> NoCall]

Mints(k) ==
    \/ \E u \in Users : MintBegins(k, u)
    \/ MintUser(k) \/ MintKey(k) \/ MintKeyUntold(k) \/ MintPrints(k) \/ MintFails(k)

Serves(c) ==
    \/ \E k \in ApiKeys, kind \in Kind, x \in Things : Arrives(c, k, kind, x)
    \/ ArrivesUnknown(c)
    \/ Lookup(c) \/ Judge(c) \/ Touch(c) \/ CallFails(c)
    \/ Check(c) \/ Recheck(c) \/ ReadRows(c) \/ Confirm(c)

AccessNext ==
    \/ \E k \in ApiKeys : Mints(k) \/ Revoke(k)
    \/ \E c \in Calls : Serves(c)
    \/ \E x \in Things, u \in Users \union {NoOne} : Create(x, u)
    \/ \E u \in Users : RemoveUser(u)
    \/ ClockTicks

AccessSpec == AccessInit /\ [][AccessNext]_accessVars

-----------------------------------------------------------------------------
AccessTypeOK ==
    /\ users \subseteq Users
    /\ apiKeys \in [ApiKeys -> KeyRow]
    /\ mint \in [ApiKeys -> Mint]
    /\ \A k \in ApiKeys : mint[k].pc # "new" => mint[k].user \in Users
    /\ owner \in [Things -> Users \union {NoOne, "absent"}]
    /\ creator \in [Things -> Users \union {NoOne}]
    /\ clock \in Nat \ {0}
    /\ lastAuth \in [ApiKeys -> Nat]
    /\ call \in [Calls -> Call]

\* With authentication, whoever is shown the rows of a conversation or a document came
\* with a key that was good when the request came, and the key is one of the user who
\* created the thing, although the key may be revoked, the user removed and the thing
\* lose its owner between the statements of the request.
OwnRowsOnly ==
    AuthEnabled =>
        \A c \in Calls : call[c].shown =>
            ~call[c].late /\ creator[call[c].of] = apiKeys[call[c].key].user

\* A key that is revoked stays so, whatever requests that looked it up before still write.
RevocationStays ==
    [][\A k \in ApiKeys :
          apiKeys[k].state \in {"revoked", "gone"} => apiKeys'[k].state \in {apiKeys[k].state, "gone"}
      ]_accessVars

\* last_used_at lags behind the last request let in by no more than the throttle and the
\* longest stall, although requests write it in any order and judge by an old value.
LastUsedFresh ==
    \A k \in ApiKeys :
        Stored(k) => lastAuth[k] <= apiKeys[k].lastUsed + Throttle + MaxStall
=============================================================================
