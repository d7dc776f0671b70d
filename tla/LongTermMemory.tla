--------------------------- MODULE LongTermMemory ---------------------------
(***************************************************************************)
(* The long-term memories of the users: what write_memory extracts from a  *)
(* stored message and upserts, what load_memory puts into the prompt, and  *)
(* the two debug endpoints that list and delete.                           *)
(*                                                                         *)
(* The memories table has no unique constraint on user and key.  Each      *)
(* statement of upsert_memory and delete_memory is a step (READ COMMITTED),*)
(* and an UPDATE writes only the columns that differ from the row that     *)
(* was loaded.  A row is known by its id, its place in the sequence; it is *)
(* written by the message of a request, which stands for                   *)
(* source_message_id, and kind and confidence go with the value.           *)
(***************************************************************************)
EXTENDS Naturals, Sequences, FiniteSets

CONSTANTS
    Users,       \* users with a row in the users table
    NoUser,      \* authentication is disabled and the metadata names no user
    Keys,        \* memory keys
    Values,      \* what a message may say of a key
    Requests,    \* bound: chat requests
    Calls,       \* bound: calls of the debug endpoints
    MaxActive,   \* memory_max_active_items
    AuthEnabled  \* auth_enabled

ASSUME LongTermAssumption ==
    /\ NoUser \notin Users
    /\ MaxActive \in Nat
    /\ AuthEnabled \in BOOLEAN

VARIABLES
    rows,    \* the memories table
    now,     \* the clock: how often utcnow() was called
    pc,      \* the await a chat request stands at
    user,    \* the user it writes and reads for
    facts,   \* what its message states: a value for some of the keys
    due,     \* the keys it has still to upsert
    held,    \* the upsert under way: key, id of the row found, the row, timestamp
    prompt,  \* the ids load_memory listed, with the users they belong to
    call,    \* the calls of the debug endpoints
    overlapped \* history: whether two requests or calls have been at work at once

vars == <<rows, now, pc, user, facts, due, held, prompt, call, overlapped>>
chat == <<pc, user, facts, due, held, prompt>>

Row == [user : Users, key : Keys, value : Values, source : Requests,
        touched : Nat, live : BOOLEAN]
Facts == UNION {[S -> Values] : S \in SUBSET Keys}
NoFacts == [k \in {} |-> k]
Id == 1 .. Len(rows)

NothingHeld == [key |-> "none", id |-> 0, live |-> FALSE, value |-> "none", stamp |-> 0]
Idle == [pc |-> "new", caller |-> NoUser, of |-> NoUser, id |-> 0, stamp |-> 0, shown |-> {}]

WorkingPc == {"recall", "extract", "select", "write"}
Pc == {"new", "done", "skipped", "cut"} \union WorkingPc
CallPc == {"new", "list", "select", "write", "listed", "deleted", "missing", "forbidden", "failed"}

OneAtATime ==
    Cardinality({r \in Requests : pc[r] \in WorkingPc})
        + Cardinality({c \in Calls : call[c].pc \in {"list", "select", "write"}}) <= 1

-----------------------------------------------------------------------------
(* Queries.                                                                *)

\* ORDER BY updated_at DESC, id DESC.
Newer(i, j) ==
    \/ rows[i].touched > rows[j].touched
    \/ rows[i].touched = rows[j].touched /\ i > j

\* Mutant of Found: the row of another user may be found.
FoundAnyUser(u, k) == {i \in Id : rows[i].key = k}

\* Mutant of Found: deleted rows are passed over.
FoundLive(u, k) == {i \in Id : rows[i].user = u /\ rows[i].key = k /\ rows[i].live}

\* Mutant of Found: the key is not compared.
FoundAnyKey(u, k) == {i \in Id : rows[i].user = u}

\* The rows upsert_memory looks at, deleted or not.
Found(u, k) == {i \in Id : rows[i].user = u /\ rows[i].key = k}

\* list_active_memories.
Listed(u) ==
    LET live == {i \in Id : rows[i].user = u /\ rows[i].live}
    IN {i \in live : Cardinality({j \in live : Newer(j, i)}) < MaxActive}

-----------------------------------------------------------------------------
(* A chat request.                                                         *)

\* With authentication the user is the caller; without, the one the metadata names.
Start(r, u) ==
    /\ pc[r] = "new"
    /\ AuthEnabled => u # NoUser
    /\ user' = [user EXCEPT ![r] = u]
    /\ pc' = [pc EXCEPT ![r] = "recall"]
    /\ UNCHANGED <<rows, now, facts, due, held, prompt, call>>

\* prepare_prompt; an error is swallowed and the prompt tells no memory.
Recall(r) ==
    /\ pc[r] = "recall"
    /\ \/ user[r] # NoUser /\ prompt' = [prompt EXCEPT ![r] = Listed(user[r])]
       \/ UNCHANGED prompt
    /\ pc' = [pc EXCEPT ![r] = "extract"]
    /\ UNCHANGED <<rows, now, user, facts, due, held, call>>

\* The request ends; what it held goes with it.
Ends(r, p) ==
    /\ pc' = [pc EXCEPT ![r] = p]
    /\ due' = [due EXCEPT ![r] = {}]
    /\ held' = [held EXCEPT ![r] = NothingHeld]
    /\ prompt' = [prompt EXCEPT ![r] = {}]

\* write_after_persist: the rules and the provider say what the message states.
Extract(r, f) ==
    /\ pc[r] = "extract"
    /\ facts' = [facts EXCEPT ![r] = f]
    /\ IF user[r] = NoUser \/ DOMAIN f = {}
       THEN Ends(r, "done")
       ELSE /\ due' = [due EXCEPT ![r] = DOMAIN f]
            /\ pc' = [pc EXCEPT ![r] = "select"]
            /\ prompt' = [prompt EXCEPT ![r] = {}]
            /\ UNCHANGED held
    /\ UNCHANGED <<rows, now, user, call>>

\* The timestamp is taken, then the newest row of the user and key is read.
SelectRow(r, k) ==
    /\ pc[r] = "select"
    /\ k \in due[r]
    /\ now' = now + 1
    /\ \/ /\ Found(user[r], k) = {}
          /\ held' = [held EXCEPT ![r] =
                [key |-> k, id |-> 0, live |-> FALSE, value |-> "none", stamp |-> now + 1]]
       \/ \E i \in Found(user[r], k) :
             /\ \A j \in Found(user[r], k) : i = j \/ Newer(i, j)
             /\ held' = [held EXCEPT ![r] =
                   [key |-> k, id |-> i, live |-> rows[i].live, value |-> rows[i].value,
                    stamp |-> now + 1]]
    /\ pc' = [pc EXCEPT ![r] = "write"]
    /\ UNCHANGED <<rows, user, facts, due, prompt, call>>

\* Mutant of Updated: the UPDATE writes every column.
UpdatedWhole(r, row) ==
    [row EXCEPT !.value = facts[r][held[r].key], !.source = r,
                !.touched = held[r].stamp, !.live = TRUE]

\* Mutant of Updated: deleted_at is not reset.
UpdatedStaysDeleted(r, row) ==
    [row EXCEPT !.value = facts[r][held[r].key], !.source = r, !.touched = held[r].stamp]

\* The columns that differ from the row that was loaded are written.
Updated(r, row) ==
    [row EXCEPT !.value = IF facts[r][held[r].key] = held[r].value
                          THEN row.value ELSE facts[r][held[r].key],
                !.source = r,
                !.touched = held[r].stamp,
                !.live = IF held[r].live THEN row.live ELSE TRUE]

\* The table after the INSERT or the UPDATE.
Stored(r) ==
    IF held[r].id = 0
    THEN Append(rows, [user |-> user[r], key |-> held[r].key,
                       value |-> facts[r][held[r].key], source |-> r,
                       touched |-> held[r].stamp, live |-> TRUE])
    ELSE [rows EXCEPT ![held[r].id] = Updated(r, @)]

\* The INSERT or UPDATE and its COMMIT; then the next candidate.
WriteRow(r) ==
    /\ pc[r] = "write"
    /\ rows' = Stored(r)
    /\ IF due[r] = {held[r].key}
       THEN Ends(r, "done")
       ELSE /\ due' = [due EXCEPT ![r] = @ \ {held[r].key}]
            /\ held' = [held EXCEPT ![r] = NothingHeld]
            /\ pc' = [pc EXCEPT ![r] = "select"]
            /\ UNCHANGED prompt
    /\ UNCHANGED <<now, user, facts, call>>

\* The refresh of the summary that runs beside the extraction raises, or a statement
\* does: write_memory_node swallows it and the facts still due are dropped.
Skipped(r) ==
    /\ pc[r] \in {"extract", "select", "write"}
    /\ Ends(r, "skipped")
    /\ UNCHANGED <<rows, now, user, facts, call>>

\* The client leaves or the process dies.
Abandon(r) ==
    /\ pc[r] \in WorkingPc
    /\ Ends(r, "cut")
    /\ UNCHANGED <<rows, now, user, facts, call>>

-----------------------------------------------------------------------------
(* The debug endpoints.                                                    *)

\* is_forbidden_owner.
Forbidden(caller, u) == caller # NoUser /\ u # caller

\* GET /users/{user_id}/memories or DELETE /users/{user_id}/memories/{memory_id}.
CallStart(c, caller, u, op, i) ==
    /\ call[c].pc = "new"
    /\ (caller # NoUser) = AuthEnabled
    /\ call' = [call EXCEPT ![c] =
          [pc |-> IF Forbidden(caller, u) THEN "forbidden" ELSE op, caller |-> caller,
           of |-> u, id |-> i, stamp |-> 0, shown |-> {}]]
    /\ UNCHANGED <<rows, now, chat>>

CallList(c) ==
    /\ call[c].pc = "list"
    /\ call' = [call EXCEPT ![c].pc = "listed",
                            ![c].shown = {rows[i].user : i \in Listed(call[c].of)}]
    /\ UNCHANGED <<rows, now, chat>>

\* The row delete_memory selects.
Deletable(u, i) == rows[i].user = u /\ rows[i].live

CallSelect(c) ==
    /\ call[c].pc = "select"
    /\ now' = now + 1
    /\ call' = [call EXCEPT
          ![c].stamp = now + 1,
          ![c].pc = IF call[c].id \in Id /\ Deletable(call[c].of, call[c].id)
                    THEN "write" ELSE "missing"]
    /\ UNCHANGED <<rows, chat>>

CallWrite(c) ==
    /\ call[c].pc = "write"
    /\ rows' = [rows EXCEPT ![call[c].id] =
                   [@ EXCEPT !.live = FALSE, !.touched = call[c].stamp]]
    /\ call' = [call EXCEPT ![c].pc = "deleted"]
    /\ UNCHANGED <<now, chat>>

\* A statement raises: the call is answered 500 and nothing is written.
CallFails(c) ==
    /\ call[c].pc \in {"list", "select", "write"}
    /\ call' = [call EXCEPT ![c].pc = "failed"]
    /\ UNCHANGED <<rows, now, chat>>

Init ==
    /\ rows = <<>>
    /\ now = 0
    /\ pc = [r \in Requests |-> "new"]
    /\ user = [r \in Requests |-> NoUser]
    /\ facts = [r \in Requests |-> NoFacts]
    /\ due = [r \in Requests |-> {}]
    /\ held = [r \in Requests |-> NothingHeld]
    /\ prompt = [r \in Requests |-> {}]
    /\ call = [c \in Calls |-> Idle]
    /\ overlapped = FALSE

Chats(r) ==
    \/ \E u \in Users \union {NoUser} : Start(r, u)
    \/ Recall(r)
    \/ \E f \in Facts : Extract(r, f)
    \/ \E k \in Keys : SelectRow(r, k)
    \/ WriteRow(r) \/ Skipped(r) \/ Abandon(r)

Answers(c) ==
    \/ \E caller \in Users \union {NoUser}, u \in Users :
          \/ CallStart(c, caller, u, "list", 0)
          \/ \E i \in Id \union {0} : CallStart(c, caller, u, "select", i)
    \/ CallList(c) \/ CallSelect(c) \/ CallWrite(c) \/ CallFails(c)

Next ==
    /\ (\E r \in Requests : Chats(r)) \/ (\E c \in Calls : Answers(c))
    /\ overlapped' = (overlapped \/ ~ OneAtATime')

Spec == Init /\ [][Next]_vars

-----------------------------------------------------------------------------
MemoryTypes ==
    /\ rows \in Seq(Row)
    /\ now \in Nat
    /\ pc \in [Requests -> Pc]
    /\ user \in [Requests -> Users \union {NoUser}]
    /\ facts \in [Requests -> Facts]
    /\ due \in [Requests -> SUBSET Keys]
    /\ held \in [Requests -> [key : Keys \union {"none"}, id : Nat, live : BOOLEAN,
                              value : Values \union {"none"}, stamp : Nat]]
    /\ prompt \in [Requests -> SUBSET Nat]
    /\ call \in [Calls -> [pc : CallPc, caller : Users \union {NoUser},
                           of : Users \union {NoUser}, id : Nat, stamp : Nat,
                           shown : SUBSET Users]]

TypeOK == MemoryTypes /\ overlapped \in BOOLEAN

\* However requests and calls overlap, a memory is written by messages of its own user
\* only, recalled in requests of its user only, and listed or deleted, once there is
\* authentication, by its user only.
OwnMemories ==
    /\ \A i \in Id : rows[i].user = user[rows[i].source]
    /\ \A r \in Requests : \A i \in prompt[r] : rows[i].user = user[r]
    /\ \A c \in Calls :
          /\ call[c].shown \subseteq {call[c].of}
          /\ call[c].pc \in {"listed", "write", "deleted"} /\ AuthEnabled =>
                call[c].of = call[c].caller

\* However writes of one memory overlap, its value is one that a message of its user
\* stated for that very key: the columns two UPDATEs leave behind never make up a
\* fact nobody stated.
ValueStated ==
    \A i \in Id : \E r \in Requests :
        /\ user[r] = rows[i].user
        /\ rows[i].key \in DOMAIN facts[r]
        /\ facts[r][rows[i].key] = rows[i].value

\* A deletion is not undone by a write that was under way: only an upsert that found
\* the memory deleted brings it back.
DeletionWins ==
    [][\A i \in Id : ~rows[i].live /\ rows'[i].live =>
          \E r \in Requests : held[r].id = i /\ ~held[r].live]_vars

\* As long as requests and calls follow one another, a user has one memory per key,
\* deleted or not.
OneRowPerKey ==
    ~ overlapped => \A i, j \in Id :
        rows[i].user = rows[j].user /\ rows[i].key = rows[j].key => i = j

\* As long as requests and calls follow one another, a request that is done has every
\* fact of its message in a live memory, those included that were deleted before.
FactsRemembered ==
    [][~ overlapped => \A r \in Requests : pc[r] = "write" /\ pc'[r] = "done" =>
          \A k \in DOMAIN facts[r] : \E i \in 1 .. Len(rows') :
              rows'[i] = [rows'[i] EXCEPT !.user = user[r], !.key = k, !.source = r,
                                          !.value = facts[r][k], !.live = TRUE]]_vars
=============================================================================
