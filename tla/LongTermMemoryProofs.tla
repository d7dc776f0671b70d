------------------------ MODULE LongTermMemoryProofs ------------------------
(***************************************************************************)
(* What holds of the long-term memories for any number of users, keys,     *)
(* overlapping requests and overlapping calls.                             *)
(*                                                                         *)
(* The strengthening says what a request holds between its statements: the *)
(* row it found is still one of its user and key, whatever others did to   *)
(* it, and a message is fixed once its facts are extracted.                *)
(*                                                                         *)
(* The last part is about those that follow one another: what an upsert    *)
(* found is then all the table holds of its key when it writes.            *)
(***************************************************************************)
EXTENDS LongTermMemory, FiniteSetTheorems, TLAPS

Silent == {"new", "recall", "extract"}

\* What a message stated is fixed before anything of it is written.
Spoken ==
    \A r \in Requests :
        /\ pc[r] \in Silent => DOMAIN facts[r] = {}
        /\ pc[r] = "new" => prompt[r] = {}
        /\ due[r] \subseteq DOMAIN facts[r]
        /\ pc[r] \in {"select", "write"} => user[r] \in Users
        /\ pc[r] = "write" => held[r].key \in DOMAIN facts[r]

\* The row an upsert found is still there and still one of its user and key.
HeldStands ==
    \A r \in Requests : pc[r] = "write" /\ held[r].id # 0 =>
        /\ held[r].id \in Id
        /\ rows[held[r].id].user = user[r]
        /\ rows[held[r].id].key = held[r].key

\* Rows come from messages that were stored.
RowsSpoken == \A i \in Id : pc[rows[i].source] \notin Silent

PromptsStand == \A r \in Requests : prompt[r] \subseteq Id

CallsStand ==
    \A c \in Calls :
        /\ call[c].pc = "write" => call[c].id \in Id
        /\ AuthEnabled /\ call[c].pc \notin {"new", "forbidden"} =>
              call[c].of = call[c].caller

IInv ==
    /\ MemoryTypes
    /\ Spoken
    /\ HeldStands
    /\ RowsSpoken
    /\ PromptsStand
    /\ CallsStand
    /\ OwnMemories
    /\ ValueStated

-----------------------------------------------------------------------------
\* The facts of a message: values for some of the keys.
LEMMA FactsAre ==
    ASSUME NEW f \in Facts
    PROVE  DOMAIN f \subseteq Keys /\ \A k \in DOMAIN f : f[k] \in Values
BY DEF Facts

\* A message may state none.
LEMMA NoFactsAre == NoFacts \in Facts /\ DOMAIN NoFacts = {}
<1>1. NoFacts \in [{} -> Values]
  BY DEF NoFacts
<1>2. {} \in SUBSET Keys
  OBVIOUS
<1> QED
  BY <1>1, <1>2 DEF Facts, NoFacts

\* What is listed for a user is the user's.
LEMMA ListedOwn ==
    ASSUME NEW u, NEW i \in Listed(u)
    PROVE  i \in Id /\ rows[i].user = u
BY DEF Listed

\* So is what an upsert finds.
LEMMA FoundOwn ==
    ASSUME NEW u, NEW k, NEW i \in Found(u, k)
    PROVE  i \in Id /\ rows[i].user = u /\ rows[i].key = k
BY DEF Found

\* The table is empty.
LEMMA InitIInv == Init => IInv
<1> SUFFICES ASSUME Init PROVE IInv
  OBVIOUS
<1>1. rows \in Seq(Row) /\ Len(rows) = 0 /\ Id = {}
  BY DEF Init, Id
<1>2. MemoryTypes
  BY <1>1, NoFactsAre DEF Init, MemoryTypes, Pc, NothingHeld, Idle, CallPc
<1> QED
  BY <1>1, <1>2, NoFactsAre
     DEF Init, IInv, Spoken, HeldStands, RowsSpoken, PromptsStand, CallsStand, OwnMemories,
         ValueStated, Idle, NothingHeld

-----------------------------------------------------------------------------
(* The steps of a chat request.                                            *)

\* A row by its id.
LEMMA RowTyped ==
    ASSUME MemoryTypes, NEW i \in Id
    PROVE  rows[i] \in Row
BY DEF MemoryTypes, Id

\* One lemma per action of a request: it starts,
LEMMA StartKeeps ==
    ASSUME IInv, NEW r \in Requests, NEW u \in Users \union {NoUser}, Start(r, u)
    PROVE  IInv'
<1> USE DEF IInv
<1>0. /\ \A i \in Id : rows[i].source \in Requests /\ rows[i].source # r
      /\ prompt[r] = {} /\ DOMAIN facts[r] = {} /\ pc[r] = "new"
      /\ \A q \in Requests : q # r => user'[q] = user[q]
      /\ UNCHANGED <<rows, prompt, facts, call>>
  BY RowTyped DEF Start, MemoryTypes, RowsSpoken, Spoken, Silent, Row
<1>1. MemoryTypes'
  BY DEF Start, MemoryTypes, Pc, WorkingPc
<1>2. Spoken'
  BY DEF Start, MemoryTypes, Spoken, Silent
<1>3. HeldStands'
  BY DEF Start, MemoryTypes, HeldStands, Id
<1>4. RowsSpoken'
  BY <1>0 DEF Start, MemoryTypes, RowsSpoken, Id
<1>5. PromptsStand' /\ CallsStand'
  BY <1>0 DEF PromptsStand, CallsStand, Id
<1>6. OwnMemories'
  BY <1>0 DEF OwnMemories, Id
<1>7. ValueStated'
  <2> SUFFICES ASSUME NEW i \in Id
               PROVE  \E q \in Requests : /\ user'[q] = rows[i].user
                                          /\ rows[i].key \in DOMAIN facts[q]
                                          /\ facts[q][rows[i].key] = rows[i].value
    BY <1>0 DEF ValueStated, Id
  <2>1. PICK q \in Requests : /\ user[q] = rows[i].user
                              /\ rows[i].key \in DOMAIN facts[q]
                              /\ facts[q][rows[i].key] = rows[i].value
    BY DEF ValueStated
  <2> QED
    BY <2>1, <1>0
<1> QED
  BY <1>1, <1>2, <1>3, <1>4, <1>5, <1>6, <1>7

\* lists the memories for its prompt,
LEMMA RecallKeeps ==
    ASSUME IInv, NEW r \in Requests, Recall(r)
    PROVE  IInv'
<1> USE DEF IInv
<1>0. PICK P \in SUBSET Id :
        /\ prompt' = [prompt EXCEPT ![r] = P]
        /\ \A i \in P : rows[i].user = user[r]
  <2>1. CASE prompt' = [prompt EXCEPT ![r] = Listed(user[r])]
    BY <2>1, ListedOwn
  <2>2. CASE UNCHANGED prompt
    BY <2>2 DEF MemoryTypes, PromptsStand, OwnMemories
  <2> QED
    BY <2>1, <2>2 DEF Recall
<1>a. /\ pc[r] = "recall" /\ pc' = [pc EXCEPT ![r] = "extract"]
      /\ UNCHANGED <<rows, now, user, facts, due, held, call>>
  BY DEF Recall
<1>1. MemoryTypes'
  BY <1>0, <1>a DEF MemoryTypes, Pc, WorkingPc, Id
<1>2. Spoken'
  BY <1>0, <1>a DEF MemoryTypes, Spoken, Silent
<1>3. HeldStands'
  BY <1>a DEF MemoryTypes, HeldStands, Id
<1>4. RowsSpoken'
  BY <1>a, RowTyped DEF MemoryTypes, RowsSpoken, Id, Silent, Row
<1>5. PromptsStand' /\ CallsStand'
  BY <1>0, <1>a DEF MemoryTypes, PromptsStand, CallsStand, Id
<1>6. OwnMemories'
  BY <1>0, <1>a DEF MemoryTypes, OwnMemories, Id
<1>7. ValueStated'
  BY <1>a DEF ValueStated, Id
<1> QED
  BY <1>1, <1>2, <1>3, <1>4, <1>5, <1>6, <1>7

\* extracts the facts of its message,
LEMMA ExtractKeeps ==
    ASSUME IInv, NEW r \in Requests, NEW f \in Facts, Extract(r, f)
    PROVE  IInv'
<1> USE DEF IInv
<1>a. /\ pc[r] = "extract" /\ DOMAIN facts[r] = {}
      /\ facts' = [facts EXCEPT ![r] = f]
      /\ prompt' = [prompt EXCEPT ![r] = {}]
      /\ UNCHANGED <<rows, now, user, call>>
  BY DEF Extract, Ends, Spoken, Silent
<1>b. \/ /\ pc' = [pc EXCEPT ![r] = "done"]
         /\ due' = [due EXCEPT ![r] = {}]
         /\ held' = [held EXCEPT ![r] = NothingHeld]
      \/ /\ user[r] # NoUser
         /\ pc' = [pc EXCEPT ![r] = "select"]
         /\ due' = [due EXCEPT ![r] = DOMAIN f]
         /\ UNCHANGED held
  BY DEF Extract, Ends
<1>1. MemoryTypes'
  <2>1. /\ pc' \in [Requests -> Pc] /\ due' \in [Requests -> SUBSET Keys]
        /\ facts' \in [Requests -> Facts] /\ prompt' \in [Requests -> SUBSET Nat]
    <3>1. DOMAIN f \in SUBSET Keys
      BY FactsAre
    <3>2. pc' \in [Requests -> Pc]
      BY <1>b DEF MemoryTypes, Pc, WorkingPc
    <3>3. due' \in [Requests -> SUBSET Keys]
      BY <1>b, <3>1 DEF MemoryTypes
    <3> QED
      BY <1>a, <3>2, <3>3 DEF MemoryTypes
  <2>2. NothingHeld \in [key : Keys \union {"none"}, id : Nat, live : BOOLEAN,
                         value : Values \union {"none"}, stamp : Nat]
    BY DEF NothingHeld
  <2>3. held' \in [Requests -> [key : Keys \union {"none"}, id : Nat, live : BOOLEAN,
                                value : Values \union {"none"}, stamp : Nat]]
    BY <1>b, <2>2 DEF MemoryTypes
  <2> QED
    BY <1>a, <2>1, <2>3 DEF MemoryTypes
<1>2. Spoken'
  BY <1>a, <1>b DEF MemoryTypes, Spoken, Silent
<1>3. HeldStands'
  BY <1>a, <1>b, SMTT(30) DEF MemoryTypes, HeldStands, Id
<1>4. RowsSpoken'
  BY <1>a, <1>b, RowTyped DEF MemoryTypes, RowsSpoken, Id, Silent, Row
<1>5. PromptsStand' /\ CallsStand'
  BY <1>a DEF MemoryTypes, PromptsStand, CallsStand, Id
<1>6. OwnMemories'
  BY <1>a DEF MemoryTypes, OwnMemories, Id
<1>7. ValueStated'
  BY <1>a DEF MemoryTypes, ValueStated, Id
<1> QED
  BY <1>1, <1>2, <1>3, <1>4, <1>5, <1>6, <1>7

\* selects the row of a fact,
LEMMA SelectRowKeeps ==
    ASSUME IInv, NEW r \in Requests, NEW k \in Keys, SelectRow(r, k)
    PROVE  IInv'
<1> USE DEF IInv
<1>0. PICK h \in [key : Keys \union {"none"}, id : Nat, live : BOOLEAN,
                  value : Values \union {"none"}, stamp : Nat] :
        /\ held' = [held EXCEPT ![r] = h]
        /\ h.key = k
        /\ h.id # 0 => h.id \in Id /\ rows[h.id].user = user[r] /\ rows[h.id].key = k
  <2>1. CASE held' = [held EXCEPT ![r] =
                [key |-> k, id |-> 0, live |-> FALSE, value |-> "none", stamp |-> now + 1]]
    <3> DEFINE h == [key |-> k, id |-> 0, live |-> FALSE, value |-> "none", stamp |-> now + 1]
    <3>1. h \in [key : Keys \union {"none"}, id : Nat, live : BOOLEAN,
                 value : Values \union {"none"}, stamp : Nat]
      BY DEF MemoryTypes
    <3> QED
      BY <2>1, <3>1
  <2>2. ASSUME NEW i \in Found(user[r], k),
               held' = [held EXCEPT ![r] =
                   [key |-> k, id |-> i, live |-> rows[i].live, value |-> rows[i].value,
                    stamp |-> now + 1]]
        PROVE  \E h \in [key : Keys \union {"none"}, id : Nat, live : BOOLEAN,
                         value : Values \union {"none"}, stamp : Nat] :
                 /\ held' = [held EXCEPT ![r] = h]
                 /\ h.key = k
                 /\ h.id # 0 => h.id \in Id /\ rows[h.id].user = user[r] /\ rows[h.id].key = k
    <3>1. i \in Id /\ i \in Nat /\ rows[i] \in Row /\ rows[i].user = user[r] /\ rows[i].key = k
      BY <2>2, FoundOwn, RowTyped DEF Id
    <3>2. now + 1 \in Nat /\ rows[i].live \in BOOLEAN /\ rows[i].value \in Values
      BY <3>1 DEF MemoryTypes, Row
    <3> DEFINE h == [key |-> k, id |-> i, live |-> rows[i].live, value |-> rows[i].value,
                     stamp |-> now + 1]
    <3>3. h \in [key : Keys \union {"none"}, id : Nat, live : BOOLEAN,
                 value : Values \union {"none"}, stamp : Nat]
      BY <3>1, <3>2
    <3>4. h.key = k /\ h.id = i
      OBVIOUS
    <3> QED
      BY <2>2, <3>1, <3>3, <3>4
  <2> QED
    BY <2>1, <2>2 DEF SelectRow
<1>a. /\ pc[r] = "select" /\ k \in due[r] /\ now' = now + 1
      /\ pc' = [pc EXCEPT ![r] = "write"]
      /\ UNCHANGED <<rows, user, facts, due, prompt, call>>
  BY DEF SelectRow
<1>1. MemoryTypes'
  BY <1>0, <1>a DEF MemoryTypes, Pc, WorkingPc
<1>2. Spoken'
  BY <1>0, <1>a DEF MemoryTypes, Spoken, Silent
<1>3. HeldStands'
  BY <1>0, <1>a DEF MemoryTypes, HeldStands, Id
<1>4. RowsSpoken'
  BY <1>a, RowTyped DEF MemoryTypes, RowsSpoken, Id, Silent, Row
<1>5. PromptsStand' /\ CallsStand'
  BY <1>a DEF PromptsStand, CallsStand, Id
<1>6. OwnMemories'
  BY <1>a DEF OwnMemories, Id
<1>7. ValueStated'
  BY <1>a DEF ValueStated, Id
<1> QED
  BY <1>1, <1>2, <1>3, <1>4, <1>5, <1>6, <1>7

\* skips a fact it has stored,
LEMMA SkippedKeeps ==
    ASSUME IInv, NEW r \in Requests, Skipped(r)
    PROVE  IInv'
<1> USE DEF IInv
<1>1. MemoryTypes'
  BY DEF Skipped, MemoryTypes, Pc, WorkingPc, Ends, NothingHeld, WorkingPc
<1>2. Spoken'
  BY DEF Skipped, MemoryTypes, Spoken, Silent, Ends, NothingHeld, WorkingPc
<1>3. HeldStands'
  BY DEF Skipped, MemoryTypes, HeldStands, Id, Ends, NothingHeld, WorkingPc
<1>4. RowsSpoken'
  BY DEF Skipped, MemoryTypes, RowsSpoken, Id, Silent, Row, Ends, NothingHeld, WorkingPc
<1>5. PromptsStand'
  BY DEF Skipped, MemoryTypes, PromptsStand, Id, Ends, NothingHeld, WorkingPc
<1>6. CallsStand'
  BY DEF Skipped, MemoryTypes, CallsStand, Id, Ends, NothingHeld, WorkingPc
<1>7. OwnMemories'
  BY DEF Skipped, MemoryTypes, OwnMemories, Id, Row, RowsSpoken, Silent, Ends, NothingHeld, WorkingPc
<1>8. ValueStated'
  BY DEF Skipped, MemoryTypes, ValueStated, Id, Row, Spoken, Silent, Ends, NothingHeld, WorkingPc
<1> QED
  BY <1>1, <1>2, <1>3, <1>4, <1>5, <1>6, <1>7, <1>8

\* or gives up on the rest.
LEMMA AbandonKeeps ==
    ASSUME IInv, NEW r \in Requests, Abandon(r)
    PROVE  IInv'
<1> USE DEF IInv
<1>1. MemoryTypes'
  BY DEF Abandon, MemoryTypes, Pc, WorkingPc, Ends, NothingHeld, WorkingPc
<1>2. Spoken'
  BY DEF Abandon, MemoryTypes, Spoken, Silent, Ends, NothingHeld, WorkingPc
<1>3. HeldStands'
  BY DEF Abandon, MemoryTypes, HeldStands, Id, Ends, NothingHeld, WorkingPc
<1>4. RowsSpoken'
  BY DEF Abandon, MemoryTypes, RowsSpoken, Id, Silent, Row, Ends, NothingHeld, WorkingPc
<1>5. PromptsStand'
  BY DEF Abandon, MemoryTypes, PromptsStand, Id, Ends, NothingHeld, WorkingPc
<1>6. CallsStand'
  BY DEF Abandon, MemoryTypes, CallsStand, Id, Ends, NothingHeld, WorkingPc
<1>7. OwnMemories'
  BY DEF Abandon, MemoryTypes, OwnMemories, Id, Row, RowsSpoken, Silent, Ends, NothingHeld, WorkingPc
<1>8. ValueStated'
  BY DEF Abandon, MemoryTypes, ValueStated, Id, Row, Spoken, Silent, Ends, NothingHeld, WorkingPc
<1> QED
  BY <1>1, <1>2, <1>3, <1>4, <1>5, <1>6, <1>7, <1>8

\* What the table becomes: an id keeps its user and key, and the row that is written
\* has the value the message states, or had it before.
LEMMA StoredRows ==
    ASSUME IInv, NEW r \in Requests, pc[r] = "write"
    PROVE  /\ Stored(r) \in Seq(Row)
           /\ Len(rows) <= Len(Stored(r))
           /\ \A i \in Id : /\ Stored(r)[i].user = rows[i].user
                            /\ Stored(r)[i].key = rows[i].key
                            /\ i # held[r].id => Stored(r)[i] = rows[i]
           /\ \A i \in 1 .. Len(Stored(r)) :
                \/ i \in Id /\ Stored(r)[i] = rows[i]
                \/ /\ Stored(r)[i].source = r
                   /\ Stored(r)[i].user = user[r]
                   /\ Stored(r)[i].key = held[r].key
                   /\ \/ Stored(r)[i].value = facts[r][held[r].key]
                      \/ i \in Id /\ Stored(r)[i].value = rows[i].value
<1> USE DEF IInv
<1>1. /\ user[r] \in Users /\ held[r].key \in DOMAIN facts[r] /\ held[r].key \in Keys
      /\ facts[r][held[r].key] \in Values /\ held[r].stamp \in Nat
      /\ rows \in Seq(Row) /\ held[r].live \in BOOLEAN
  BY FactsAre DEF Spoken, MemoryTypes
<1>2. CASE held[r].id = 0
  <2> DEFINE new == [user |-> user[r], key |-> held[r].key,
                     value |-> facts[r][held[r].key], source |-> r,
                     touched |-> held[r].stamp, live |-> TRUE]
  <2>1. new \in Row
    BY <1>1 DEF Row
  <2>2. Stored(r) = Append(rows, new)
    BY <1>2 DEF Stored
  <2> HIDE DEF new
  <2>3. /\ Append(rows, new) \in Seq(Row) /\ Len(Append(rows, new)) = Len(rows) + 1
        /\ Len(rows) \in Nat
        /\ \A i \in 1 .. Len(rows) : Append(rows, new)[i] = rows[i]
        /\ Append(rows, new)[Len(rows) + 1] = new
    BY <1>1, <2>1
  <2>4. new.source = r /\ new.user = user[r] /\ new.key = held[r].key
        /\ new.value = facts[r][held[r].key]
    BY DEF new
  <2> QED
    BY <2>2, <2>3, <2>4 DEF Id
<1>3. CASE held[r].id # 0
  <2> DEFINE n == held[r].id
             new == Updated(r, rows[n])
  <2>1. /\ n \in Id /\ rows[n] \in Row /\ rows[n].user = user[r]
        /\ rows[n].key = held[r].key
    BY <1>3, RowTyped DEF HeldStands
  <2>2. /\ new \in Row /\ new.user = rows[n].user /\ new.key = rows[n].key /\ new.source = r
        /\ new.value \in {facts[r][held[r].key], rows[n].value}
    BY <1>1, <2>1 DEF Updated, Row
  <2>3. Stored(r) = [rows EXCEPT ![n] = new]
    BY <1>3 DEF Stored
  <2> HIDE DEF n, new
  <2>4. /\ Stored(r) \in Seq(Row) /\ Len(Stored(r)) = Len(rows)
        /\ Stored(r)[n] = new
        /\ \A i \in Id : i # n => Stored(r)[i] = rows[i]
    BY <1>1, <2>1, <2>2, <2>3 DEF Id
  <2>5. Len(rows) \in Nat
    BY <1>1
  <2> QED
    BY <2>1, <2>2, <2>4, <2>5 DEF Id, n
<1> QED
  BY <1>2, <1>3

\* The write of the row that was selected.
LEMMA WriteRowKeeps ==
    ASSUME IInv, NEW r \in Requests, WriteRow(r)
    PROVE  IInv'
<1> USE DEF IInv
<1>a. /\ pc[r] = "write" /\ rows' = Stored(r)
      /\ UNCHANGED <<now, user, facts, call>>
      /\ user[r] \in Users /\ held[r].key \in DOMAIN facts[r]
  BY DEF WriteRow, Spoken
<1>b. /\ rows' \in Seq(Row) /\ Id \subseteq Id'
      /\ \A i \in Id : rows'[i].user = rows[i].user /\ rows'[i].key = rows[i].key
      /\ \A i \in Id' :
            \/ i \in Id /\ rows'[i] = rows[i]
            \/ /\ rows'[i].source = r
               /\ rows'[i].user = user[r]
               /\ rows'[i].key = held[r].key
               /\ \/ rows'[i].value = facts[r][held[r].key]
                  \/ i \in Id /\ rows'[i].value = rows[i].value
  <2>1. Len(rows) \in Nat /\ Len(Stored(r)) \in Nat
    BY <1>a, StoredRows DEF MemoryTypes
  <2>2. Len(rows) <= Len(Stored(r))
    BY <1>a, StoredRows
  <2>3. Id \subseteq 1 .. Len(Stored(r)) /\ Id' = 1 .. Len(Stored(r))
    BY <1>a, <2>1, <2>2 DEF Id
  <2>4. Stored(r) \in Seq(Row)
    BY <1>a, StoredRows
  <2>5. \A i \in Id : /\ Stored(r)[i].user = rows[i].user
                      /\ Stored(r)[i].key = rows[i].key
    BY <1>a, StoredRows
  <2>6. \A i \in 1 .. Len(Stored(r)) :
            \/ i \in Id /\ Stored(r)[i] = rows[i]
            \/ /\ Stored(r)[i].source = r
               /\ Stored(r)[i].user = user[r]
               /\ Stored(r)[i].key = held[r].key
               /\ \/ Stored(r)[i].value = facts[r][held[r].key]
                  \/ i \in Id /\ Stored(r)[i].value = rows[i].value
    BY <1>a, StoredRows
  <2> HIDE DEF IInv
  <2> QED
    BY <1>a, <2>3, <2>4, <2>5, <2>6, Zenon
<1>c. PICK p \in {"select", "done"}, D \in SUBSET due[r] :
        /\ pc' = [pc EXCEPT ![r] = p]
        /\ due' = [due EXCEPT ![r] = D]
        /\ held' = [held EXCEPT ![r] = NothingHeld]
        /\ \/ prompt' = [prompt EXCEPT ![r] = {}]
           \/ UNCHANGED prompt
  BY DEF WriteRow, Ends
<1>1. MemoryTypes'
  <2>1. NothingHeld \in [key : Keys \union {"none"}, id : Nat, live : BOOLEAN,
                         value : Values \union {"none"}, stamp : Nat]
    BY DEF NothingHeld
  <2>2. pc' \in [Requests -> Pc] /\ due' \in [Requests -> SUBSET Keys]
        /\ prompt' \in [Requests -> SUBSET Nat]
    <3>1. p \in Pc /\ D \in SUBSET Keys
      BY DEF MemoryTypes, Pc, WorkingPc
    <3>2. prompt' \in [Requests -> SUBSET Nat]
      BY <1>c DEF MemoryTypes
    <3> QED
      BY <3>1, <3>2, <1>c DEF MemoryTypes
  <2>3. held' \in [Requests -> [key : Keys \union {"none"}, id : Nat, live : BOOLEAN,
                                value : Values \union {"none"}, stamp : Nat]]
    <3>1. held' = [held EXCEPT ![r] = NothingHeld]
      BY <1>c
    <3> QED
      BY <3>1, <2>1 DEF MemoryTypes
  <2> QED
    BY <1>a, <1>b, <2>2, <2>3 DEF MemoryTypes
<1>2. Spoken'
  BY <1>a, <1>c DEF MemoryTypes, Spoken, Silent
<1>3. HeldStands'
  <2> SUFFICES ASSUME NEW q \in Requests, pc'[q] = "write", held'[q].id # 0
               PROVE  /\ held'[q].id \in Id'
                      /\ rows'[held'[q].id].user = user'[q]
                      /\ rows'[held'[q].id].key = held'[q].key
    BY DEF HeldStands
  <2>1. q # r /\ held'[q] = held[q] /\ pc[q] = "write"
    BY <1>c DEF MemoryTypes
  <2>2. held[q].id \in Id /\ rows[held[q].id].user = user[q] /\ rows[held[q].id].key = held[q].key
    BY <2>1 DEF HeldStands
  <2> QED
    BY <1>a, <1>b, <2>1, <2>2
<1>4. RowsSpoken'
  <2> SUFFICES ASSUME NEW i \in Id' PROVE pc'[rows'[i].source] \notin Silent
    BY DEF RowsSpoken
  <2>1. CASE i \in Id /\ rows'[i] = rows[i]
    <3>1. rows[i].source \in Requests /\ pc[rows[i].source] \notin Silent
      BY <2>1, RowTyped DEF RowsSpoken, Row
    <3> QED
      BY <2>1, <3>1, <1>c DEF MemoryTypes, Silent
  <2>2. CASE rows'[i].source = r
    BY <2>2, <1>c DEF MemoryTypes, Silent
  <2> QED
    BY <1>b, <2>1, <2>2
<1>5. PromptsStand'
  BY <1>b, <1>c DEF MemoryTypes, PromptsStand
<1>6. CallsStand'
  BY <1>a, <1>b DEF CallsStand
<1>7. OwnMemories'
  <2>1. \A i \in Id' : rows'[i].user = user'[rows'[i].source]
    BY <1>a, <1>b DEF OwnMemories
  <2>2. \A q \in Requests : \A i \in prompt'[q] : rows'[i].user = user'[q]
    <3>1. \A q \in Requests : prompt'[q] \subseteq prompt[q]
      BY <1>c DEF MemoryTypes
    <3>2. \A q \in Requests : \A i \in prompt[q] : i \in Id /\ rows[i].user = user[q]
      BY DEF OwnMemories, PromptsStand
    <3> QED
      BY <3>1, <3>2, <1>a, <1>b
  <2> QED
    BY <1>a, <2>1, <2>2 DEF OwnMemories
<1>8. ValueStated'
  <2> SUFFICES ASSUME NEW i \in Id'
               PROVE  \E q \in Requests : /\ user[q] = rows'[i].user
                                          /\ rows'[i].key \in DOMAIN facts[q]
                                          /\ facts[q][rows'[i].key] = rows'[i].value
    BY <1>a DEF ValueStated
  <2>1. CASE i \in Id /\ rows'[i].value = rows[i].value
    BY <2>1, <1>b DEF ValueStated
  <2>2. CASE /\ rows'[i].user = user[r] /\ rows'[i].key = held[r].key
             /\ rows'[i].value = facts[r][held[r].key]
    BY <2>2, <1>a
  <2> QED
    BY <1>b, <2>1, <2>2
<1> QED
  BY <1>1, <1>2, <1>3, <1>4, <1>5, <1>6, <1>7, <1>8

-----------------------------------------------------------------------------
(* The steps of a call, and the theorems.                                  *)

\* A call that leaves the table alone keeps all that is said of the chat requests.
LEMMA CallKeeps ==
    ASSUME IInv, UNCHANGED <<rows, chat>>, now' \in Nat, CallsStand',
           call' \in [Calls -> [pc : CallPc, caller : Users \union {NoUser},
                               of : Users \union {NoUser}, id : Nat, stamp : Nat,
                               shown : SUBSET Users]],
           \A c \in Calls :
              /\ call'[c].shown \subseteq {call'[c].of}
              /\ call'[c].pc \in {"listed", "write", "deleted"} /\ AuthEnabled =>
                    call'[c].of = call'[c].caller
    PROVE  IInv'
<1> USE DEF IInv
<1>a. UNCHANGED <<rows, pc, user, facts, due, held, prompt>>
  BY DEF chat
<1>1. MemoryTypes'
  BY <1>a DEF MemoryTypes
<1>2. Spoken' /\ HeldStands' /\ RowsSpoken' /\ PromptsStand' /\ ValueStated'
  BY <1>a DEF Spoken, HeldStands, RowsSpoken, PromptsStand, ValueStated, Id
<1>3. OwnMemories'
  BY <1>a DEF OwnMemories, Id
<1> QED
  BY <1>1, <1>2, <1>3

\* The deletion by the endpoint.
LEMMA CallWriteKeeps ==
    ASSUME IInv, NEW c \in Calls, CallWrite(c)
    PROVE  IInv'
<1> USE DEF IInv
<1> DEFINE n == call[c].id
           gone == [rows[n] EXCEPT !.live = FALSE, !.touched = call[c].stamp]
<1>a. /\ call[c].pc = "write" /\ rows' = [rows EXCEPT ![n] = gone]
      /\ call' = [call EXCEPT ![c].pc = "deleted"]
      /\ UNCHANGED <<now, pc, user, facts, due, held, prompt>>
  BY DEF CallWrite, chat
<1>b. n \in Id /\ rows[n] \in Row /\ call[c].stamp \in Nat
  BY <1>a, RowTyped DEF CallsStand, MemoryTypes
<1>c. gone \in Row /\ gone.user = rows[n].user /\ gone.key = rows[n].key
      /\ gone.value = rows[n].value /\ gone.source = rows[n].source
  BY <1>b DEF Row
<1> HIDE DEF gone, n
<1>d. /\ rows' \in Seq(Row) /\ Id' = Id
      /\ \A i \in Id : /\ rows'[i].user = rows[i].user /\ rows'[i].key = rows[i].key
                       /\ rows'[i].value = rows[i].value /\ rows'[i].source = rows[i].source
  BY <1>a, <1>b, <1>c DEF MemoryTypes, Id
<1>1. MemoryTypes'
  <2>1. call' \in [Calls -> [pc : CallPc, caller : Users \union {NoUser},
                            of : Users \union {NoUser}, id : Nat, stamp : Nat,
                            shown : SUBSET Users]]
    <3>1. "deleted" \in CallPc
      BY DEF CallPc
    <3> QED
      BY <3>1, <1>a, ZenonT(30) DEF MemoryTypes
  <2> QED
    BY <1>a, <1>d, <2>1 DEF MemoryTypes
<1>2. Spoken'
  BY <1>a DEF Spoken
<1>3. HeldStands' /\ RowsSpoken'
  BY <1>a, <1>d DEF HeldStands, RowsSpoken
<1>7. PromptsStand'
  BY <1>a, <1>d DEF PromptsStand
<1>4. CallsStand'
  BY <1>a, <1>d DEF CallsStand, MemoryTypes
<1>5. OwnMemories'
  BY <1>a, <1>d DEF OwnMemories, PromptsStand, MemoryTypes
<1>6. ValueStated'
  BY <1>a, <1>d DEF ValueStated
<1> QED
  BY <1>1, <1>2, <1>3, <1>4, <1>5, <1>6, <1>7

\* The call stays one of the records a call may be.
LEMMA CallMoves ==
    ASSUME IInv, UNCHANGED <<rows, chat>>, now' \in Nat, NEW c \in Calls,
           NEW n \in [pc : CallPc, caller : Users \union {NoUser},
                     of : Users \union {NoUser}, id : Nat, stamp : Nat,
                     shown : SUBSET Users],
           call' = [call EXCEPT ![c] = n],
           n.shown \subseteq {n.of},
           n.pc = "write" => n.id \in Id,
           AuthEnabled /\ n.pc \notin {"new", "forbidden"} => n.of = n.caller
    PROVE  IInv'
<1> USE DEF IInv
<1>1. Id' = Id
  BY DEF Id, chat
<1>2. CallsStand'
  BY <1>1 DEF CallsStand, MemoryTypes
<1> QED
  BY <1>2, CallKeeps DEF OwnMemories, MemoryTypes

\* The answers of the endpoints.
LEMMA AnswersKeeps ==
    ASSUME IInv, NEW c \in Calls, Answers(c)
    PROVE  IInv'
<1> USE DEF IInv
<1> DEFINE CallRecord == [pc : CallPc, caller : Users \union {NoUser},
                          of : Users \union {NoUser}, id : Nat, stamp : Nat,
                          shown : SUBSET Users]
<1>0. call[c] \in CallRecord /\ call[c].shown \subseteq {call[c].of}
  BY DEF MemoryTypes, OwnMemories
<1>1. ASSUME NEW caller \in Users \union {NoUser}, NEW u \in Users,
             NEW op \in {"list", "select"}, NEW i \in Nat, CallStart(c, caller, u, op, i)
      PROVE  IInv'
  <2> DEFINE n == [pc |-> IF Forbidden(caller, u) THEN "forbidden" ELSE op, caller |-> caller,
                   of |-> u, id |-> i, stamp |-> 0, shown |-> {}]
  <2>1. n \in CallRecord
    BY DEF CallPc
  <2>3. call' = [call EXCEPT ![c] = n] /\ (AuthEnabled => caller # NoUser)
    BY <1>1 DEF CallStart
  <2>4. AuthEnabled /\ n.pc \notin {"new", "forbidden"} => n.of = n.caller
    BY <2>3 DEF Forbidden
  <2>5. n.shown \subseteq {n.of} /\ n.pc # "write"
    OBVIOUS
  <2> HIDE DEF n
  <2>6. UNCHANGED <<rows, chat>> /\ now' \in Nat
    BY <1>1 DEF CallStart, MemoryTypes
  <2> QED
    BY <2>1, <2>3, <2>4, <2>5, <2>6, CallMoves
<1>2. CASE CallList(c)
  <2> DEFINE n == [call[c] EXCEPT !.pc = "listed",
                                  !.shown = {rows[i].user : i \in Listed(call[c].of)}]
  <2>1. {rows[i].user : i \in Listed(call[c].of)} \subseteq Users \intersect {call[c].of}
    BY ListedOwn, RowTyped DEF Row
  <2>2. n \in CallRecord /\ n.shown \subseteq {n.of} /\ n.pc = "listed"
        /\ n.of = call[c].of /\ n.caller = call[c].caller
    BY <1>0, <2>1 DEF CallPc
  <2>3. call' = [call EXCEPT ![c] = n]
    <3>1. call' = [call EXCEPT ![c].pc = "listed",
                               ![c].shown = {rows[i].user : i \in Listed(call[c].of)}]
      BY <1>2 DEF CallList
    <3> DEFINE S == {rows[i].user : i \in Listed(call[c].of)}
    <3> HIDE DEF S
    <3>2. [call EXCEPT ![c].pc = "listed", ![c].shown = S] =
             [call EXCEPT ![c] = [call[c] EXCEPT !.pc = "listed", !.shown = S]]
      BY DEF MemoryTypes
    <3> QED
      BY <3>1, <3>2 DEF S
  <2>4. AuthEnabled => n.of = n.caller
    BY <1>2, <2>2 DEF CallList, CallsStand
  <2> HIDE DEF n
  <2>6. UNCHANGED <<rows, chat>> /\ now' \in Nat
    BY <1>2 DEF CallList, MemoryTypes
  <2> QED
    BY <2>2, <2>3, <2>4, <2>6, CallMoves
<1>3. CASE CallSelect(c)
  <2> DEFINE p == IF call[c].id \in Id /\ Deletable(call[c].of, call[c].id)
                  THEN "write" ELSE "missing"
             n == [call[c] EXCEPT !.stamp = now + 1, !.pc = p]
  <2>1. now + 1 \in Nat /\ p \in CallPc /\ (p = "write" => call[c].id \in Id)
    BY DEF MemoryTypes, CallPc
  <2> HIDE DEF p
  <2>2. n \in CallRecord /\ n.shown \subseteq {n.of} /\ n.pc = p /\ n.id = call[c].id
        /\ n.of = call[c].of /\ n.caller = call[c].caller
    BY <1>0, <2>1
  <2>3. call' = [call EXCEPT ![c] = n]
    BY <1>3 DEF CallSelect, MemoryTypes, p
  <2>4. AuthEnabled => n.of = n.caller
    BY <1>3, <2>2 DEF CallSelect, CallsStand
  <2> HIDE DEF n
  <2>6. UNCHANGED <<rows, chat>> /\ now' \in Nat
    BY <1>3, <2>1 DEF CallSelect, MemoryTypes
  <2> QED
    BY <2>1, <2>2, <2>3, <2>4, <2>6, CallMoves
<1>4. CASE CallFails(c)
  <2> DEFINE n == [call[c] EXCEPT !.pc = "failed"]
  <2>2. n \in CallRecord /\ n.shown \subseteq {n.of} /\ n.pc = "failed"
        /\ n.of = call[c].of /\ n.caller = call[c].caller
    BY <1>0 DEF CallPc
  <2>3. call' = [call EXCEPT ![c] = n]
    BY <1>4 DEF CallFails, MemoryTypes
  <2>4. AuthEnabled => n.of = n.caller
    BY <1>4, <2>2 DEF CallFails, CallsStand
  <2> HIDE DEF n
  <2>6. UNCHANGED <<rows, chat>> /\ now' \in Nat
    BY <1>4 DEF CallFails, MemoryTypes
  <2> QED
    BY <2>2, <2>3, <2>4, <2>6, CallMoves
<1>5. CASE CallWrite(c)
  BY <1>5, CallWriteKeeps
<1>6. 0 \in Nat /\ Id \subseteq Nat
  BY DEF Id
<1> QED
  BY <1>1, <1>2, <1>3, <1>4, <1>5, <1>6 DEF Answers

\* The steps together.
LEMMA NextIInv == IInv /\ [Next]_vars => IInv'
<1> SUFFICES ASSUME IInv, [Next]_vars PROVE IInv'
  OBVIOUS
<1>1. ASSUME NEW r \in Requests, Chats(r) PROVE IInv'
  BY <1>1, StartKeeps, RecallKeeps, ExtractKeeps, SelectRowKeeps, WriteRowKeeps,
     SkippedKeeps, AbandonKeeps DEF Chats
<1>2. CASE UNCHANGED vars
  BY <1>2 DEF vars, IInv, MemoryTypes, Spoken, HeldStands, RowsSpoken, PromptsStand, CallsStand,
              OwnMemories, ValueStated, Id
<1> QED
  BY <1>1, <1>2, AnswersKeeps DEF Next

\* The inductive invariant holds always.
LEMMA Invariant == Spec => []IInv
  BY InitIInv, NextIInv, PTL DEF Spec

\* The state of the long-term memories keeps its type.
THEOREM TypeCorrect == Spec => []TypeOK
<1>1. Init => overlapped \in BOOLEAN
  BY DEF Init
<1>2. overlapped \in BOOLEAN /\ [Next]_vars => (overlapped \in BOOLEAN)'
  BY Zenon DEF Next, vars
<1>3. IInv /\ overlapped \in BOOLEAN => TypeOK
  BY DEF IInv, TypeOK
<1> QED
  BY <1>1, <1>2, <1>3, Invariant, PTL DEF Spec

\* However many requests and calls overlap, memories are written, recalled, listed and
\* deleted for their own user only (repositories.py, SqlAlchemyMemoryRepository).
THEOREM MemoriesStayOwn == Spec => []OwnMemories
<1>1. IInv => OwnMemories
  BY DEF IInv
<1> QED
  BY <1>1, Invariant, PTL

\* However writes overlap, a memory has a value that a message of its user stated for
\* its key (manager.py, write_after_persist; repositories.py, upsert_memory).
THEOREM ValuesStated == Spec => []ValueStated
<1>1. IInv => ValueStated
  BY DEF IInv
<1> QED
  BY <1>1, Invariant, PTL

\* A deletion is undone only by an upsert that found the memory deleted
\* (repositories.py, upsert_memory and delete_memory).
THEOREM DeletionsWin == Spec => DeletionWins
<1> DEFINE A == \A i \in Id : ~rows[i].live /\ rows'[i].live =>
                  \E r \in Requests : held[r].id = i /\ ~held[r].live
<1>1. IInv /\ [Next]_vars => [A]_vars
  <2> SUFFICES ASSUME IInv, Next, NEW i \in Id, ~rows[i].live, rows'[i].live
               PROVE  \E r \in Requests : held[r].id = i /\ ~held[r].live
    OBVIOUS
  <2>0. rows # rows' /\ MemoryTypes /\ rows[i] \in Row
    BY RowTyped DEF IInv
  <2>1. ASSUME NEW r \in Requests, Chats(r)
        PROVE  held[r].id = i /\ ~held[r].live
    <3>1. WriteRow(r)
      BY <2>0, <2>1 DEF Chats, Start, Recall, Extract, SelectRow, Skipped, Abandon
    <3>2. pc[r] = "write" /\ rows' = Stored(r)
      BY <3>1 DEF WriteRow
    <3>3. i = held[r].id
      BY <3>2, <2>0, StoredRows
    <3>4. i # 0
      BY DEF Id
    <3>5. rows'[i] = Updated(r, rows[i])
      BY <3>2, <3>3, <3>4, <2>0 DEF Stored, MemoryTypes, Id
    <3> QED
      BY <3>3, <3>5, <2>0 DEF Updated, Row
  <2>2. ASSUME NEW c \in Calls, Answers(c) PROVE FALSE
    <3>1. CallWrite(c)
      BY <2>0, <2>2 DEF Answers, CallStart, CallList, CallSelect, CallFails
    <3> QED
      BY <3>1, <2>0, SMTT(30) DEF CallWrite, MemoryTypes, Id, Row
  <2> QED
    BY <2>1, <2>2 DEF Next
<1> QED
  BY <1>1, Invariant, PTL DEF Spec, DeletionWins

-----------------------------------------------------------------------------
(* Requests and calls that follow one another.                             *)

Apart ==
    /\ \A r, q \in Requests : pc[r] \in WorkingPc /\ pc[q] \in WorkingPc => r = q
    /\ \A r \in Requests, c \in Calls :
          pc[r] \in WorkingPc => call[c].pc \notin {"list", "select", "write"}

\* A fact of a request is in a live memory.
Remembers(r, k) ==
    \E i \in Id : /\ rows[i].user = user[r]
                  /\ rows[i].key = k
                  /\ rows[i].source = r
                  /\ rows[i].value = facts[r][k]
                  /\ rows[i].live

\* What an upsert found is what the table still holds.
HeldTrue ==
    \A r \in Requests : pc[r] = "write" =>
        /\ held[r].key \in due[r]
        /\ held[r].id = 0 => Found(user[r], held[r].key) = {}
        /\ held[r].id # 0 => /\ held[r].value = rows[held[r].id].value
                             /\ held[r].live = rows[held[r].id].live

\* What is no longer due is remembered.
Kept ==
    \A r \in Requests : pc[r] \in {"select", "write"} =>
        \A k \in DOMAIN facts[r] \ due[r] : Remembers(r, k)

OneRow ==
    \A i, j \in Id : rows[i].user = rows[j].user /\ rows[i].key = rows[j].key => i = j

Orderly == HeldTrue /\ Kept /\ OneRow

InTurn == ~ overlapped => OneAtATime /\ Orderly

\* One at a time, no two are at work.
LEMMA OneWorker ==
    ASSUME IsFiniteSet(Requests), IsFiniteSet(Calls), OneAtATime
    PROVE  Apart
<1> DEFINE W == {r \in Requests : pc[r] \in WorkingPc}
           B == {c \in Calls : call[c].pc \in {"list", "select", "write"}}
<1>1. IsFiniteSet(W) /\ IsFiniteSet(B)
  <2>1. W \in SUBSET Requests /\ B \in SUBSET Calls
    OBVIOUS
  <2> QED
    BY <2>1, FS_Subset
<1>2. Cardinality(W) \in Nat /\ Cardinality(B) \in Nat
  BY <1>1, FS_CardinalityType
<1>3. Cardinality(W) + Cardinality(B) <= 1
  BY DEF OneAtATime
<1> HIDE DEF W, B
<1>4. W = {} \/ (B = {} /\ \E r : W = {r})
  <2>1. CASE Cardinality(W) = 0
    BY <2>1, <1>1, FS_EmptySet
  <2>2. CASE Cardinality(W) # 0
    <3>1. Cardinality(W) = 1 /\ Cardinality(B) = 0
      BY <2>2, <1>2, <1>3
    <3> QED
      BY <3>1, <1>1, FS_EmptySet, FS_Singleton
  <2> QED
    BY <2>1, <2>2
<1>5. \A r \in Requests : pc[r] \in WorkingPc => r \in W
  BY DEF W
<1>6. \A c \in Calls : call[c].pc \in {"list", "select", "write"} => c \in B
  BY DEF B
<1> QED
  BY <1>4, <1>5, <1>6, Zenon DEF Apart

\* What a write leaves behind: the fact it was for is remembered as well.
LEMMA WriteRemembers ==
    ASSUME IInv, Orderly, NEW r \in Requests, WriteRow(r),
           NEW k \in DOMAIN facts[r], k \notin due[r] \/ k = held[r].key
    PROVE  Remembers(r, k)'
<1> USE DEF IInv, Orderly
<1>0. pc[r] = "write" /\ rows' = Stored(r) /\ user' = user /\ facts' = facts
  BY DEF WriteRow
<1>1. held[r].key \in due[r]
  BY <1>0 DEF HeldTrue
<1>2. Stored(r) \in Seq(Row) /\ Len(rows) <= Len(Stored(r)) /\ Len(rows) \in Nat
      /\ Len(Stored(r)) \in Nat
  BY <1>0, StoredRows DEF MemoryTypes
<1>3. CASE k \notin due[r]
  <2>1. PICK i \in Id : /\ rows[i].user = user[r] /\ rows[i].key = k
                        /\ rows[i].source = r /\ rows[i].value = facts[r][k] /\ rows[i].live
    BY <1>0, <1>3 DEF Kept, Remembers
  <2>2. i # held[r].id
    BY <1>0, <1>1, <1>3, <2>1 DEF HeldStands, Id
  <2>3. Stored(r)[i] = rows[i]
    BY <1>0, <2>2, StoredRows
  <2>4. i \in Id'
    BY <1>0, <1>2 DEF Id
  <2> QED
    BY <1>0, <2>1, <2>3, <2>4 DEF Remembers
<1>4. CASE k = held[r].key /\ held[r].id = 0
  <2> DEFINE new == [user |-> user[r], key |-> held[r].key,
                     value |-> facts[r][held[r].key], source |-> r,
                     touched |-> held[r].stamp, live |-> TRUE]
  <2>1. rows' = Append(rows, new)
    BY <1>0, <1>4 DEF Stored
  <2>2. new.user = user[r] /\ new.key = k /\ new.source = r /\ new.value = facts[r][k] /\ new.live
    BY <1>4
  <2> HIDE DEF new
  <2>3. Len(rows) + 1 \in 1 .. Len(rows') /\ rows'[Len(rows) + 1] = new
    BY <2>1 DEF MemoryTypes
  <2> QED
    BY <1>0, <2>2, <2>3 DEF Remembers, Id
<1>5. CASE k = held[r].key /\ held[r].id # 0
  <2> DEFINE n == held[r].id
  <2>1. n \in Id /\ rows[n].user = user[r] /\ rows[n].key = k /\ rows[n] \in Row
    BY <1>0, <1>5, RowTyped DEF HeldStands
  <2>2. held[r].value = rows[n].value /\ held[r].live = rows[n].live
    BY <1>0, <1>5 DEF HeldTrue
  <2>3. rows' = [rows EXCEPT ![n] = Updated(r, rows[n])]
    BY <1>0, <1>5 DEF Stored
  <2>4. rows'[n] = Updated(r, rows[n]) /\ n \in Id'
    BY <2>1, <2>3 DEF Id, MemoryTypes
  <2>5. Updated(r, rows[n]).user = user[r] /\ Updated(r, rows[n]).key = k
        /\ Updated(r, rows[n]).source = r
    BY <2>1 DEF Updated, Row
  <2>6. Updated(r, rows[n]).value = facts[r][k]
    BY <1>5, <2>1, <2>2 DEF Updated, Row
  <2>7. Updated(r, rows[n]).live
    BY <2>1, <2>2 DEF Updated, Row
  <2> QED
    BY <1>0, <2>4, <2>5, <2>6, <2>7 DEF Remembers
<1> QED
  BY <1>3, <1>4, <1>5

\* A write adds a row only where none was found.
LEMMA WriteKeepsOneRow ==
    ASSUME IInv, Orderly, NEW r \in Requests, WriteRow(r)
    PROVE  OneRow'
<1> USE DEF IInv, Orderly
<1>0. pc[r] = "write" /\ rows' = Stored(r)
  BY DEF WriteRow
<1>1. \A i \in Id : rows'[i].user = rows[i].user /\ rows'[i].key = rows[i].key
  BY <1>0, StoredRows
<1>2. CASE held[r].id = 0
  <2> DEFINE new == [user |-> user[r], key |-> held[r].key,
                     value |-> facts[r][held[r].key], source |-> r,
                     touched |-> held[r].stamp, live |-> TRUE]
  <2>1. rows' = Append(rows, new)
    BY <1>0, <1>2 DEF Stored
  <2>2. new.user = user[r] /\ new.key = held[r].key
    OBVIOUS
  <2> HIDE DEF new
  <2>3. Id' = Id \union {Len(rows) + 1} /\ rows'[Len(rows) + 1] = new
    BY <2>1 DEF MemoryTypes, Id
  <2>4. \A i \in Id : ~(rows[i].user = user[r] /\ rows[i].key = held[r].key)
    BY <1>0, <1>2 DEF HeldTrue, Found
  <2> QED
    BY <1>1, <2>2, <2>3, <2>4 DEF OneRow
<1>3. CASE held[r].id # 0
  <2>1. rows' = [rows EXCEPT ![held[r].id] = Updated(r, @)]
    BY <1>0, <1>3 DEF Stored
  <2>2. Id' = Id
    BY <2>1 DEF MemoryTypes, Id
  <2> QED
    BY <1>1, <2>2 DEF OneRow
<1> QED
  BY <1>2, <1>3

\* A step of a request that leaves the table alone.
LEMMA QuietOrderly ==
    ASSUME IInv, Orderly, NEW r \in Requests, UNCHANGED rows,
           \A q \in Requests : q # r =>
               /\ pc'[q] = pc[q] /\ user'[q] = user[q] /\ facts'[q] = facts[q]
               /\ due'[q] = due[q] /\ held'[q] = held[q],
           pc'[r] # "write",
           pc'[r] = "select" => DOMAIN facts'[r] \subseteq due'[r]
    PROVE  Orderly'
<1> USE DEF Orderly
<1>1. Id' = Id
  BY DEF Id
<1>2. HeldTrue'
  <2> SUFFICES ASSUME NEW q \in Requests, pc'[q] = "write"
               PROVE  /\ held'[q].key \in due'[q]
                      /\ held'[q].id = 0 => Found(user[q], held[q].key)' = {}
                      /\ held'[q].id # 0 => /\ held'[q].value = rows'[held'[q].id].value
                                            /\ held'[q].live = rows'[held'[q].id].live
    BY DEF HeldTrue
  <2>1. q # r /\ pc[q] = "write" /\ held'[q] = held[q] /\ due'[q] = due[q] /\ user'[q] = user[q]
    OBVIOUS
  <2> QED
    BY <1>1, <2>1 DEF HeldTrue, Found
<1>3. Kept'
  <2> SUFFICES ASSUME NEW q \in Requests, pc'[q] \in {"select", "write"},
                      NEW k \in DOMAIN facts'[q] \ due'[q]
               PROVE  Remembers(q, k)'
    BY DEF Kept
  <2>1. q # r /\ pc[q] \in {"select", "write"} /\ k \in DOMAIN facts[q] \ due[q]
        /\ user'[q] = user[q] /\ facts'[q] = facts[q]
    OBVIOUS
  <2>2. Remembers(q, k)
    BY <2>1 DEF Kept
  <2> QED
    BY <1>1, <2>1, <2>2 DEF Remembers
<1>4. OneRow'
  BY <1>1 DEF OneRow
<1> QED
  BY <1>2, <1>3, <1>4

\* Selecting the row of a fact finds what the table holds.
LEMMA SelectOrderly ==
    ASSUME IInv, Orderly, NEW r \in Requests, NEW k \in Keys, SelectRow(r, k)
    PROVE  Orderly'
<1> USE DEF IInv, Orderly
<1>0. /\ pc[r] = "select" /\ k \in due[r] /\ pc' = [pc EXCEPT ![r] = "write"]
      /\ UNCHANGED <<rows, user, facts, due>>
  BY DEF SelectRow
<1>1. Id' = Id
  BY <1>0 DEF Id
<1>2. PICK h : /\ held' = [held EXCEPT ![r] = h]
               /\ h.key = k
               /\ h.id = 0 => Found(user[r], k) = {}
               /\ h.id # 0 => h.value = rows[h.id].value /\ h.live = rows[h.id].live
  <2>1. CASE /\ Found(user[r], k) = {}
             /\ held' = [held EXCEPT ![r] =
                   [key |-> k, id |-> 0, live |-> FALSE, value |-> "none", stamp |-> now + 1]]
    <3> WITNESS [key |-> k, id |-> 0, live |-> FALSE, value |-> "none", stamp |-> now + 1]
    <3> QED
      BY <2>1
  <2>2. ASSUME NEW i \in Found(user[r], k),
               held' = [held EXCEPT ![r] =
                   [key |-> k, id |-> i, live |-> rows[i].live, value |-> rows[i].value,
                    stamp |-> now + 1]]
        PROVE  \E h : /\ held' = [held EXCEPT ![r] = h]
                      /\ h.key = k
                      /\ h.id = 0 => Found(user[r], k) = {}
                      /\ h.id # 0 => h.value = rows[h.id].value /\ h.live = rows[h.id].live
    <3> WITNESS [key |-> k, id |-> i, live |-> rows[i].live, value |-> rows[i].value,
                 stamp |-> now + 1]
    <3>1. i # 0
      BY FoundOwn DEF Id
    <3> QED
      BY <2>2, <3>1
  <2> QED
    BY <2>1, <2>2 DEF SelectRow
<1>3. HeldTrue'
  <2> SUFFICES ASSUME NEW q \in Requests, pc'[q] = "write"
               PROVE  /\ held'[q].key \in due[q]
                      /\ held'[q].id = 0 => Found(user[q], held'[q].key) = {}
                      /\ held'[q].id # 0 => /\ held'[q].value = rows[held'[q].id].value
                                            /\ held'[q].live = rows[held'[q].id].live
    BY <1>0, <1>1 DEF HeldTrue, Found
  <2>1. CASE q = r
    <3>1. held'[q] = h
      BY <1>2, <2>1 DEF MemoryTypes
    <3> QED
      BY <1>0, <1>2, <2>1, <3>1
  <2>2. CASE q # r
    <3>1. held'[q] = held[q] /\ pc[q] = "write"
      BY <1>0, <1>2, <2>2 DEF MemoryTypes
    <3> QED
      BY <3>1 DEF HeldTrue
  <2> QED
    BY <2>1, <2>2
<1>4. Kept'
  <2> SUFFICES ASSUME NEW q \in Requests, pc'[q] \in {"select", "write"},
                      NEW n \in DOMAIN facts[q] \ due[q]
               PROVE  Remembers(q, n)'
    BY <1>0 DEF Kept
  <2>1. pc[q] \in {"select", "write"}
    BY <1>0 DEF MemoryTypes
  <2>2. Remembers(q, n)
    BY <2>1 DEF Kept
  <2> QED
    BY <1>0, <1>1, <2>2 DEF Remembers
<1>5. OneRow'
  BY <1>0, <1>1 DEF OneRow
<1> QED
  BY <1>3, <1>4, <1>5

\* A write, while no other request is at work.
LEMMA WriteOrderly ==
    ASSUME IInv, Orderly, Apart, NEW r \in Requests, WriteRow(r)
    PROVE  Orderly'
<1>0. pc[r] = "write" /\ UNCHANGED <<user, facts>>
  BY DEF WriteRow
<1>1. /\ \A q \in Requests : q # r => pc'[q] = pc[q] /\ pc[q] \notin {"select", "write"}
      /\ pc'[r] \in {"done", "select"}
      /\ pc'[r] = "select" => due'[r] = due[r] \ {held[r].key}
  BY <1>0 DEF WriteRow, Ends, Apart, WorkingPc, IInv, MemoryTypes
<1>2. HeldTrue'
  BY <1>1 DEF HeldTrue
<1>3. Kept'
  <2> SUFFICES ASSUME NEW q \in Requests, pc'[q] \in {"select", "write"},
                      NEW k \in DOMAIN facts'[q] \ due'[q]
               PROVE  Remembers(q, k)'
    BY DEF Kept
  <2>1. q = r /\ k \in DOMAIN facts[r] /\ (k \notin due[r] \/ k = held[r].key)
    BY <1>0, <1>1
  <2> QED
    BY <2>1, WriteRemembers
<1>4. OneRow'
  BY WriteKeepsOneRow
<1> QED
  BY <1>2, <1>3, <1>4 DEF Orderly

\* The steps of a request.
LEMMA ChatsOrderly ==
    ASSUME IInv, Orderly, Apart, NEW r \in Requests, Chats(r)
    PROVE  Orderly'
<1> DEFINE Others == \A q \in Requests : q # r =>
                /\ pc'[q] = pc[q] /\ user'[q] = user[q] /\ facts'[q] = facts[q]
                /\ due'[q] = due[q] /\ held'[q] = held[q]
<1>1. ASSUME NEW u \in Users \union {NoUser}, Start(r, u) PROVE Orderly'
  <2>1. Others /\ UNCHANGED rows /\ pc'[r] = "recall"
    BY <1>1 DEF Start, IInv, MemoryTypes
  <2> QED
    BY <2>1, QuietOrderly
<1>2. CASE Recall(r)
  <2>1. Others /\ UNCHANGED rows /\ pc'[r] = "extract"
    BY <1>2 DEF Recall, IInv, MemoryTypes
  <2> QED
    BY <2>1, QuietOrderly
<1>3. ASSUME NEW f \in Facts, Extract(r, f) PROVE Orderly'
  <2>1. Others /\ UNCHANGED rows /\ pc'[r] # "write"
    BY <1>3 DEF Extract, Ends, IInv, MemoryTypes
  <2>2. pc'[r] = "select" => DOMAIN facts'[r] \subseteq due'[r]
    BY <1>3 DEF Extract, Ends, IInv, MemoryTypes
  <2> QED
    BY <2>1, <2>2, QuietOrderly
<1>4. ASSUME NEW k \in Keys, SelectRow(r, k) PROVE Orderly'
  BY <1>4, SelectOrderly
<1>5. CASE WriteRow(r)
  BY <1>5, WriteOrderly
<1>6. CASE Skipped(r)
  <2>1. Others /\ UNCHANGED rows /\ pc'[r] = "skipped"
    BY <1>6 DEF Skipped, Ends, IInv, MemoryTypes
  <2> QED
    BY <2>1, QuietOrderly
<1>7. CASE Abandon(r)
  <2>1. Others /\ UNCHANGED rows /\ pc'[r] = "cut"
    BY <1>7 DEF Abandon, Ends, IInv, MemoryTypes
  <2> QED
    BY <2>1, QuietOrderly
<1> QED
  BY <1>1, <1>2, <1>3, <1>4, <1>5, <1>6, <1>7 DEF Chats

\* The steps of an endpoint.
LEMMA AnswersOrderly ==
    ASSUME IInv, Orderly, Apart, NEW c \in Calls, Answers(c)
    PROVE  Orderly'
<1>1. CASE UNCHANGED <<rows, chat>>
  <2>1. Id' = Id
    BY <1>1 DEF Id
  <2> QED
    BY <1>1, <2>1 DEF chat, Orderly, HeldTrue, Kept, OneRow, Remembers, Found
<1>2. CASE CallWrite(c)
  <2>1. /\ call[c].pc = "write" /\ pc' = pc
        /\ rows' = [rows EXCEPT ![call[c].id] =
                       [@ EXCEPT !.live = FALSE, !.touched = call[c].stamp]]
    BY <1>2 DEF CallWrite, chat
  <2>2. \A q \in Requests : pc'[q] \notin {"select", "write"}
    BY <2>1 DEF Apart, WorkingPc
  <2>3. Id' = Id /\ \A i \in Id : rows'[i].user = rows[i].user /\ rows'[i].key = rows[i].key
    BY <2>1, RowTyped, SMTT(30) DEF IInv, MemoryTypes, Id, Row
  <2>4. OneRow'
    BY <2>3 DEF Orderly, OneRow
  <2> QED
    BY <2>2, <2>4 DEF Orderly, HeldTrue, Kept
<1> QED
  BY <1>1, <1>2 DEF Answers, CallStart, CallList, CallSelect, CallFails

\* The steps together.
LEMMA NextInTurn ==
    ASSUME IsFiniteSet(Requests), IsFiniteSet(Calls)
    PROVE  IInv /\ InTurn /\ [Next]_vars => InTurn'
<1> SUFFICES ASSUME IInv, InTurn, [Next]_vars, ~ overlapped' PROVE OneAtATime' /\ Orderly'
  BY DEF InTurn
<1>1. CASE UNCHANGED vars
  <2>1. OneAtATime /\ Orderly
    BY <1>1 DEF InTurn, vars
  <2>2. OneAtATime'
    BY <1>1, <2>1 DEF vars, OneAtATime
  <2>3. Orderly'
    BY <1>1, <2>1 DEF vars, Orderly, HeldTrue, Kept, OneRow, Remembers, Found, Id
  <2> QED
    BY <2>2, <2>3
<1>2. CASE Next
  <2>1. ~ overlapped /\ OneAtATime'
    BY <1>2 DEF Next
  <2>2. OneAtATime /\ Orderly
    BY <2>1 DEF InTurn
  <2>3. Apart
    BY <2>2, OneWorker
  <2> QED
    BY <1>2, <2>1, <2>2, <2>3, ChatsOrderly, AnswersOrderly DEF Next
<1> QED
  BY <1>1, <1>2

\* Nobody is at work in the beginning.
LEMMA InitInTurn == Init => InTurn
<1> SUFFICES ASSUME Init PROVE InTurn
  OBVIOUS
<1>1. {r \in Requests : pc[r] \in WorkingPc} = {}
  BY DEF Init, WorkingPc
<1>2. {c \in Calls : call[c].pc \in {"list", "select", "write"}} = {}
  BY DEF Init, Idle
<1>3. OneAtATime
  <2>1. Cardinality({r \in Requests : pc[r] \in WorkingPc}) = 0
    BY <1>1, FS_EmptySet, Zenon
  <2>2. Cardinality({c \in Calls : call[c].pc \in {"list", "select", "write"}}) = 0
    BY <1>2, FS_EmptySet, Zenon
  <2>3. \A a, b : a = 0 /\ b = 0 => a + b <= 1
    OBVIOUS
  <2> QED
    BY <2>1, <2>2, <2>3, Zenon DEF OneAtATime
<1>4. Orderly
  <2>1. Id = {}
    BY DEF Init, Id
  <2> QED
    BY <2>1 DEF Init, Orderly, HeldTrue, Kept, OneRow
<1> QED
  BY <1>3, <1>4 DEF InTurn

\* The table behaves for those who do not overlap.
LEMMA TurnsKept ==
    ASSUME IsFiniteSet(Requests), IsFiniteSet(Calls)
    PROVE  Spec => []InTurn
<1>1. IInv /\ InTurn /\ [Next]_vars => InTurn'
  BY NextInTurn
<1> QED
  BY <1>1, InitInTurn, Invariant, PTL DEF Spec

\* As long as requests and calls follow one another, upsert_memory keeps one row for a
\* user and key, deleted or not (repositories.py, upsert_memory, whose table has no unique
\* constraint).
THEOREM OneRowEach ==
    ASSUME IsFiniteSet(Requests), IsFiniteSet(Calls)
    PROVE  Spec => []OneRowPerKey
<1>1. InTurn => OneRowPerKey
  BY DEF InTurn, Orderly, OneRow, OneRowPerKey
<1>2. Spec => []InTurn
  BY TurnsKept
<1> QED
  BY <1>1, <1>2, PTL

\* And a request that is done has every fact of its message in a live memory, also those
\* that were deleted before or stated otherwise (manager.py, write_after_persist).
THEOREM FactsKept ==
    ASSUME IsFiniteSet(Requests), IsFiniteSet(Calls)
    PROVE  Spec => FactsRemembered
<1> DEFINE Whole(r, k) == \E i \in 1 .. Len(rows') :
               rows'[i] = [rows'[i] EXCEPT !.user = user[r], !.key = k, !.source = r,
                                           !.value = facts[r][k], !.live = TRUE]
           A == ~ overlapped => \A r \in Requests : pc[r] = "write" /\ pc'[r] = "done" =>
                    \A k \in DOMAIN facts[r] : Whole(r, k)
<1>1. IInv /\ IInv' /\ InTurn /\ [Next]_vars => [A]_vars
  <2> SUFFICES ASSUME IInv, IInv', Orderly, Next, NEW r \in Requests,
                      pc[r] = "write", pc'[r] = "done", NEW k \in DOMAIN facts[r]
               PROVE  Whole(r, k)
    BY DEF InTurn
  <2>1. WriteRow(r)
    <3>1. ASSUME NEW q \in Requests, q # r PROVE ~ Chats(q)
      <4>1. ASSUME NEW p, pc' = [pc EXCEPT ![q] = p] PROVE FALSE
        BY <3>1, <4>1 DEF IInv, MemoryTypes
      <4>2. pc' # pc
        OBVIOUS
      <4> QED
        BY <4>1, <4>2 DEF Chats, Start, Recall, Extract, SelectRow, WriteRow, Skipped, Abandon,
                          Ends
    <3>2. ~ \E c \in Calls : Answers(c)
      BY DEF Answers, CallStart, CallList, CallSelect, CallWrite, CallFails, chat
    <3>3. Chats(r)
      BY <3>1, <3>2 DEF Next
    <3>4. \A p : pc' = [pc EXCEPT ![r] = p] => p = "done"
      BY DEF IInv, MemoryTypes
    <3> QED
      BY <3>3, <3>4 DEF Chats, Start, Recall, Extract, SelectRow, Skipped, Abandon, Ends
  <2>2. Remembers(r, k)'
    <3>1. due[r] = {held[r].key}
      BY <2>1 DEF WriteRow, IInv, MemoryTypes
    <3> QED
      BY <2>1, <3>1, WriteRemembers
  <2>3. UNCHANGED <<user, facts>>
    BY <2>1 DEF WriteRow
  <2>4. PICK i \in Id' : /\ rows'[i].user = user[r] /\ rows'[i].key = k /\ rows'[i].source = r
                         /\ rows'[i].value = facts[r][k] /\ rows'[i].live
    BY <2>2, <2>3 DEF Remembers
  <2>5. rows'[i] \in Row
    BY <2>4 DEF IInv, MemoryTypes, Id
  <2>6. i \in 1 .. Len(rows')
    BY <2>4 DEF Id
  <2>7. rows'[i] = [rows'[i] EXCEPT !.user = user[r], !.key = k, !.source = r,
                                    !.value = facts[r][k], !.live = TRUE]
    BY <2>4, <2>5 DEF Row
  <2> QED
    BY <2>6, <2>7
<1>2. Spec => []InTurn
  BY TurnsKept
<1> QED
  BY <1>1, <1>2, Invariant, PTL DEF Spec, FactsRemembered
=============================================================================
