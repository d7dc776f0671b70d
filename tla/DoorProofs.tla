----------------------------- MODULE DoorProofs -----------------------------
(***************************************************************************)
(* What holds of AccessControl for every set of users, keys, things and    *)
(* requests, and for every throttle and stall; and of WorkflowRuntime for  *)
(* any number of requests.                                                 *)
(***************************************************************************)
EXTENDS AccessControl, WorkflowRuntime, TLAPS

-----------------------------------------------------------------------------
(* Types.                                                                  *)

\* A request that holds nothing is of its type, wherever it stands.
LEMMA NoCallTyped == NoCall \in Call /\ \A p \in CallPc : [NoCall EXCEPT !.pc = p] \in Call
  BY DEF NoCall, Call, CallPc, Kind

\* The ways in which a request is changed.
LEMMA ChangedTyped ==
    ASSUME NEW q \in Call, NEW p \in CallPc, NEW n \in Nat, NEW m \in Nat, NEW b \in BOOLEAN
    PROVE  /\ [q EXCEPT !.pc = p, !.loaded = n] \in Call
           /\ [q EXCEPT !.pc = p, !.stamp = n] \in Call
           /\ [q EXCEPT !.pc = p, !.loaded = n, !.stamp = m] \in Call
           /\ [q EXCEPT !.pc = p, !.shown = b] \in Call
  BY DEF Call

\* A request with what it brought is one.
LEMMA ArrivedTyped ==
    ASSUME NEW q \in Call, NEW p \in CallPc, NEW k \in ApiKeys, NEW kind \in Kind, NEW x \in Things,
           NEW b \in BOOLEAN
    PROVE  [q EXCEPT !.pc = p, !.key = k, !.kind = kind, !.of = x, !.late = b] \in Call
  BY DEF Call

\* A request that moves, or ends, is still one.
LEMMA MovesTyped ==
    ASSUME AccessTypeOK, NEW c \in Calls, NEW p \in CallPc, Moves(c, p) \/ Ends(c, p)
    PROVE  call' \in [Calls -> Call]
<1>1. [call[c] EXCEPT !.pc = p] \in Call
  BY DEF AccessTypeOK, Call
<1>2. [NoCall EXCEPT !.pc = p] \in Call
  BY NoCallTyped
<1> QED
  BY <1>1, <1>2 DEF AccessTypeOK, Moves, Ends

\* The time a key was last let in stays a number.
LEMMA LetInTyped ==
    ASSUME AccessTypeOK, NEW k \in ApiKeys, NEW t \in Nat, LetIn(k, t)
    PROVE  lastAuth' \in [ApiKeys -> Nat]
  BY DEF AccessTypeOK, LetIn

\* The empty tables are of their type.
LEMMA InitTyped == AccessInit => AccessTypeOK
<1> SUFFICES ASSUME AccessInit PROVE AccessTypeOK
  OBVIOUS
<1>1. NoKey \in KeyRow
  BY DEF NoKey, KeyRow
<1>2. NoMint \in Mint /\ NoMint.pc = "new"
  BY DEF NoMint, Mint
<1> QED
  BY <1>1, <1>2, NoCallTyped DEF AccessInit, AccessTypeOK

\* Types are kept by the command,
LEMMA MintsTyped ==
    ASSUME AccessTypeOK, NEW k \in ApiKeys, Mints(k)
    PROVE  AccessTypeOK'
<1> USE DEF AccessTypeOK, tables
<1>0. mint[k] \in Mint
  OBVIOUS
<1>1. ASSUME NEW u \in Users, MintBegins(k, u) PROVE AccessTypeOK'
  BY <1>1 DEF MintBegins, Mint
<1> DEFINE Typed == /\ mint' \in [ApiKeys -> Mint]
                    /\ \A j \in ApiKeys : mint'[j].pc # "new" => mint'[j].user \in Users
<1>2. ASSUME NEW p \in {"key", "print", "printed", "failed"},
             mint[k].pc # "new", mint' = [mint EXCEPT ![k].pc = p]
      PROVE  Typed
  BY <1>2, <1>0 DEF Mint
<1>3. CASE MintUser(k)
  <2>1. Typed
    BY <1>2, <1>3 DEF MintUser
  <2> QED
    BY <1>3, <2>1, <1>0 DEF MintUser
<1>4. ASSUME StoresKey(k) PROVE apiKeys' \in [ApiKeys -> KeyRow] /\ mint[k].pc # "new"
  BY <1>4, <1>0 DEF StoresKey, KeyRow, Mint
<1>5. CASE MintKey(k)
  <2>1. Typed
    BY <1>2, <1>4, <1>5 DEF MintKey
  <2> QED
    BY <2>1, <1>4, <1>5 DEF MintKey, StoresKey
<1>6. CASE MintKeyUntold(k)
  <2>1. Typed
    BY <1>2, <1>4, <1>6 DEF MintKeyUntold
  <2> QED
    BY <2>1, <1>4, <1>6 DEF MintKeyUntold, StoresKey
<1>7. CASE MintPrints(k)
  <2>1. Typed
    BY <1>2, <1>7 DEF MintPrints
  <2> QED
    BY <2>1, <1>7 DEF MintPrints
<1>8. CASE MintFails(k)
  <2>1. Typed
    BY <1>2, <1>8 DEF MintFails
  <2> QED
    BY <2>1, <1>8 DEF MintFails
<1> QED
  BY <1>1, <1>3, <1>5, <1>6, <1>7, <1>8 DEF Mints

\* The key a request brought, where the type alone leaves out that it brought one.
LEMMA ServesTyped ==
    ASSUME AccessTypeOK, NEW c \in Calls, Serves(c),
           call[c].pc \in {"lookup", "judge", "touch"} => call[c].key \in ApiKeys
    PROVE  AccessTypeOK'
<1> USE DEF AccessTypeOK, tables
<1>0. call[c] \in Call
  OBVIOUS
<1>1. ASSUME NEW k \in ApiKeys, NEW kind \in Kind, NEW x \in Things, Arrives(c, k, kind, x)
      PROVE  AccessTypeOK'
  <2> DEFINE p == IF AuthEnabled THEN "lookup" ELSE "check"
             b == apiKeys[k].state # "live"
             new == [NoCall EXCEPT !.pc = p, !.key = k, !.kind = kind, !.of = x, !.late = b]
  <2>1. p \in CallPc /\ b \in BOOLEAN
    BY DEF CallPc
  <2>2. call' = [call EXCEPT ![c] = new]
    BY <1>1 DEF Arrives
  <2> HIDE DEF p, b
  <2>3. new \in Call
    BY <2>1, NoCallTyped, ArrivedTyped
  <2> HIDE DEF new
  <2> QED
    BY <1>1, <2>2, <2>3 DEF Arrives
<1>2. ASSUME NEW p \in CallPc, Moves(c, p) \/ Ends(c, p), UNCHANGED <<tables, mint, clock, lastAuth>>
      PROVE  AccessTypeOK'
  BY <1>2, MovesTyped
<1>3. CASE ArrivesUnknown(c)
  BY <1>2, <1>3 DEF ArrivesUnknown, CallPc
<1>4. CASE Lookup(c)
  <2>1. CASE Valid(call[c].key)
    <3>1. apiKeys[call[c].key] \in KeyRow
      BY <1>4 DEF Lookup
    <3> DEFINE row == apiKeys[call[c].key]
               new == [call[c] EXCEPT !.pc = "judge", !.loaded = row.lastUsed, !.caller = row.user]
    <3>2. row.lastUsed \in Nat /\ row.user \in Users \union {NoOne}
      BY <3>1 DEF KeyRow
    <3>3. call' = [call EXCEPT ![c] = new]
      BY <1>4, <2>1 DEF Lookup
    <3> HIDE DEF row
    <3>4. new \in Call
      BY <1>0, <3>2 DEF Call, CallPc
    <3> HIDE DEF new
    <3> QED
      BY <1>4, <3>3, <3>4 DEF Lookup
  <2>2. CASE ~Valid(call[c].key)
    BY <1>2, <1>4, <2>2 DEF Lookup, CallPc
  <2> QED
    BY <2>1, <2>2
<1>5. CASE Judge(c)
  <2>0. /\ [call[c] EXCEPT !.pc = "check", !.loaded = 0] \in Call
        /\ [call[c] EXCEPT !.pc = "touch", !.loaded = 0, !.stamp = clock] \in Call
    BY ChangedTyped, <1>0 DEF CallPc
  <2>1. CASE Recent(call[c].loaded)
    <3>1. lastAuth' \in [ApiKeys -> Nat]
      BY <1>5, <2>1, LetInTyped DEF Judge
    <3>2. call' \in [Calls -> Call]
      BY <1>5, <2>0, <2>1 DEF Judge
    <3> QED
      BY <1>5, <3>1, <3>2 DEF Judge
  <2>2. CASE ~Recent(call[c].loaded)
    BY <1>5, <2>0, <2>2 DEF Judge
  <2> QED
    BY <2>1, <2>2
<1>6. CASE Touch(c)
  <2>1. call[c].key \in ApiKeys /\ call[c].stamp \in Nat
    BY <1>0, <1>6 DEF Touch, Call
  <2>2. lastAuth' \in [ApiKeys -> Nat]
    BY <1>6, <2>1, LetInTyped DEF Touch
  <2>3. apiKeys' \in [ApiKeys -> KeyRow]
    BY <1>6, <2>1 DEF Touch, Touched, KeyRow
  <2>4. call' \in [Calls -> Call]
    <3>1. [call[c] EXCEPT !.pc = "check", !.stamp = 0] \in Call
      BY ChangedTyped, <1>0 DEF CallPc
    <3> QED
      BY <1>6, <3>1 DEF Touch
  <2> QED
    BY <1>6, <2>2, <2>3, <2>4 DEF Touch
<1>7. CASE CallFails(c)
  BY <1>2, <1>7 DEF CallFails, CallPc
<1>8. CASE Check(c)
  BY <1>2, <1>8 DEF Check, CallPc
<1>9. CASE Recheck(c)
  BY <1>2, <1>9 DEF Recheck, CallPc
<1>10. CASE ReadRows(c)
  <2>1. CASE call' = [call EXCEPT ![c].pc = "answered", ![c].shown = TRUE]
    <3>1. [call[c] EXCEPT !.pc = "answered", !.shown = TRUE] \in Call
      BY ChangedTyped, <1>0 DEF CallPc
    <3> QED
      BY <1>10, <2>1, <3>1 DEF ReadRows
  <2>2. CASE Moves(c, "confirm") \/ Ends(c, "answered")
    BY <1>2, <1>10, <2>2 DEF ReadRows, CallPc
  <2> QED
    BY <1>10, <2>1, <2>2 DEF ReadRows
<1>11. CASE Confirm(c)
  <2> DEFINE b == Visible(c)
  <2>1. b \in BOOLEAN
    BY DEF Visible
  <2>2. call' = [call EXCEPT ![c].pc = "answered", ![c].shown = b]
    BY <1>11 DEF Confirm
  <2> HIDE DEF b
  <2>3. [call[c] EXCEPT !.pc = "answered", !.shown = b] \in Call
    BY ChangedTyped, <1>0, <2>1 DEF CallPc
  <2>4. call' \in [Calls -> Call]
    BY <2>2, <2>3
  <2>5. UNCHANGED <<tables, mint, clock, lastAuth>>
    BY <1>11 DEF Confirm
  <2> QED
    BY <2>4, <2>5
<1> QED
  BY <1>1, <1>3, <1>4, <1>5, <1>6, <1>7, <1>8, <1>9, <1>10, <1>11 DEF Serves

\* and by what goes on beside command and requests.
LEMMA BesideTyped ==
    ASSUME AccessTypeOK,
           \/ \E k \in ApiKeys : Revoke(k)
           \/ \E x \in Things, u \in Users \union {NoOne} : Create(x, u)
           \/ \E u \in Users : RemoveUser(u)
           \/ ClockTicks
           \/ UNCHANGED accessVars
    PROVE  AccessTypeOK'
<1> USE DEF AccessTypeOK, tables
<1>1. ASSUME NEW k \in ApiKeys, Revoke(k) PROVE AccessTypeOK'
  BY <1>1 DEF Revoke, KeyRow
<1>2. ASSUME NEW x \in Things, NEW u \in Users \union {NoOne}, Create(x, u) PROVE AccessTypeOK'
  BY <1>2 DEF Create
<1>3. ASSUME NEW u \in Users, RemoveUser(u) PROVE AccessTypeOK'
  <2>1. \A k \in ApiKeys : [apiKeys[k] EXCEPT !.state = "gone"] \in KeyRow
    BY DEF KeyRow
  <2>2. apiKeys' \in [ApiKeys -> KeyRow]
    BY <1>3, <2>1 DEF RemoveUser
  <2>3. owner' \in [Things -> Users \union {NoOne, "absent"}]
    BY <1>3 DEF RemoveUser
  <2>4. users' \subseteq Users /\ UNCHANGED <<mint, creator, clock, lastAuth, call>>
    BY <1>3 DEF RemoveUser
  <2> QED
    BY <2>2, <2>3, <2>4
<1>4. CASE ClockTicks
  BY <1>4 DEF ClockTicks
<1>5. CASE UNCHANGED accessVars
  BY <1>5 DEF accessVars
<1> QED
  BY <1>1, <1>2, <1>3, <1>4, <1>5

-----------------------------------------------------------------------------
(* The invariant.                                                          *)

Working == {"judge", "touch", "check", "recheck", "rows", "confirm"}
Reading == {"recheck", "rows", "confirm"}

\* A key that was let in is stored, and remembers when within the throttle and the stall.
KeyInv(k) ==
    /\ mint[k].pc \in {"new", "user", "key"} => apiKeys[k].state = "none"
    /\ mint[k].pc \in {"print", "printed"} => apiKeys[k].state # "none"
    /\ apiKeys[k].state = "none" => lastAuth[k] = 0
    /\ lastAuth[k] <= clock
    /\ apiKeys[k].lastUsed <= clock
    /\ Stored(k) => lastAuth[k] <= apiKeys[k].lastUsed + Throttle + MaxStall

ThingInv(x) == Exists(x) => owner[x] \in {creator[x], NoOne}

\* What a request has learnt so far.  The value it has loaded may be overwritten by an
\* older one, but by no more than a stall.
CallInv(c) ==
    /\ call[c].pc = "new" => ~call[c].shown
    /\ AuthEnabled /\ (call[c].pc \in Working \union {"lookup"} \/ call[c].shown) =>
          call[c].key \in ApiKeys /\ apiKeys[call[c].key].state # "none"
    /\ call[c].pc \in {"lookup", "judge", "touch"} => AuthEnabled
    /\ call[c].pc \in Working \union {"lookup"} => call[c].of \in Things
    /\ AuthEnabled /\ call[c].pc = "lookup" /\ call[c].late =>
          apiKeys[call[c].key].state \in {"revoked", "gone"}
    /\ AuthEnabled /\ call[c].pc \in Working =>
          /\ ~call[c].late
          /\ call[c].caller = apiKeys[call[c].key].user
          /\ call[c].caller \in Users
    /\ AuthEnabled /\ call[c].pc \in Reading =>
          /\ call[c].of \in Things /\ Exists(call[c].of)
          /\ creator[call[c].of] = call[c].caller
    /\ AuthEnabled /\ call[c].shown =>
          /\ call[c].of \in Things /\ Exists(call[c].of)
          /\ ~call[c].late
          /\ creator[call[c].of] = apiKeys[call[c].key].user
    /\ call[c].pc \in {"recheck", "rows", "confirm", "check", "lookup", "judge", "touch"} => ~call[c].shown
    /\ call[c].pc = "touch" => call[c].stamp <= clock /\ clock <= call[c].stamp + MaxStall
    /\ call[c].pc = "judge" =>
          /\ call[c].loaded <= clock
          /\ call[c].loaded # 0 /\ Stored(call[c].key) =>
                call[c].loaded <= apiKeys[call[c].key].lastUsed + MaxStall

AccessInv ==
    /\ AccessTypeOK
    /\ \A k \in ApiKeys : KeyInv(k)
    /\ \A x \in Things : ThingInv(x)
    /\ \A c \in Calls : CallInv(c)

\* The tables as every step leaves them: what is stored stays what it was, a key that is
\* not live is never live again, and last_used_at only changes to a moment that is no
\* longer ago than a stall.
Keeps ==
    /\ \A k \in ApiKeys :
          /\ apiKeys[k].state # "none" =>
                /\ apiKeys'[k].state # "none"
                /\ apiKeys'[k].user = apiKeys[k].user
                /\ Stored(k)' => Stored(k)
                /\ Stored(k)' => \/ apiKeys'[k].lastUsed = apiKeys[k].lastUsed
                                 \/ clock <= apiKeys'[k].lastUsed + MaxStall
                /\ apiKeys[k].state \in {"revoked", "gone"} =>
                      apiKeys'[k].state \in {apiKeys[k].state, "gone"}
    /\ \A x \in Things : Exists(x) => Exists(x)' /\ creator'[x] = creator[x]
    /\ clock' \in Nat /\ clock <= clock'
    /\ \A c \in Calls : call[c].pc = "touch" => clock' <= call[c].stamp + MaxStall

\* What a request has learnt survives the steps of the others.
LEMMA OthersKeep ==
    ASSUME AccessInv, AccessTypeOK', Keeps, NEW c \in Calls, call'[c] = call[c]
    PROVE  CallInv(c)'
<1> DEFINE q == call[c]
<1>1. q \in Call /\ CallInv(c)
  BY DEF AccessInv, AccessTypeOK
<1>2. CASE call[c].key \in ApiKeys
  <2>1. apiKeys[q.key] \in KeyRow /\ apiKeys'[q.key] \in KeyRow
    BY <1>2 DEF AccessInv, AccessTypeOK
  <2>2. /\ q.loaded \in Nat /\ q.stamp \in Nat /\ clock \in Nat
        /\ apiKeys[q.key].lastUsed \in Nat /\ apiKeys'[q.key].lastUsed \in Nat
    BY <1>1, <2>1 DEF Call, KeyRow, AccessInv, AccessTypeOK
  <2> QED
    BY <1>1, <1>2, <2>2, AccessAssumption DEF CallInv, Keeps, Working, Reading
<1>3. CASE call[c].key \notin ApiKeys
  <2>1. q.loaded \in Nat /\ q.stamp \in Nat /\ clock \in Nat
    BY <1>1 DEF Call, AccessInv, AccessTypeOK
  <2> QED
    BY <1>1, <1>3, <2>1, AccessAssumption DEF CallInv, Keeps, Working, Reading
<1> QED
  BY <1>2, <1>3

\* A request that comes to its end without showing anything keeps its part.
LEMMA EndsKeeps ==
    ASSUME AccessInv, NEW c \in Calls, NEW p \in {"unauthorized", "missing", "failed", "answered"},
           Ends(c, p)
    PROVE  CallInv(c)'
<1>1. call'[c] = [NoCall EXCEPT !.pc = p]
  BY DEF Ends, AccessInv, AccessTypeOK
<1>2. call'[c].pc = p /\ ~call'[c].shown
  BY <1>1 DEF NoCall
<1> QED
  BY <1>2 DEF CallInv, Working, Reading

\* A step of one request, which keeps what it learns.
LEMMA OneServed ==
    ASSUME AccessInv, AccessTypeOK', Keeps, NEW c \in Calls,
           \A d \in Calls \ {c} : call'[d] = call[d], CallInv(c)',
           \A k \in ApiKeys : KeyInv(k)', UNCHANGED <<owner, creator>>
    PROVE  AccessInv'
  BY OthersKeep DEF AccessInv, ThingInv, Exists

\* The tables when only requests change.
LEMMA TablesKept ==
    ASSUME AccessInv, UNCHANGED <<tables, clock>>
    PROVE  Keeps
  BY DEF Keeps, tables, Stored, Exists, AccessInv, AccessTypeOK, CallInv

\* What is said of the keys stands while no table changes.
LEMMA KeysKept ==
    ASSUME AccessInv, UNCHANGED <<tables, mint, clock, lastAuth>>
    PROVE  \A k \in ApiKeys : KeyInv(k)'
  BY DEF KeyInv, tables, Stored, AccessInv

\* A request keeps the invariant: one step per statement of its handler.
LEMMA ServesKeeps ==
    ASSUME AccessInv, NEW c \in Calls, Serves(c)
    PROVE  AccessInv' /\ Keeps
<1> DEFINE q == call[c]
           k == q.key
<1>1. q \in Call /\ CallInv(c) /\ AccessTypeOK
  BY DEF AccessInv, AccessTypeOK
<1>2. q.pc \in {"lookup", "judge", "touch"} => AuthEnabled /\ k \in ApiKeys /\ apiKeys[k].state # "none"
  BY <1>1 DEF CallInv, Working
<1>3. AccessTypeOK'
  BY <1>1, <1>2, ServesTyped
<1>4. \A d \in Calls \ {c} : call'[d] = call[d]
  BY <1>1 DEF Serves, Arrives, ArrivesUnknown, Lookup, Judge, Touch, CallFails, Check, Recheck,
              ReadRows, Confirm, Moves, Ends, AccessTypeOK
<1>5. ASSUME UNCHANGED <<tables, mint, clock, lastAuth>>, CallInv(c)'
      PROVE  AccessInv' /\ Keeps
  BY <1>3, <1>4, <1>5, TablesKept, KeysKept, OneServed DEF tables
<1>6. ASSUME NEW p \in {"unauthorized", "missing", "failed", "answered"}, Ends(c, p),
             UNCHANGED <<tables, mint, clock, lastAuth>>
      PROVE  AccessInv' /\ Keeps
  BY <1>5, <1>6, EndsKeeps
<1>7. ASSUME NEW j \in ApiKeys, NEW kind \in Kind, NEW x \in Things, Arrives(c, j, kind, x)
      PROVE  AccessInv' /\ Keeps
  <2> DEFINE p == IF AuthEnabled THEN "lookup" ELSE "check"
             b == apiKeys[j].state # "live"
  <2>1. call'[c] = [NoCall EXCEPT !.pc = p, !.key = j, !.kind = kind, !.of = x, !.late = b]
    BY <1>1, <1>7 DEF Arrives, AccessTypeOK
  <2>2. /\ call'[c].pc = p /\ call'[c].key = j /\ ~call'[c].shown
        /\ call'[c].late <=> apiKeys[j].state # "live"
    BY <2>1 DEF NoCall
  <2>7. call'[c].of = x
    BY <2>1 DEF NoCall
  <2>3. UNCHANGED <<tables, mint, clock, lastAuth>> /\ (AuthEnabled => mint[j].pc = "printed")
    BY <1>7 DEF Arrives
  <2>4. KeyInv(j) /\ apiKeys[j] \in KeyRow
    BY <1>1 DEF AccessInv, AccessTypeOK
  <2>5. AuthEnabled => apiKeys[j].state # "none"
    BY <2>3, <2>4 DEF KeyInv
  <2>6. CallInv(c)'
    BY <2>2, <2>3, <2>4, <2>5, <2>7 DEF CallInv, Working, Reading, KeyRow, tables
  <2> QED
    BY <1>5, <2>3, <2>6
<1>8. CASE ArrivesUnknown(c)
  BY <1>6, <1>8 DEF ArrivesUnknown
<1>9. CASE Lookup(c)
  <2>1. CASE Valid(k)
    <3>1. /\ call'[c] = [q EXCEPT !.pc = "judge", !.loaded = apiKeys[k].lastUsed,
                                  !.caller = apiKeys[k].user]
          /\ UNCHANGED <<tables, mint, clock, lastAuth>> /\ q.pc = "lookup"
      BY <1>1, <1>9, <2>1 DEF Lookup, AccessTypeOK
    <3>2. /\ call'[c].pc = "judge" /\ call'[c].loaded = apiKeys[k].lastUsed
          /\ call'[c].caller = apiKeys[k].user /\ call'[c].key = k
          /\ call'[c].shown = q.shown /\ call'[c].late = q.late /\ call'[c].of = q.of
      BY <1>1, <3>1 DEF Call
    <3>3. apiKeys[k].state = "live" /\ apiKeys[k].user \in Users
      BY <1>1, <2>1 DEF Valid, AccessTypeOK
    <3>4. apiKeys[k].lastUsed \in Nat /\ apiKeys[k].lastUsed <= clock /\ clock \in Nat
      BY <1>1, <1>2, <3>1 DEF AccessInv, AccessTypeOK, KeyInv, KeyRow
    <3>5. CallInv(c)'
      BY <1>1, <1>2, <3>1, <3>2, <3>3, <3>4, AccessAssumption DEF CallInv, Working, Reading, tables, Stored
    <3> QED
      BY <1>5, <3>1, <3>5
  <2>2. CASE ~Valid(k)
    BY <1>6, <1>9, <2>2 DEF Lookup
  <2> QED
    BY <2>1, <2>2
<1>10. CASE Judge(c)
  <2>1. /\ q.pc = "judge" /\ AuthEnabled /\ k \in ApiKeys
        /\ UNCHANGED <<tables, mint, clock>>
    BY <1>2, <1>10 DEF Judge
  <2>2. apiKeys[k] \in KeyRow /\ lastAuth[k] \in Nat /\ clock \in Nat /\ q.loaded \in Nat /\ KeyInv(k)
    BY <1>1, <2>1 DEF AccessInv, AccessTypeOK, Call
  <2>3. Keeps
    BY <2>1, TablesKept
  <2>4. CASE Recent(q.loaded)
    <3>1. /\ call'[c] = [q EXCEPT !.pc = "check", !.loaded = 0]
          /\ lastAuth' = [lastAuth EXCEPT ![k] = IF clock > @ THEN clock ELSE @]
      BY <1>1, <1>10, <2>4 DEF Judge, AccessTypeOK, LetIn
    <3>2. /\ call'[c].pc = "check" /\ call'[c].key = k /\ call'[c].caller = q.caller
          /\ call'[c].shown = q.shown /\ call'[c].late = q.late /\ call'[c].of = q.of
      BY <1>1, <3>1 DEF Call
    <3>3. CallInv(c)'
      BY <1>1, <2>1, <3>2 DEF CallInv, Working, Reading, tables
    <3>4. lastAuth'[k] = clock
      BY <1>1, <2>1, <2>2, <3>1 DEF KeyInv, AccessTypeOK
    <3>5. Stored(k) => clock <= apiKeys[k].lastUsed + Throttle + MaxStall
      BY <1>1, <2>1, <2>2, <2>4, AccessAssumption DEF Recent, CallInv, KeyRow
    <3>6. \A j \in {k} : KeyInv(j)'
      <4>1. apiKeys'[k] = apiKeys[k] /\ mint'[k] = mint[k] /\ clock' = clock
        BY <2>1 DEF tables
      <4> QED
        BY <1>2, <2>1, <2>2, <3>4, <3>5, <4>1 DEF KeyInv, Stored, KeyRow
    <3>7. \A j \in ApiKeys \ {k} : KeyInv(j)'
      BY <1>1, <2>1, <3>1 DEF KeyInv, tables, Stored, AccessInv, AccessTypeOK
    <3>8. (\A j \in ApiKeys : KeyInv(j)') /\ UNCHANGED <<owner, creator>>
      BY <2>1, <3>6, <3>7 DEF tables
    <3> QED
      BY <1>3, <1>4, <2>3, <3>3, <3>8, OneServed
  <2>5. CASE ~Recent(q.loaded)
    <3>1. /\ call'[c] = [q EXCEPT !.pc = "touch", !.loaded = 0, !.stamp = clock]
          /\ UNCHANGED lastAuth
      BY <1>1, <1>10, <2>5 DEF Judge, AccessTypeOK
    <3>2. /\ call'[c].pc = "touch" /\ call'[c].key = k /\ call'[c].caller = q.caller
          /\ call'[c].shown = q.shown /\ call'[c].late = q.late /\ call'[c].stamp = clock
          /\ call'[c].of = q.of
      BY <1>1, <3>1 DEF Call
    <3>3. CallInv(c)'
      BY <1>1, <2>1, <2>2, <3>2, AccessAssumption DEF CallInv, Working, Reading, tables
    <3> QED
      BY <1>5, <2>1, <3>1, <3>3
  <2> QED
    BY <2>4, <2>5
<1>11. CASE Touch(c)
  <2>1. /\ q.pc = "touch" /\ AuthEnabled /\ k \in ApiKeys /\ Stored(k)
        /\ apiKeys' = [apiKeys EXCEPT ![k] = [@ EXCEPT !.lastUsed = q.stamp]]
        /\ lastAuth' = [lastAuth EXCEPT ![k] = IF q.stamp > @ THEN q.stamp ELSE @]
        /\ call'[c] = [q EXCEPT !.pc = "check", !.stamp = 0]
        /\ UNCHANGED <<users, mint, owner, creator, clock>>
    BY <1>1, <1>2, <1>11 DEF Touch, Touched, LetIn, AccessTypeOK
  <2>2. /\ apiKeys[k] \in KeyRow /\ lastAuth[k] \in Nat /\ clock \in Nat /\ q.stamp \in Nat
        /\ KeyInv(k) /\ q.stamp <= clock /\ clock <= q.stamp + MaxStall
    BY <1>1, <2>1 DEF AccessInv, AccessTypeOK, Call, CallInv
  <2>3. /\ apiKeys'[k].state = apiKeys[k].state /\ apiKeys'[k].user = apiKeys[k].user
        /\ apiKeys'[k].lastUsed = q.stamp
        /\ \A j \in ApiKeys \ {k} : apiKeys'[j] = apiKeys[j] /\ lastAuth'[j] = lastAuth[j]
        /\ lastAuth'[k] = IF q.stamp > lastAuth[k] THEN q.stamp ELSE lastAuth[k]
    BY <1>1, <2>1, <2>2 DEF KeyRow, AccessTypeOK
  <2>4. Keeps
    <3>1. \A d \in Calls : call[d].pc = "touch" => clock <= call[d].stamp + MaxStall
      BY DEF AccessInv, CallInv
    <3>2. \A j \in ApiKeys : apiKeys'[j].state = apiKeys[j].state /\ apiKeys'[j].user = apiKeys[j].user
      BY <2>3
    <3>3. \A j \in ApiKeys : \/ apiKeys'[j].lastUsed = apiKeys[j].lastUsed
                            \/ clock <= apiKeys'[j].lastUsed + MaxStall
      BY <2>2, <2>3
    <3>4. owner' = owner /\ creator' = creator /\ clock' = clock
      BY <2>1
    <3>5. (\A x \in Things : Exists(x) => Exists(x)') /\ clock <= clock'
      BY <2>2, <3>4 DEF Exists
    <3> QED
      BY <2>2, <3>1, <3>2, <3>3, <3>4, <3>5 DEF Keeps, Stored
  <2>5. \A j \in {k} : KeyInv(j)'
    BY <2>1, <2>2, <2>3, AccessAssumption DEF KeyInv, Stored, KeyRow
  <2>6. \A j \in ApiKeys \ {k} : KeyInv(j)'
    BY <2>1, <2>3 DEF KeyInv, Stored, AccessInv
  <2>7. /\ call'[c].pc = "check" /\ call'[c].key = k /\ call'[c].caller = q.caller
        /\ call'[c].shown = q.shown /\ call'[c].late = q.late /\ call'[c].of = q.of
    BY <1>1, <2>1 DEF Call
  <2>8. CallInv(c)'
    BY <1>1, <2>1, <2>3, <2>7 DEF CallInv, Working, Reading, Stored
  <2> QED
    BY <1>3, <1>4, <2>1, <2>4, <2>5, <2>6, <2>8, OneServed
<1>12. CASE CallFails(c)
  BY <1>6, <1>12 DEF CallFails
<1>13. ASSUME NEW p \in {"recheck", "rows", "confirm"}, Moves(c, p),
              UNCHANGED <<tables, mint, clock, lastAuth>>,
              q.pc \in {"recheck", "rows"} \/ (q.pc = "check" /\ Visible(c))
       PROVE  AccessInv' /\ Keeps
  <2>1. /\ call'[c].pc = p /\ call'[c].key = k /\ call'[c].caller = q.caller /\ call'[c].of = q.of
        /\ call'[c].shown = q.shown /\ call'[c].late = q.late
    BY <1>1, <1>13 DEF Moves, Call, AccessTypeOK
  <2>2. AuthEnabled => q.of \in Things /\ Exists(q.of) /\ creator[q.of] = q.caller
    <3>1. CASE q.pc \in {"recheck", "rows"}
      BY <1>1, <3>1 DEF CallInv, Reading
    <3>2. CASE q.pc = "check" /\ Visible(c) /\ AuthEnabled
      <4>1. q.caller \in Users /\ q.caller # NoOne /\ Exists(q.of) /\ owner[q.of] = q.caller
        BY <1>1, <3>2, AccessAssumption DEF CallInv, Working, Visible
      <4>2. q.of \in Things
        BY <1>1, <3>2 DEF CallInv, Working
      <4>3. ThingInv(q.of)
        BY <4>2 DEF AccessInv
      <4> QED
        BY <4>1, <4>2, <4>3 DEF ThingInv
    <3> QED
      BY <1>13, <3>1, <3>2
  <2>3. CallInv(c)'
    BY <1>1, <1>13, <2>1, <2>2 DEF CallInv, Working, Reading, tables, Exists
  <2> QED
    BY <1>5, <1>13, <2>3
<1>14. CASE Check(c)
  BY <1>6, <1>13, <1>14 DEF Check
<1>15. CASE Recheck(c)
  BY <1>6, <1>13, <1>15 DEF Recheck
<1>16. ASSUME q.pc \in {"rows", "confirm"}, NEW b \in BOOLEAN,
              call' = [call EXCEPT ![c].pc = "answered", ![c].shown = b],
              UNCHANGED <<tables, mint, clock, lastAuth>>
       PROVE  AccessInv' /\ Keeps
  <2>1. /\ call'[c].pc = "answered" /\ call'[c].key = k /\ call'[c].of = q.of
        /\ call'[c].late = q.late
    BY <1>1, <1>16 DEF Call, AccessTypeOK
  <2>2. CallInv(c)'
    BY <1>1, <1>16, <2>1 DEF CallInv, Working, Reading, tables, Exists
  <2> QED
    BY <1>5, <1>16, <2>2
<1>17. CASE ReadRows(c)
  BY <1>6, <1>13, <1>16, <1>17 DEF ReadRows
<1>18. CASE Confirm(c)
  <2> DEFINE b == Visible(c)
  <2>1. b \in BOOLEAN /\ q.pc = "confirm" /\ UNCHANGED <<tables, mint, clock, lastAuth>>
        /\ call' = [call EXCEPT ![c].pc = "answered", ![c].shown = b]
    BY <1>18 DEF Confirm, Visible
  <2> HIDE DEF b
  <2> QED
    BY <1>16, <2>1
<1> QED
  BY <1>7, <1>8, <1>9, <1>10, <1>11, <1>12, <1>14, <1>15, <1>17, <1>18 DEF Serves

\* The command does: a key is stored for a user that exists and has not printed it before.
LEMMA MintsKeep ==
    ASSUME AccessInv, NEW k \in ApiKeys, Mints(k)
    PROVE  AccessInv' /\ Keeps
<1>1. AccessTypeOK /\ AccessTypeOK' /\ KeyInv(k)
  BY MintsTyped DEF AccessInv
<1>2. mint[k] \in Mint /\ apiKeys[k] \in KeyRow /\ lastAuth[k] \in Nat /\ clock \in Nat \ {0}
  BY <1>1 DEF AccessTypeOK
<1>3. UNCHANGED <<owner, creator, clock, lastAuth, call>>
  BY DEF Mints, MintBegins, MintUser, MintKey, MintKeyUntold, StoresKey, MintPrints, MintFails, tables
<1>4. \A j \in ApiKeys \ {k} : mint'[j] = mint[j] /\ apiKeys'[j] = apiKeys[j]
  BY <1>1 DEF AccessTypeOK, Mints, MintBegins, MintUser, MintKey, MintKeyUntold, StoresKey,
              MintPrints, MintFails, tables
<1>5. ASSUME Keeps, \A j \in {k} : KeyInv(j)' PROVE AccessInv' /\ Keeps
  <2>1. \A j \in ApiKeys \ {k} : KeyInv(j)'
    BY <1>3, <1>4 DEF KeyInv, Stored, AccessInv
  <2>2. \A c \in Calls : CallInv(c)'
    BY <1>1, <1>3, <1>5, OthersKeep
  <2>3. \A x \in Things : ThingInv(x)'
    BY <1>3 DEF AccessInv, ThingInv, Exists
  <2> QED
    BY <1>1, <1>5, <2>1, <2>2, <2>3 DEF AccessInv
<1>6. CASE UNCHANGED apiKeys
  <2>1. Keeps
    BY <1>1, <1>2, <1>3, <1>6 DEF Keeps, Stored, Exists, AccessInv, CallInv
  <2>2. ASSUME NEW p \in {"key", "print", "printed", "failed"}, NEW o \in {"user", "key", "print"},
               mint[k].pc = o, mint'[k] = [mint[k] EXCEPT !.pc = p],
               p = "key" => o = "user", p \in {"print", "printed"} => o = "print"
        PROVE  \A j \in {k} : KeyInv(j)'
    BY <1>1, <1>2, <1>3, <1>6, <2>2 DEF KeyInv, Stored, Mint
  <2>3. CASE \E u \in Users : MintBegins(k, u)
    <3>1. mint[k].pc = "new" /\ mint'[k].pc = "user"
      BY <1>1, <2>3 DEF MintBegins, AccessTypeOK
    <3>2. \A j \in {k} : KeyInv(j)'
      BY <1>1, <1>2, <1>3, <1>6, <3>1 DEF KeyInv, Stored
    <3> QED
      BY <1>5, <2>1, <3>2
  <2>4. CASE MintUser(k)
    <3>1. mint[k].pc = "user" /\ mint'[k] = [mint[k] EXCEPT !.pc = "key"]
      BY <1>1, <2>4 DEF MintUser, AccessTypeOK
    <3> QED
      BY <1>5, <2>1, <2>2, <3>1
  <2>5. CASE MintPrints(k)
    <3>1. mint[k].pc = "print" /\ mint'[k] = [mint[k] EXCEPT !.pc = "printed"]
      BY <1>1, <2>5 DEF MintPrints, AccessTypeOK
    <3> QED
      BY <1>5, <2>1, <2>2, <3>1
  <2>6. CASE MintFails(k)
    <3>1. mint[k].pc \in {"user", "key", "print"} /\ mint'[k] = [mint[k] EXCEPT !.pc = "failed"]
      BY <1>1, <2>6 DEF MintFails, AccessTypeOK
    <3> QED
      BY <1>5, <2>1, <2>2, <3>1
  <2>7. ASSUME StoresKey(k) PROVE FALSE
    <3>1. apiKeys'[k].state = "live" /\ apiKeys[k].state = "none"
      BY <1>1, <2>7 DEF StoresKey, KeyInv, AccessTypeOK
    <3> QED
      BY <1>6, <3>1
  <2> QED
    BY <2>3, <2>4, <2>5, <2>6, <2>7 DEF Mints, MintKey, MintKeyUntold
<1>7. CASE StoresKey(k)
  <2>1. apiKeys[k].state = "none" /\ lastAuth[k] = 0
    BY <1>1, <1>7 DEF StoresKey, KeyInv
  <2>2. apiKeys'[k].state = "live" /\ apiKeys'[k].lastUsed = 0
    BY <1>1, <1>7 DEF StoresKey, AccessTypeOK
  <2>3. Keeps
    BY <1>2, <1>3, <1>4, <2>1 DEF Keeps, Stored, Exists, AccessInv, CallInv
  <2>4. mint'[k].pc \in {"print", "failed"}
    <3>1. CASE mint' = [mint EXCEPT ![k].pc = "print"]
      BY <1>1, <1>2, <3>1 DEF AccessTypeOK, Mint
    <3>2. CASE mint' = [mint EXCEPT ![k].pc = "failed"]
      BY <1>1, <1>2, <3>2 DEF AccessTypeOK, Mint
    <3>3. CASE UNCHANGED apiKeys
      BY <2>1, <2>2, <3>3
    <3> QED
      BY <3>1, <3>2, <3>3 DEF Mints, MintBegins, MintUser, MintKey, MintKeyUntold, MintPrints,
                              MintFails, tables
  <2>5. \A j \in {k} : KeyInv(j)'
    BY <1>2, <1>3, <2>1, <2>2, <2>4, AccessAssumption DEF KeyInv, Stored
  <2> QED
    BY <1>5, <2>3, <2>5
<1> QED
  BY <1>6, <1>7 DEF Mints, MintBegins, MintUser, MintKey, MintKeyUntold, MintPrints, MintFails, tables

\* Revocations, removals, what is created, the clock, and stuttering.
LEMMA BesideKeep ==
    ASSUME AccessInv,
           \/ \E k \in ApiKeys : Revoke(k)
           \/ \E x \in Things, u \in Users \union {NoOne} : Create(x, u)
           \/ \E u \in Users : RemoveUser(u)
           \/ ClockTicks
           \/ UNCHANGED accessVars
    PROVE  AccessInv' /\ Keeps
<1>1. AccessTypeOK /\ AccessTypeOK'
  BY BesideTyped DEF AccessInv
<1>2. clock \in Nat /\ \A c \in Calls : call[c].pc = "touch" => clock <= call[c].stamp + MaxStall
  BY <1>1 DEF AccessTypeOK, AccessInv, CallInv
<1>3. UNCHANGED <<mint, lastAuth, call>>
  BY DEF Revoke, Create, RemoveUser, ClockTicks, tables, accessVars
<1>4. ASSUME Keeps, \A k \in ApiKeys : KeyInv(k)', \A x \in Things : ThingInv(x)'
      PROVE  AccessInv' /\ Keeps
  BY <1>1, <1>3, <1>4, OthersKeep DEF AccessInv
\* Keys are revoked or gone.
<1>5. ASSUME \A k \in ApiKeys :
                apiKeys'[k] = apiKeys[k]
                \/ /\ Stored(k)
                   /\ apiKeys'[k] \in {[apiKeys[k] EXCEPT !.state = "gone"],
                                       [apiKeys[k] EXCEPT !.state = "revoked"]}
                   /\ apiKeys[k].state = "revoked" => apiKeys'[k].state = "gone",
             UNCHANGED clock
      PROVE  /\ \A k \in ApiKeys : KeyInv(k)'
             /\ (\A x \in Things : Exists(x) => Exists(x)' /\ creator'[x] = creator[x]) => Keeps
  <2>1. \A k \in ApiKeys :
           /\ apiKeys[k] \in KeyRow
           /\ apiKeys'[k].user = apiKeys[k].user /\ apiKeys'[k].lastUsed = apiKeys[k].lastUsed
           /\ Stored(k)' => Stored(k)
           /\ apiKeys[k].state = "none" <=> apiKeys'[k].state = "none"
           /\ apiKeys[k].state \in {"revoked", "gone"} => apiKeys'[k].state \in {apiKeys[k].state, "gone"}
    BY <1>1, <1>5 DEF AccessTypeOK, KeyRow, Stored
  <2>2. \A k \in ApiKeys : KeyInv(k)'
    BY <1>3, <1>5, <2>1 DEF KeyInv, AccessInv
  <2> QED
    BY <1>2, <1>5, <2>1, <2>2 DEF Keeps
<1>6. ASSUME NEW k \in ApiKeys, Revoke(k) PROVE AccessInv' /\ Keeps
  <2>1. /\ apiKeys[k].state = "live" /\ apiKeys' = [apiKeys EXCEPT ![k].state = "revoked"]
        /\ UNCHANGED <<owner, creator, clock>>
    BY <1>6 DEF Revoke
  <2>2. (\A x \in Things : Exists(x) => Exists(x)' /\ creator'[x] = creator[x])
    BY <2>1 DEF Exists
  <2>3. Keeps /\ \A j \in ApiKeys : KeyInv(j)'
    BY <1>1, <1>5, <2>1, <2>2 DEF AccessTypeOK, Stored
  <2>4. \A x \in Things : ThingInv(x)'
    BY <2>1 DEF AccessInv, ThingInv, Exists
  <2> QED
    BY <1>4, <2>3, <2>4
<1>7. ASSUME NEW x \in Things, NEW u \in Users \union {NoOne}, Create(x, u) PROVE AccessInv' /\ Keeps
  <2>1. /\ owner[x] = "absent" /\ owner'[x] = u /\ creator'[x] = u
        /\ \A y \in Things \ {x} : owner'[y] = owner[y] /\ creator'[y] = creator[y]
        /\ UNCHANGED <<apiKeys, clock>>
    BY <1>1, <1>7 DEF Create, Exists, AccessTypeOK
  <2>2. \A y \in Things : Exists(y) => Exists(y)' /\ creator'[y] = creator[y]
    BY <2>1 DEF Exists
  <2>3. Keeps /\ \A j \in ApiKeys : KeyInv(j)'
    BY <1>5, <2>1, <2>2
  <2>4. \A y \in Things : ThingInv(y)'
    BY <2>1 DEF AccessInv, ThingInv, Exists
  <2> QED
    BY <1>4, <2>3, <2>4
<1>8. ASSUME NEW u \in Users, RemoveUser(u) PROVE AccessInv' /\ Keeps
  <2>1. /\ \A k \in ApiKeys : apiKeys'[k] = IF Stored(k) /\ apiKeys[k].user = u
                                            THEN [apiKeys[k] EXCEPT !.state = "gone"]
                                            ELSE apiKeys[k]
        /\ \A x \in Things : owner'[x] = IF owner[x] = u THEN NoOne ELSE owner[x]
        /\ UNCHANGED <<creator, clock>>
    BY <1>8 DEF RemoveUser
  <2>2. \A x \in Things : Exists(x)' <=> Exists(x)
    BY <2>1, AccessAssumption DEF Exists
  <2>3. \A k \in ApiKeys : apiKeys[k] \in KeyRow
    BY <1>1 DEF AccessTypeOK
  <2>4. \A k \in ApiKeys : [apiKeys[k] EXCEPT !.state = "gone"].state = "gone"
    BY <2>3 DEF KeyRow
  <2>5. Keeps /\ \A j \in ApiKeys : KeyInv(j)'
    BY <1>5, <2>1, <2>2, <2>4
  <2>6. \A x \in Things : ThingInv(x)'
    BY <2>1, <2>2 DEF AccessInv, ThingInv
  <2> QED
    BY <1>4, <2>5, <2>6
<1>9. CASE ClockTicks
  <2>1. /\ clock' = clock + 1
        /\ \A c \in Calls : call[c].pc = "touch" => clock < call[c].stamp + MaxStall
        /\ UNCHANGED <<apiKeys, owner, creator>>
    BY <1>9 DEF ClockTicks, tables
  <2>2. \A c \in Calls : call[c].stamp \in Nat
    BY <1>1 DEF AccessTypeOK, Call
  <2>3. \A c \in Calls : call[c].pc = "touch" => clock' <= call[c].stamp + MaxStall
    BY <1>2, <2>1, <2>2, AccessAssumption
  <2>4. Keeps
    BY <1>2, <2>1, <2>3 DEF Keeps, Stored, Exists
  <2>5. \A k \in ApiKeys : lastAuth[k] \in Nat /\ apiKeys[k].lastUsed \in Nat
    BY <1>1 DEF AccessTypeOK, KeyRow
  <2>6. \A k \in ApiKeys : KeyInv(k)'
    BY <1>2, <1>3, <2>1, <2>5 DEF KeyInv, Stored, AccessInv
  <2>7. \A x \in Things : ThingInv(x)'
    BY <2>1 DEF AccessInv, ThingInv, Exists
  <2> QED
    BY <1>4, <2>4, <2>6, <2>7
<1>10. CASE UNCHANGED accessVars
  <2>1. Keeps /\ \A k \in ApiKeys : KeyInv(k)'
    BY <1>10, TablesKept, KeysKept DEF accessVars, tables
  <2>2. \A x \in Things : ThingInv(x)'
    BY <1>10 DEF AccessInv, ThingInv, Exists, accessVars
  <2> QED
    BY <1>4, <2>1, <2>2
<1> QED
  BY <1>6, <1>7, <1>8, <1>9, <1>10

\* The steps together.
LEMMA StepKeeps ==
    ASSUME AccessInv, [AccessNext]_accessVars
    PROVE  AccessInv' /\ Keeps
  BY MintsKeep, ServesKeeps, BesideKeep DEF AccessNext

\* What a request knows of its caller, its key and its row still holds when it acts on it.
THEOREM Invariant == AccessSpec => []AccessInv
<1>1. AccessInit => AccessInv
  <2> SUFFICES ASSUME AccessInit PROVE AccessInv
    OBVIOUS
  <2>1. \A c \in Calls : call[c].pc = "new" /\ ~call[c].shown
    BY DEF AccessInit, NoCall
  <2>2. \A k \in ApiKeys : mint[k].pc = "new" /\ apiKeys[k].state = "none" /\ apiKeys[k].lastUsed = 0
    BY DEF AccessInit, NoMint, NoKey
  <2>3. \A k \in ApiKeys : KeyInv(k)
    BY <2>2 DEF AccessInit, KeyInv, Stored
  <2>4. \A c \in Calls : CallInv(c)
    BY <2>1 DEF CallInv, Working, Reading
  <2> QED
    BY <2>3, <2>4, InitTyped DEF AccessInv, AccessInit, ThingInv, Exists
<1>2. AccessInv /\ [AccessNext]_accessVars => AccessInv'
  BY StepKeeps
<1> QED
  BY <1>1, <1>2, PTL DEF AccessSpec

-----------------------------------------------------------------------------
\* Every reachable state is typed.
THEOREM TypeCorrect == AccessSpec => []AccessTypeOK
<1>1. AccessInv => AccessTypeOK
  BY DEF AccessInv
<1> QED
  BY <1>1, Invariant, PTL

\* Whoever is shown rows came with a good key of the user who created them, for every
\* interleaving of requests with revocations and removals.
THEOREM OwnRows == AccessSpec => []OwnRowsOnly
<1>1. AccessInv => OwnRowsOnly
  BY DEF AccessInv, OwnRowsOnly, CallInv
<1> QED
  BY <1>1, Invariant, PTL

\* However many requests write last_used_at at once, it is late by the throttle and one
\* stall at most, not by one stall each.
THEOREM LastUsed == AccessSpec => []LastUsedFresh
<1>1. AccessInv => LastUsedFresh
  BY DEF AccessInv, LastUsedFresh, KeyInv
<1> QED
  BY <1>1, Invariant, PTL

\* No step makes a revoked key good again.
THEOREM Revocations == AccessSpec => RevocationStays
<1>1. AccessInv /\ [AccessNext]_accessVars =>
         [\A k \in ApiKeys :
             apiKeys[k].state \in {"revoked", "gone"} => apiKeys'[k].state \in {apiKeys[k].state, "gone"}
         ]_accessVars
  BY StepKeeps DEF Keeps
<1> QED
  BY <1>1, Invariant, PTL DEF AccessSpec, RevocationStays

-----------------------------------------------------------------------------
(* The runtime of the workflow.                                            *)

AtWork == {"waiting", "using"} \union Locked

\* What the steps keep while the server waits for its requests: the lock is held by the
\* one request that builds a workflow, of which there is none yet; what is open is the
\* connection of the workflow or of that request; and after the last request there is
\* only the workflow to close.
WaitingInv ==
    /\ \A g \in Getters : getter[g] \in Locked <=> lock = g
    /\ \A g \in Getters : getter[g] = "using" => given[g] = workflow /\ workflow # Nobody
    /\ \A g \in Getters : getter[g] \in AtWork => app = "serving"
    /\ \A g \in Getters :
          connection[g] = "open" <=> g = checkpointer \/ getter[g] \in {"setup", "exiting"}
    /\ lock # Nobody => persistent /\ workflow = Nobody /\ checkpointer = Nobody
    /\ app = "serving" /\ persistent => checkpointer = workflow
    /\ ~persistent => checkpointer = Nobody
    /\ app = "exiting" => checkpointer # Nobody
    /\ app = "down" => checkpointer = Nobody

RuntimeInv == RuntimeTypeOK /\ (waits => WaitingInv)

\* Nobody has begun.
LEMMA InitHolds == RuntimeInit => RuntimeInv
  BY RuntimeAssumption
  DEF RuntimeInit, RuntimeInv, RuntimeTypeOK, WaitingInv, AtWork, Locked, GetterPc

\* Types are kept.
LEMMA StepsTyped ==
    ASSUME RuntimeTypeOK, [RuntimeNext]_runtimeVars
    PROVE  RuntimeTypeOK'
<1> USE DEF RuntimeTypeOK, GetterPc, Locked, Steps, Unlock, Gives
<1>1. ASSUME NEW g \in Getters, Get(g) \/ Acquire(g) \/ Entered(g) \/ SetUp(g),
             UNCHANGED <<persistent, waits>>
      PROVE  RuntimeTypeOK'
  BY <1>1 DEF Get, Acquire, Entered, SetUp
<1>2. ASSUME NEW g \in Getters,
             EnterFails(g) \/ SetupFails(g) \/ Exited(g) \/ Answered(g) \/ Cancelled(g),
             UNCHANGED <<persistent, waits>>
      PROVE  RuntimeTypeOK'
  BY <1>2 DEF EnterFails, SetupFails, Exited, Answered, Cancelled
<1>3. ASSUME ShutdownBegins \/ ProvidersFail \/ Close \/ Closed \/ CloseFails,
             UNCHANGED <<persistent, waits>>
      PROVE  RuntimeTypeOK'
  BY <1>3 DEF ShutdownBegins, ProvidersFail, Close, Closed, CloseFails
<1>4. CASE UNCHANGED runtimeVars
  BY <1>4 DEF runtimeVars
<1> QED
  BY <1>1, <1>2, <1>3, <1>4 DEF RuntimeNext

\* One step per action of a request, then those of the application.
LEMMA StepsKeep ==
    ASSUME RuntimeTypeOK, waits, WaitingInv, [RuntimeNext]_runtimeVars
    PROVE  WaitingInv'
<1> USE RuntimeAssumption DEF RuntimeTypeOK, WaitingInv, AtWork, Locked, Steps, Unlock, Gives
<1>1. ASSUME NEW g \in Getters, Get(g), UNCHANGED <<persistent, waits>> PROVE WaitingInv'
  BY <1>1 DEF Get
<1>2. ASSUME NEW g \in Getters, Acquire(g), UNCHANGED <<persistent, waits>> PROVE WaitingInv'
  <2>1. getter[g] = "waiting" /\ lock = Nobody /\ app = "serving"
        /\ UNCHANGED <<checkpointer, connection, app>>
    BY <1>2 DEF Acquire
  <2>2. CASE FoundUnderLock
    BY <1>2, <2>1, <2>2 DEF Acquire, FoundUnderLock
  <2>3. CASE ~FoundUnderLock /\ persistent
    BY <1>2, <2>1, <2>3 DEF Acquire, FoundUnderLock
  <2>4. CASE ~FoundUnderLock /\ ~persistent
    BY <1>2, <2>1, <2>4 DEF Acquire, FoundUnderLock
  <2> QED
    BY <2>2, <2>3, <2>4
<1>3. ASSUME NEW g \in Getters, Entered(g), UNCHANGED <<persistent, waits>> PROVE WaitingInv'
  BY <1>3 DEF Entered
<1>4. ASSUME NEW g \in Getters, SetUp(g), UNCHANGED <<persistent, waits>> PROVE WaitingInv'
  <2>1. /\ getter[g] = "setup" /\ lock = g /\ app = "serving" /\ persistent
        /\ workflow = Nobody /\ checkpointer = Nobody
    BY <1>4 DEF SetUp
  <2>2. /\ getter' = [getter EXCEPT ![g] = "using"] /\ given' = [given EXCEPT ![g] = g]
        /\ checkpointer' = g /\ workflow' = g /\ lock' = Nobody /\ UNCHANGED <<connection, app>>
    BY <1>4, <2>1 DEF SetUp
  <2>3. \A h \in Getters : getter[h] # "using" /\ (h # g => getter[h] \notin Locked)
    BY <2>1
  <2> QED
    BY <1>4, <2>1, <2>2, <2>3
<1>5. ASSUME NEW g \in Getters, EnterFails(g), UNCHANGED <<persistent, waits>> PROVE WaitingInv'
  BY <1>5 DEF EnterFails
<1>6. ASSUME NEW g \in Getters, SetupFails(g), UNCHANGED <<persistent, waits>> PROVE WaitingInv'
  BY <1>6 DEF SetupFails
<1>7. ASSUME NEW g \in Getters, Exited(g), UNCHANGED <<persistent, waits>> PROVE WaitingInv'
  BY <1>7 DEF Exited
<1>8. ASSUME NEW g \in Getters, Answered(g), UNCHANGED <<persistent, waits>> PROVE WaitingInv'
  BY <1>8 DEF Answered
<1>9. ASSUME NEW g \in Getters, Cancelled(g) PROVE FALSE
  BY <1>9 DEF Cancelled
<1>10. ASSUME ShutdownBegins, UNCHANGED <<persistent, waits>> PROVE WaitingInv'
  BY <1>10 DEF ShutdownBegins, Active
<1>11. ASSUME ProvidersFail \/ CloseFails, UNCHANGED <<persistent, waits>> PROVE WaitingInv'
  BY <1>11 DEF ProvidersFail, CloseFails
<1>12. ASSUME Close, UNCHANGED <<persistent, waits>> PROVE WaitingInv'
  BY <1>12 DEF Close
<1>13. ASSUME Closed, UNCHANGED <<persistent, waits>> PROVE WaitingInv'
  BY <1>13 DEF Closed
<1>14. CASE UNCHANGED runtimeVars
  BY <1>14 DEF runtimeVars
<1> QED
  BY <1>1, <1>2, <1>3, <1>4, <1>5, <1>6, <1>7, <1>8, <1>9, <1>10, <1>11, <1>12, <1>13, <1>14
  DEF RuntimeNext

\* The lock, the workflow and the connections agree, as long as the server waits.
THEOREM RuntimeInvariant == RuntimeSpec => []RuntimeInv
<1>1. RuntimeInv /\ [RuntimeNext]_runtimeVars => RuntimeInv'
  <2> SUFFICES ASSUME RuntimeInv, [RuntimeNext]_runtimeVars PROVE RuntimeInv'
    OBVIOUS
  <2>1. waits' = waits
    BY DEF RuntimeNext, runtimeVars
  <2> QED
    BY <2>1, StepsTyped, StepsKeep DEF RuntimeInv
<1> QED
  BY <1>1, InitHolds, PTL DEF RuntimeSpec

\* Every reachable state is typed.
THEOREM RuntimeTypes == RuntimeSpec => []RuntimeTypeOK
<1>1. RuntimeInv => RuntimeTypeOK
  BY DEF RuntimeInv
<1> QED
  BY <1>1, RuntimeInvariant, PTL

\* Any number of first requests share one workflow on one open connection, and what a
\* server that waits for them opened is closed when its shutdown is through.
THEOREM OneForAll == RuntimeSpec => []OneWorkflow
<1>1. RuntimeInv => OneWorkflow
  <2> SUFFICES ASSUME RuntimeInv, waits PROVE OneWorkflow
    BY DEF OneWorkflow
  <2>1. WaitingInv /\ RuntimeTypeOK
    BY DEF RuntimeInv
  <2>2. Open \subseteq {checkpointer, lock}
    BY <2>1 DEF WaitingInv, Open, Locked
  <2>3. ASSUME NEW g \in Getters, getter[g] = "using"
        PROVE  given[g] = workflow /\ workflow # Nobody /\ (persistent => workflow \in Open)
    BY <2>1, <2>3 DEF WaitingInv, RuntimeTypeOK, Open, AtWork
  <2>4. ASSUME app = "down" PROVE Open = {}
    BY <2>1, <2>4, RuntimeAssumption DEF WaitingInv, Open, AtWork, Locked
  <2> QED
    BY <2>2, <2>3, <2>4 DEF OneWorkflow
<1> QED
  BY <1>1, RuntimeInvariant, PTL
=============================================================================
