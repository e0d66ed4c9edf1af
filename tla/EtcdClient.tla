----------------------------- MODULE EtcdClient -----------------------------
(* v3/: the key-value actions of the etcd client.  An action object builds a   *)
(* request (a transaction with a comparison, or a plain range request), sends  *)
(* it when it is constructed, waits for the one reply, and ParseResponse turns *)
(* that into error code, value and previous value.  Several clients share one  *)
(* etcd server, which is external: it runs a request in one step, and the      *)
(* reply may be lost after that or the request before it.                      *)
EXTENDS Integers, Sequences, FiniteSets, FiniteSetsExt, SequencesExt

CONSTANTS
  Clients,
  Keys,        \* keys: sequences of bytes
  MaxByte,     \* largest byte (255 in the code)
  Parameters,  \* [op, key, value, old_value, old_revision, withPrefix]
  MaxCalls,    \* calls in a behaviour
  MaxRevision  \* writes of the server

VARIABLES
  store,       \* server: KeyValue of each key, NoKv if it is absent
  revision,    \* server: its revision
  call,        \* per client: the action object
  calls        \* calls so far

vars == <<store, revision, call, calls>>

(* A KeyValue that was never set (the default of the message). *)
NoKv == [key |-> <<>>, value |-> 0, version |-> 0, mod_revision |-> 0]
Present(s, k) == s[k].version > 0

-----------------------------------------------------------------------------
(* Transaction: the requests.                                                  *)

Put(key, value) == [req |-> "put", key |-> key, value |-> value]
Get(key) == [req |-> "range", key |-> key, range_end |-> <<>>]
DeleteKey(key) == [req |-> "delete_range", key |-> key, range_end |-> <<>>]

init_compare(p, target, result, operand) ==
  [key |-> p.key, target |-> target, result |-> result, operand |-> operand]

(* PREV_VALUE or PREV_INDEX. *)
prev_compare(p) ==
  IF p.op \in {"cas_value", "cad_value"} THEN init_compare(p, "VALUE", "EQUAL", p.old_value)
  ELSE init_compare(p, "MOD", "EQUAL", p.old_revision)

(* The range of a prefix ends at the key with its last byte one higher, a      *)
(* char.                                                                       *)
range_end(key) == [key EXCEPT ![Len(key)] = (key[Len(key)] + 1) % (MaxByte + 1)]

Ranged(p, req) == [req |-> req, key |-> p.key,
                   range_end |-> IF p.withPrefix THEN range_end(p.key) ELSE <<>>]

Txn(compare, success, failure) ==
  [compare |-> {compare}, success |-> success, failure |-> failure]

Plain(p, req) == [compare |-> {}, success |-> <<Ranged(p, req)>>, failure |-> <<>>]

(* AsyncSetAction: create fails on a key that exists, set overwrites it. *)
createRequest(p) ==
  Txn(init_compare(p, "VERSION", "EQUAL", 0),
      <<Put(p.key, p.value), Get(p.key)>>, <<Get(p.key)>>)
setRequest(p) ==
  Txn(init_compare(p, "VERSION", "EQUAL", 0),
      <<Put(p.key, p.value), Get(p.key)>>, <<Put(p.key, p.value), Get(p.key)>>)

updateRequest(p) ==
  Txn(init_compare(p, "VERSION", "GREATER", 0), <<Put(p.key, p.value), Get(p.key)>>, <<>>)

swapRequest(p) ==
  Txn(prev_compare(p), <<Put(p.key, p.value), Get(p.key)>>, <<Get(p.key)>>)
compareDeleteRequest(p) == Txn(prev_compare(p), <<DeleteKey(p.key)>>, <<Get(p.key)>>)

request(p) ==
  CASE p.op = "get" -> Plain(p, "range")
    [] p.op = "delete" -> Plain(p, "delete_range")
    [] p.op = "create" -> createRequest(p)
    [] p.op = "set" -> setRequest(p)
    [] p.op = "update" -> updateRequest(p)
    [] p.op \in {"cas_value", "cas_index"} -> swapRequest(p)
    [] p.op \in {"cad_value", "cad_index"} -> compareDeleteRequest(p)

-----------------------------------------------------------------------------
(* The server, external: keys in byte order, versions, revisions.              *)

RECURSIVE Less(_, _)
Less(a, b) == IF a = <<>> \/ b = <<>> THEN a = <<>> /\ b # <<>>
              ELSE a[1] < b[1] \/ (a[1] = b[1] /\ Less(Tail(a), Tail(b)))

InRange(req, k) ==
  CASE req.range_end = <<>> -> k = req.key
    [] req.range_end = <<0>> -> ~Less(k, req.key)
    [] OTHER -> ~Less(k, req.key) /\ Less(k, req.range_end)

Selected(s, req) ==
  LET keys == SetToSortSeq({k \in Keys : Present(s, k) /\ InRange(req, k)}, Less)
  IN [i \in DOMAIN keys |-> s[keys[i]]]

Holds(s, c) ==
  CASE c.target = "VERSION" /\ c.result = "EQUAL" -> s[c.key].version = c.operand
    [] c.target = "VERSION" /\ c.result = "GREATER" -> s[c.key].version > c.operand
    [] c.target = "MOD" -> s[c.key].mod_revision = c.operand
    [] c.target = "VALUE" -> Present(s, c.key) /\ s[c.key].value = c.operand

(* One request of a transaction: the store after it, and its response. *)
Perform(s, req) ==
  CASE req.req = "put" ->
         [store |-> [s EXCEPT ![req.key] = [key |-> req.key, value |-> req.value,
                       version |-> s[req.key].version + 1, mod_revision |-> revision + 1]],
          resp |-> [case |-> "put", kvs |-> IF Present(s, req.key) THEN <<s[req.key]>> ELSE <<>>]]
    [] req.req = "range" -> [store |-> s, resp |-> [case |-> "range", kvs |-> Selected(s, req)]]
    [] req.req = "delete_range" ->
         [store |-> [k \in Keys |-> IF InRange(req, k) THEN NoKv ELSE s[k]],
          resp |-> [case |-> "delete_range", kvs |-> Selected(s, req)]]

Execute(s, r) ==
  LET succeeded == \A c \in r.compare : Holds(s, c)
      run == FoldLeft(LAMBDA acc, req :
                        LET one == Perform(acc.store, req)
                        IN [store |-> one.store, responses |-> Append(acc.responses, one.resp)],
                      [store |-> s, responses |-> <<>>],
                      IF succeeded THEN r.success ELSE r.failure)
  IN [succeeded |-> succeeded, store |-> run.store, responses |-> run.responses]

-----------------------------------------------------------------------------
(* ParseResponse.                                                              *)

Response == [error_code |-> 0, action |-> "", value |-> NoKv, prev_value |-> NoKv,
             values |-> <<>>]

AsyncRangeResponse(kvs, prefix) ==
  IF kvs = <<>> THEN [Response EXCEPT !.action = "get", !.error_code = 100]
  ELSE IF prefix THEN [Response EXCEPT !.action = "get", !.values = kvs]
  ELSE [Response EXCEPT !.action = "get", !.value = kvs[1]]

AsyncDeleteRangeResponse(kvs, prefix) ==
  IF kvs = <<>> THEN [Response EXCEPT !.error_code = 100]
  ELSE IF prefix THEN [Response EXCEPT !.action = "delete", !.values = kvs]
  ELSE [Response EXCEPT !.action = "delete", !.prev_value = kvs[1],
                        !.value = [kvs[1] EXCEPT !.value = 0]]

(* The responses of a transaction one after the other: a range sets error and  *)
(* value, a put the previous value, a delete both values and no error.         *)
AsyncTxnResponse(responses) ==
  FoldLeft(LAMBDA r, one :
             CASE one.case = "range" ->
                    LET g == AsyncRangeResponse(one.kvs, FALSE)
                    IN [r EXCEPT !.error_code = g.error_code, !.value = g.value]
               [] one.case = "put" ->
                    IF one.kvs = <<>> THEN r ELSE [r EXCEPT !.prev_value = one.kvs[1]]
               [] one.case = "delete_range" ->
                    LET d == AsyncDeleteRangeResponse(one.kvs, FALSE)
                    IN [r EXCEPT !.prev_value = d.prev_value, !.value = d.value],
           Response, responses)

(* Mutation: a comparison that failed is not reported. *)
parse_NoCompareError(p, reply) ==
  [AsyncTxnResponse(reply.responses) EXCEPT !.action = p.op]

(* AsyncSetAction::ParseResponse. *)
setParse(p, reply) ==
  [AsyncTxnResponse(reply.responses) EXCEPT
     !.action = p.op,
     !.error_code = IF p.op = "create" /\ ~reply.succeeded THEN 105 ELSE @]

(* AsyncUpdateAction::ParseResponse. *)
updateParse(p, reply) ==
  IF reply.succeeded THEN [AsyncTxnResponse(reply.responses) EXCEPT !.action = p.op]
  ELSE [Response EXCEPT !.error_code = 100]

(* AsyncCompareAndSwapAction::ParseResponse: a missing key goes before a       *)
(* comparison that failed.                                                     *)
swapParse(p, reply) ==
  [AsyncTxnResponse(reply.responses) EXCEPT
     !.action = p.op,
     !.error_code = IF reply.succeeded \/ @ # 0 THEN @ ELSE 101]

(* AsyncCompareAndDeleteAction::ParseResponse. *)
compareDeleteParse(p, reply) ==
  [AsyncTxnResponse(reply.responses) EXCEPT
     !.action = p.op,
     !.error_code = IF reply.succeeded THEN @ ELSE 101]

(* The action's ParseResponse for a reply with an ok status. *)
parse(p, reply) ==
  CASE p.op = "get" -> AsyncRangeResponse(reply.responses[1].kvs, p.withPrefix)
    [] p.op = "delete" -> AsyncDeleteRangeResponse(reply.responses[1].kvs, p.withPrefix)
    [] p.op \in {"create", "set"} -> setParse(p, reply)
    [] p.op = "update" -> updateParse(p, reply)
    [] p.op \in {"cas_value", "cas_index"} -> swapParse(p, reply)
    [] p.op \in {"cad_value", "cad_index"} -> compareDeleteParse(p, reply)

-----------------------------------------------------------------------------
(* An action object: built and sent, executed, answered and parsed.  before    *)
(* and after are the stores around the execution, for the properties only.     *)
Idle == [phase |-> "idle"]

construct(c, p) ==
  /\ call[c].phase \in {"idle", "parsed"} /\ calls < MaxCalls
  /\ call' = [call EXCEPT ![c] = [phase |-> "sent", p |-> p, ok |-> FALSE, resp |-> Response,
                                  before |-> store, after |-> store, ran |-> FALSE]]
  /\ calls' = calls + 1
  /\ UNCHANGED <<store, revision>>

(* The server executes a request and answers; the answer can be lost. *)
execute(c) ==
  LET run == Execute(store, request(call[c].p))
      wrote == run.store # store
  IN /\ call[c].phase = "sent" /\ revision + 1 <= MaxRevision
     /\ store' = run.store
     /\ revision' = IF wrote THEN revision + 1 ELSE revision
     /\ \E ok \in BOOLEAN :
          call' = [call EXCEPT ![c].phase = "replied", ![c].ok = ok, ![c].ran = TRUE,
                     ![c].before = store, ![c].after = run.store,
                     ![c].resp = IF ok THEN parse(call[c].p, run) ELSE Response]
     /\ UNCHANGED calls

(* The request is lost, or refused: the status is not ok. *)
unavailable(c) ==
  /\ call[c].phase = "sent"
  /\ call' = [call EXCEPT ![c].phase = "replied"]
  /\ UNCHANGED <<store, revision, calls>>

(* waitForResponse returns, and ParseResponse: the status's code, or the reply. *)
waitForResponse(c) ==
  /\ call[c].phase = "replied"
  /\ call' = [call EXCEPT ![c].phase = "parsed",
                          ![c].resp.error_code = IF call[c].ok THEN @ ELSE 14]
  /\ UNCHANGED <<store, revision, calls>>

Init ==
  /\ store = [k \in Keys |-> NoKv] /\ revision = 1
  /\ call = [c \in Clients |-> Idle] /\ calls = 0

Next == \E c \in Clients :
          \/ \E p \in Parameters : construct(c, p)
          \/ execute(c) \/ unavailable(c) \/ waitForResponse(c)

Spec == Init /\ [][Next]_vars

-----------------------------------------------------------------------------
TypeOK ==
  /\ revision \in 1..MaxRevision /\ calls \in 0..MaxCalls
  /\ \A k \in Keys : store[k].mod_revision <= revision

Answered(c) == call[c].phase = "parsed" /\ call[c].ok
Old(c) == call[c].before[call[c].p.key]
New(c) == call[c].after[call[c].p.key]

(* The error code tells whether the request took effect: 0 only if the write   *)
(* was made (or the key read), and every other code only if nothing changed.   *)
CodeTellsEffect ==
  \A c \in Clients : Answered(c) =>
    /\ call[c].resp.error_code # 0 => call[c].after = call[c].before
    /\ (call[c].resp.error_code = 0 /\ call[c].p.op \notin {"get", "delete", "cad_value", "cad_index"})
         => New(c).value = call[c].p.value /\ New(c).version = Old(c).version + 1

(* 100 is returned only for a key that is absent, 105 only by create and only  *)
(* for one that exists, 101 only if the comparison fails; create succeeds only *)
(* on an absent key (of two clients one creates it), update on one that exists.*)
CodeTellsReason ==
  \A c \in Clients : Answered(c) =>
    LET code == call[c].resp.error_code
        p == call[c].p
    IN /\ (code = 100 /\ ~p.withPrefix) => Old(c) = NoKv
       /\ code = 105 => p.op = "create" /\ Old(c) # NoKv
       /\ code = 101 => ~Holds(call[c].before, prev_compare(p))
       /\ (code = 0 /\ p.op = "create") => Old(c) = NoKv
       /\ (code = 0 /\ p.op = "update") => Old(c) # NoKv
       /\ p.op = "set" => code = 0

(* What a write reports is one moment of the key: the value is the one it      *)
(* wrote and the previous one the one it replaced, whoever else writes.        *)
ReportsOneMoment ==
  \A c \in Clients :
    (Answered(c) /\ call[c].p.op \in {"create", "set", "update", "cas_value", "cas_index"}
       /\ call[c].resp.error_code = 0) =>
      call[c].resp.value = New(c) /\ call[c].resp.prev_value = Old(c)

(* A get or delete with a prefix reports exactly the keys with that prefix, in *)
(* order, whenever the last byte of the prefix is not the largest.             *)
PrefixExact ==
  \A c \in Clients :
    LET p == call[c].p
        HasPrefix(k) == IsPrefix(p.key, k)
    IN (Answered(c) /\ p.withPrefix /\ p.key[Len(p.key)] < MaxByte) =>
         LET want == {k \in Keys : HasPrefix(k) /\ Present(call[c].before, k)}
             got == call[c].resp.values
         IN /\ {got[i].key : i \in DOMAIN got} = want /\ Len(got) = Cardinality(want)
            /\ p.op = "delete" =>
                 call[c].after = [k \in Keys |-> IF HasPrefix(k) THEN NoKv
                                                 ELSE call[c].before[k]]
=============================================================================
