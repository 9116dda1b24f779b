---------------------------- MODULE PoolRegistry ----------------------------
(***************************************************************************)
(* The creation of a pool, a saga over two stores with no transaction      *)
(* between them: D1 reserves the slug and keeps the answer to the          *)
(* idempotency key, the pool's Durable Object is initialized, and D1 takes *)
(* the outcome.  Requests with the same or different keys and slugs run    *)
(* concurrently; each await is a step.  The object's answer may be lost,   *)
(* a D1 statement may fail with or without effect, and a Worker may stop.  *)
(*                                                                         *)
(* Abstractions.  A request's material (creator, names, password) is one   *)
(* value, and two fingerprints are equal when slug and material are.  The  *)
(* row and the answer of a key are inserted by one batch, so the creator   *)
(* of the row is not kept beside the material of the answer.  The request  *)
(* whose randomUUID named the pool stands for the pool's id.  The object's *)
(* own 30-day expiry of processed commands is left out.                    *)
(***************************************************************************)
EXTENDS Naturals

CONSTANTS
  Request,    \* calls of PoolRegistry.create, and the ids of their pools
  Key,        \* idempotency keys
  Slug,       \* normalized slugs
  Material,   \* what the fingerprint covers beside the slug
  Sends,      \* what each request may send
  MayFail,    \* D1 statements may fail
  MayStop     \* a Worker may stop at any await

ASSUME FaultsAssumption ==
  /\ MayFail \in BOOLEAN /\ MayStop \in BOOLEAN
  /\ Sends \in [Request -> SUBSET [key : Key, slug : Slug, material : Material]]

VARIABLES
  registry,   \* pool_registry: pool -> row
  response,   \* pool_registry_command_response: key -> answer
  objects,    \* pools whose Durable Object is initialized
  call        \* the requests

registryVars == <<registry, response, objects, call>>

-----------------------------------------------------------------------------
Status == {"initializing", "ready", "failed"}
Input  == [key : Key, slug : Slug, material : Material]

\* What a caller is given: a record, an error, or nothing.
NoAnswer      == [kind |-> "none"]
Refused(code) == [kind |-> "error", code |-> code]
Record(status, version) ==
  [kind |-> "record", status |-> status, version |-> version]

\* A registry row that is not there, a request that has not been made.
Unreserved == [status |-> "none"]
NotMade       == [pc |-> "idle"]

Reserved(p)   == registry[p].status # "none"
Responded(k)  == response[k].answer # NoAnswer

RegistryInit ==
  /\ registry = [p \in Request |-> Unreserved]
  /\ response = [k \in Key |-> [answer |-> NoAnswer]]
  /\ objects = {}
  /\ call = [r \in Request |-> NotMade]

Stage(r, pc) == call[r].pc = pc

StepTo(r, pc) == call' = [call EXCEPT ![r].pc = pc]

Answer(r, a) ==
  call' = [call EXCEPT ![r] = [pc |-> "done", input |-> @.input, answer |-> a]]

\* The stored answer was given to the same request.
SameRequest(stored, in) == stored.slug = in.slug /\ stored.material = in.material

-----------------------------------------------------------------------------
(* PoolRegistry.create *)

Call(r, in) ==
  /\ Stage(r, "idle")
  /\ call' = [call EXCEPT ![r] = [pc |-> "replay", input |-> in]]
  /\ UNCHANGED <<registry, response, objects>>

Replay(r) ==
  /\ Stage(r, "replay")
  /\ LET in == call[r].input
     IN  IF ~Responded(in.key) THEN StepTo(r, "reserve")
         ELSE Answer(r, IF SameRequest(response[in.key], in)
                        THEN response[in.key].answer ELSE Refused("IDEMPOTENCY_CONFLICT"))
  /\ UNCHANGED <<registry, response, objects>>

\* Fault: the key is not unique in either table.
SlugUnique(in) == \A p \in Request : Reserved(p) => registry[p].slug # in.slug

\* The unique constraints of both tables.
Reservable(in) ==
  /\ ~Responded(in.key)
  /\ \A p \in Request :
       Reserved(p) => registry[p].slug # in.slug /\ registry[p].key # in.key

\* A statement or batch that throws, whether or not it took effect.
D1Throws(r, pc) == MayFail /\ StepTo(r, pc)

Initialize(r, pool) ==
  call' = [call EXCEPT ![r] = [pc |-> "initialize", input |-> @.input, pool |-> pool]]

Insert(r, in) ==
  /\ registry' = [registry EXCEPT ![r] =
       [status |-> "initializing", key |-> in.key, slug |-> in.slug]]
  /\ response' = [response EXCEPT ![in.key] =
       [answer |-> Record("initializing", 0), slug |-> in.slug, material |-> in.material]]

\* One batch.  Any error, a constraint's or D1's, leads to the conflict branch.
Reserve(r) ==
  /\ Stage(r, "reserve")
  /\ LET in == call[r].input
     IN  \/ /\ Reservable(in)
            /\ Insert(r, in)
            /\ Initialize(r, r) \/ D1Throws(r, "conflict")
         \/ /\ (~Reservable(in) /\ StepTo(r, "conflict")) \/ D1Throws(r, "conflict")
            /\ UNCHANGED <<registry, response>>
  /\ UNCHANGED objects

\* The row of the key, if there is one, is kept while the answer is read.
ReadReservation(r) ==
  /\ Stage(r, "conflict")
  /\ LET in    == call[r].input
         found == {p \in Request : Reserved(p) /\ registry[p].key = in.key}
     IN  IF found = {} THEN Answer(r, Refused("SLUG_RESERVED"))
         ELSE \E p \in found :
                call' = [call EXCEPT ![r] =
                  [pc |-> "compare", input |-> in, pool |-> p, seen |-> registry[p].status]]
  /\ UNCHANGED <<registry, response, objects>>

\* Fault: the conflict branch does not compare the fingerprint.
CompareNothing(r) ==
  /\ Stage(r, "compare")
  /\ IF call[r].seen = "initializing" THEN Initialize(r, call[r].pool)
     ELSE Answer(r, Record(call[r].seen, 0))
  /\ UNCHANGED <<registry, response, objects>>

\* The answer is made from the row that was read before: toRecord gives it
\* version 0, whatever the version of the stored answer.
CompareResponse(r) ==
  /\ Stage(r, "compare")
  /\ LET in   == call[r].input
         seen == call[r].seen
     IN  IF ~SameRequest(response[in.key], in)
         THEN Answer(r, Refused("IDEMPOTENCY_CONFLICT"))
         ELSE IF seen = "initializing" THEN Initialize(r, call[r].pool)
         ELSE Answer(r, Record(seen, 0))
  /\ UNCHANGED <<registry, response, objects>>

-----------------------------------------------------------------------------
(* PoolRegistry.finish *)

\* Fault: an answer that did not arrive is taken as success.
InitializeUnheard(r) ==
  /\ Stage(r, "initialize")
  /\ objects' \in {objects, objects \cup {call[r].pool}}
  /\ StepTo(r, "ready")
  /\ UNCHANGED <<registry, response>>

\* The object initializes itself once and repeats its answer to the same command.
\* The answer may be lost after it, or the request before it.
InitializePool(r) ==
  /\ Stage(r, "initialize")
  /\ \/ /\ objects' = objects \cup {call[r].pool}
        /\ StepTo(r, "ready") \/ StepTo(r, "failed")
     \/ StepTo(r, "failed") /\ UNCHANGED objects
  /\ UNCHANGED <<registry, response>>

SetStatus(pool, status) == registry' = [registry EXCEPT ![pool].status = status]

\* Fault: the stored answer is replaced by any later one.
PersistAlways(key, a) == response' = [response EXCEPT ![key].answer = a]

\* persistResponse: the stored answer is replaced while it is "initializing".
persistResponse(key, a) ==
  response' = IF response[key].answer.status = "initializing"
              THEN [response EXCEPT ![key].answer = a] ELSE response

MarkReady(r) ==
  /\ Stage(r, "ready")
  /\ \/ /\ SetStatus(call[r].pool, "ready")
        /\ StepTo(r, "persistReady") \/ D1Throws(r, "failed")
     \/ UNCHANGED registry /\ D1Throws(r, "failed")
  /\ UNCHANGED <<response, objects>>

PersistReady(r) ==
  /\ Stage(r, "persistReady")
  /\ LET a == Record("ready", 1)
     IN  \/ /\ persistResponse(call[r].input.key, a)
            /\ Answer(r, a) \/ D1Throws(r, "failed")
         \/ UNCHANGED response /\ D1Throws(r, "failed")
  /\ UNCHANGED <<registry, objects>>

\* The catch branch has none of its own: an error in it is the caller's.
Throws(r) == MayFail /\ Answer(r, Refused("INTERNAL"))

MarkFailed(r) ==
  /\ Stage(r, "failed")
  /\ \/ /\ SetStatus(call[r].pool, "failed")
        /\ StepTo(r, "persistFailed") \/ Throws(r)
     \/ UNCHANGED registry /\ Throws(r)
  /\ UNCHANGED <<response, objects>>

\* Fault: the error is stored and returned as it is.
FailedAsError == Refused("POOL_INITIALIZATION_FAILED")

FailedAnswer == Record("failed", 0)

PersistFailed(r) ==
  /\ Stage(r, "persistFailed")
  /\ \/ /\ persistResponse(call[r].input.key, FailedAnswer)
        /\ Answer(r, FailedAnswer) \/ Throws(r)
     \/ UNCHANGED response /\ Throws(r)
  /\ UNCHANGED <<registry, objects>>

\* The Worker stops, or a read throws: the caller has no record.
Stop(r) ==
  /\ MayStop /\ call[r].pc \notin {"idle", "done"}
  /\ Answer(r, NoAnswer)
  /\ UNCHANGED <<registry, response, objects>>

Step(r) ==
  \/ Replay(r) \/ Reserve(r) \/ ReadReservation(r) \/ CompareResponse(r)
  \/ InitializePool(r) \/ MarkReady(r) \/ PersistReady(r)
  \/ MarkFailed(r) \/ PersistFailed(r)

RegistryNext ==
  \E r \in Request :
    \/ \E in \in Sends[r] : Call(r, in)
    \/ Step(r) \/ Stop(r)

RegistrySpec == RegistryInit /\ [][RegistryNext]_registryVars

-----------------------------------------------------------------------------
(* Properties *)

Records == [kind : {"record"}, status : Status, version : 0..1]

RegistryTypeOK ==
  /\ registry \in [Request ->
       {Unreserved} \cup [status : Status, key : Key, slug : Slug]]
  /\ response \in [Key ->
       {[answer |-> NoAnswer]}
         \cup [answer : Records, slug : Slug, material : Material]]
  /\ objects \subseteq Request
  /\ \A r \in Request :
       /\ call[r].pc \in {"idle", "replay", "reserve", "conflict", "compare", "initialize",
                          "ready", "persistReady", "failed", "persistFailed", "done"}
       /\ call[r].pc # "idle" => call[r].input \in Input
       /\ call[r].pc \in {"compare", "initialize", "ready", "persistReady", "failed",
                          "persistFailed"} => call[r].pool \in Request

Final(a) == a.kind = "record" /\ a.status # "initializing"

\* A pool is initialized only under a reservation, and a key never comes to own two
\* pools, however often and concurrently it is sent.
PoolsAreReserved ==
  /\ \A p \in objects : Reserved(p)
  /\ \A p, q \in Request :
       Reserved(p) /\ Reserved(q) /\ registry[p].key = registry[q].key => p = q

\* Neither the directory nor a stored answer says "ready" of a pool whose object has
\* not been initialized, and no caller is told so.
ReadyIsInitialized ==
  /\ \A p \in Request : registry[p].status = "ready" => p \in objects
  /\ \A k \in Key :
       Final(response[k].answer) /\ response[k].answer.status = "ready" =>
         \E p \in objects : registry[p].key = k
  /\ \A r \in Request :
       Stage(r, "done") /\ Final(call[r].answer) /\ call[r].answer.status = "ready" =>
         \E p \in objects : registry[p].key = call[r].input.key

\* A record is given only to the request that made the reservation: a caller that
\* sends the same key with another slug or other material is refused at every stage.
RecordsAreTheRequesters ==
  \A r \in Request :
    Stage(r, "done") /\ call[r].answer.kind = "record" =>
      SameRequest(response[call[r].input.key], call[r].input)

\* A final stored answer is the answer for good: a slower request of the same key
\* that fails does not take it back.
AnswerStands ==
  [][\A k \in Key : Final(response[k].answer) => response'[k] = response[k]]_registryVars

\* A creation that is repeated, raced or cut off leaves one pool to a key, only its
\* owner learns of it, and what was answered stands.
CreationIsSafe ==
  /\ [](RegistryTypeOK /\ PoolsAreReserved /\ ReadyIsInitialized /\ RecordsAreTheRequesters)
  /\ AnswerStands
=============================================================================
