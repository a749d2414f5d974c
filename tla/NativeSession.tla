---------------------------- MODULE NativeSession ----------------------------
(***************************************************************************)
(* The native request/response protocol between a client                   *)
(* (ipir-native-client) and the evaluators that serve it (NativeServer).   *)
(*                                                                         *)
(* Every object the client keeps - published masks, prepared masks, a      *)
(* request, its precomputed decoding state - and every message carries the *)
(* setup identifier it was made under.  Replicas are rebuilt for new       *)
(* snapshots while old masks, requests and responses are still around; a   *)
(* generated request may be sent any number of times, to any replica, and  *)
(* a response may arrive late, twice, or never.  The application hands any *)
(* of its objects to any call: the checks inside the calls are all that    *)
(* keeps objects of different setups apart.                                *)
(*                                                                         *)
(* Ciphertext arithmetic is abstracted to provenance: what a decryption    *)
(* yields depends on which setup produced the masks, the body and the      *)
(* secret.  A snapshot ID stands for the database contents it names        *)
(* ("Snapshot IDs identify data versions"), and a setup for its SHA-256.   *)
(***************************************************************************)
EXTENDS Integers

CONSTANTS
    Replicas,      \* evaluators behind one address
    Profiles,      \* validated profiles; NativeProfile shows the ID binds them
    TwoMask,       \* the profiles with two-mask output
    Seeds,         \* public setup seeds
    Snapshots,     \* snapshot IDs
    Rows,          \* rows of every snapshot; larger targets are refused
    OutOfRange,    \* a target that is no row
    Queries,       \* requests the client may generate, each with fresh entropy
    Garbage        \* what decrypting mismatched ciphertext parts yields

ASSUME SessionConstants ==
    /\ TwoMask \subseteq Profiles
    /\ OutOfRange \notin Rows
    /\ Garbage \notin Snapshots \X Rows

Setup == [profile: Profiles, seed: Seeds, snapshot: Snapshots]

RequestMagic(p) == IF p \in TwoMask THEN "RNQ3" ELSE "RNQ1"
response_magic(p) == IF p \in TwoMask THEN "RNR2" ELSE "RNR1"

(* NativePublished: the identifier it is bound to and the evaluator whose     *)
(* preprocessing produced the masks.  NativePreparedPublished adds the        *)
(* profile; the masks' provenance doubles as the mask digest.                 *)
Published == [id: Setup, masks: Setup]
Prepared == [id: Setup, profile: Profiles, masks: Setup]
(* NativeRequest: decoding is {} or the prepared masks it was computed from. *)
Request == [setup: Setup, row: Rows, decoding: SUBSET Setup]
Response == [magic: {"RNR1", "RNR2"}, id: Setup, query: Queries, body: Setup]
Value == (Snapshots \X Rows) \union {Garbage}

VARIABLES
    serving,     \* per replica: {} or {the setup its preprocessing was built for}
    published,   \* published masks the client has parsed
    prepared,    \* prepared masks the client has cached
    request,     \* per query: {} or {the client's request object}
    responses,   \* responses sent so far; any of them may arrive at any time
    outcome      \* per query: every value a decode call returned

vars == <<serving, published, prepared, request, responses, outcome>>

Init ==
    /\ serving = [r \in Replicas |-> {}]
    /\ published = {}
    /\ prepared = {}
    /\ request = [q \in Queries |-> {}]
    /\ responses = {}
    /\ outcome = [q \in Queries |-> {}]

(* NativeServer::build for any setup; a replica may also go away. *)
build(r) == \E s \in Setup :
    /\ serving' = [serving EXCEPT ![r] = {s}]
    /\ UNCHANGED <<published, prepared, request, responses, outcome>>

Stop(r) ==
    /\ serving[r] # {}
    /\ serving' = [serving EXCEPT ![r] = {}]
    /\ UNCHANGED <<published, prepared, request, responses, outcome>>

(* NativeServer::published, fetched and parsed by from_bytes against a setup  *)
(* the client expanded itself; other magic or identifier bytes are refused.   *)
from_bytes(r) == \E s \in Setup : \E evaluator \in serving[r] :
    /\ evaluator = s
    /\ published' = published \union {[id |-> s, masks |-> evaluator]}
    /\ UNCHANGED <<serving, prepared, request, responses, outcome>>

(* NativePublished::prepare against a locally expanded setup. *)
prepare == \E pub \in published, s \in Setup :
    /\ pub.id = s
    /\ prepared' = prepared \union
           {[id |-> pub.id, profile |-> s.profile, masks |-> pub.masks]}
    /\ UNCHANGED <<serving, published, request, responses, outcome>>

generate(q) == \E s \in Setup, target \in Rows \union {OutOfRange} :
    /\ request[q] = {}
    /\ target \in Rows
    /\ request' = [request EXCEPT ![q] =
                      {[setup |-> s, row |-> target, decoding |-> {}]}]
    /\ UNCHANGED <<serving, published, prepared, responses, outcome>>

prepare_decode(q) == \E rq \in request[q], pre \in prepared :
    /\ pre.id = rq.setup
    /\ pre.profile = rq.setup.profile
    /\ request' = [request EXCEPT ![q] = {[rq EXCEPT !.decoding = {pre.masks}]}]
    /\ UNCHANGED <<serving, published, prepared, responses, outcome>>

(* NativeServer::respond: the body is computed from this replica's database   *)
(* and preprocessing for exactly these request bytes.                         *)
RequestAccepted(evaluator, rq) ==
    /\ RequestMagic(rq.setup.profile) = RequestMagic(evaluator.profile)
    /\ rq.setup = evaluator

respond(r, q) == \E evaluator \in serving[r], rq \in request[q] :
    /\ RequestAccepted(evaluator, rq)
    /\ responses' = responses \union
           {[magic |-> response_magic(evaluator.profile), id |-> evaluator,
             query |-> q, body |-> evaluator]}
    /\ UNCHANGED <<serving, published, prepared, request, outcome>>

(* Decryption: the row, if masks and body come from the evaluator of the      *)
(* request's setup and the body answers this request; garbage otherwise.      *)
Decrypt(q, rq, masks, resp) ==
    IF masks = rq.setup /\ resp.body = rq.setup /\ resp.query = q
    THEN <<rq.setup.snapshot, rq.row>>
    ELSE Garbage

(* Mutation: the query identifier of the response is not compared. *)
ResponseAcceptedAnyQuery(q, rq, resp) ==
    /\ resp.magic = response_magic(rq.setup.profile)
    /\ resp.id = rq.setup

ResponseAccepted(q, rq, resp) ==
    /\ resp.magic = response_magic(rq.setup.profile)
    /\ resp.id = rq.setup
    /\ resp.query = q

Returned(q, value) ==
    /\ outcome' = [outcome EXCEPT ![q] = @ \union {value}]
    /\ UNCHANGED <<serving, published, prepared, request, responses>>

(* Mutation: only the number of masks is compared, not the setup identifier. *)
MasksAcceptedAnySetup(rq, pub) ==
    (pub.masks.profile \in TwoMask) = (rq.setup.profile \in TwoMask)

(* Mutation: decode still insists on the one-mask layout. *)
MasksAcceptedOneMask(rq, pub) ==
    pub.id = rq.setup /\ pub.masks.profile \notin TwoMask

MasksAccepted(rq, pub) ==
    /\ pub.id = rq.setup
    /\ (pub.masks.profile \in TwoMask) = (rq.setup.profile \in TwoMask)

decode(q) == \E rq \in request[q], pub \in published, resp \in responses :
    /\ MasksAccepted(rq, pub)
    /\ ResponseAccepted(q, rq, resp)
    /\ Returned(q, Decrypt(q, rq, pub.masks, resp))

PreparedAccepted(rq, pre) ==
    /\ pre.id = rq.setup
    /\ pre.profile = rq.setup.profile
    /\ rq.decoding = {} \/ rq.decoding = {pre.masks}

decode_prepared(q) == \E rq \in request[q], pre \in prepared, resp \in responses :
    /\ PreparedAccepted(rq, pre)
    /\ ResponseAccepted(q, rq, resp)
    /\ Returned(q, Decrypt(q, rq, pre.masks, resp))

Next ==
    \/ \E r \in Replicas : build(r) \/ Stop(r) \/ from_bytes(r)
    \/ prepare
    \/ \E q \in Queries :
         \/ generate(q)
         \/ prepare_decode(q)
         \/ decode(q)
         \/ decode_prepared(q)
    \/ \E r \in Replicas, q \in Queries : respond(r, q)

Spec == Init /\ [][Next]_vars

(* An application that keeps resending a request and offering the responses   *)
(* it got to decode; an evaluator answers each request it is handed.          *)
Fairness == \A q \in Queries :
    /\ \A r \in Replicas : WF_vars(respond(r, q))
    /\ WF_vars(decode(q))

FairSpec == Spec /\ Fairness

-----------------------------------------------------------------------------
TypeOK ==
    /\ serving \in [Replicas -> SUBSET Setup]
    /\ published \subseteq Published
    /\ prepared \subseteq Prepared
    /\ request \in [Queries -> SUBSET Request]
    /\ responses \subseteq Response
    /\ outcome \in [Queries -> SUBSET Value]

(* Whatever mixture of masks, cached preparations and responses the           *)
(* application passes to decode and decode_prepared, across replica rebuilds  *)
(* and late or duplicated responses, a call that succeeds returns the row the *)
(* request asked for, of the snapshot it was made for.                        *)
DecodedRowIsRequested == \A q \in Queries : \A value \in outcome[q] :
    \E rq \in request[q] : value = <<rq.setup.snapshot, rq.row>>

(* The client's view is a retrieval session: the row asked for is the only    *)
(* answer, and asking happens before answering.                               *)
Abstract == INSTANCE Retrieval WITH
    asked <- [q \in Queries |->
                {<<rq.setup.snapshot, rq.row>> : rq \in request[q]}],
    answer <- outcome
RetrievalSpec == Abstract!Spec

(* A request whose setup one replica keeps serving, and whose masks the       *)
(* client holds, is eventually decoded: no binding check refuses a matching   *)
(* set of objects, however the other replicas are stopped and rebuilt for     *)
(* other setups, the request is answered by them, and masks and preparations  *)
(* of those setups fill the client's cache.                                   *)
Servable(r, q) == \E rq \in request[q] :
    /\ serving[r] = {rq.setup}
    /\ \E pub \in published : pub.id = rq.setup
ServedRequestsDecode == \A r \in Replicas, q \in Queries :
    <>[]Servable(r, q) => <>(outcome[q] # {})
=============================================================================
