----------------------------- MODULE OemRequests -----------------------------
(***************************************************************************)
(* The OEM actions SubmitAlert and SubmitTelemetry from the HTTP request   *)
(* to the worker: bmcweb checks the request and forwards its JSON in a     *)
(* D-Bus call (sonic_submit_alert.hpp, sonic_submit_telemetry.hpp); the    *)
(* bridge makes a job of it, or refuses it.  OemActions adds what the      *)
(* worker stores.                                                          *)
(*                                                                         *)
(* D-Bus delivers the calls in order.  A call that the bridge has not      *)
(* answered in time is an error for bmcweb, and stays a call for the       *)
(* bridge.  The worker's failures are the subject of RackManagerReceiver.  *)
(*                                                                         *)
(* A body is a JSON document, a function from places to nodes.  A place is *)
(* the sequence of positions that leads to a node from the root, which is  *)
(* at <<>>; the members of an object are in jsoncpp's order.  A node is    *)
(* [kind, name, size, severity, value]: its name in the object it is a     *)
(* member of, the number of its own members, an object's string member     *)
(* "Severity" or "none", and a number's value.  The names stand for the    *)
(* regular expressions they match.  The members Severity and RscmPosition, *)
(* which are passed over, are no members here; text that is no JSON is the *)
(* document without nodes.                                                 *)
(*                                                                         *)
(* A definition whose name ends in _ is a faulty variant of the one after  *)
(* it: the property that notices the fault is named with it.               *)
(***************************************************************************)
EXTENDS Naturals, Sequences, FiniteSets, SequencesExt

CONSTANTS
  Envelope,        (* mode -> the names that its envelope pattern matches    *)
  Requests,        (* a sequence of sets: what may be posted first, second.. *)
  MaxQueueDepth    (* kMaxQueueDepth (1024 in the code)                      *)

Mode == {"alert", "telemetry"}

(* Members are where their places say, and only objects and arrays have any. *)
IsDocument(document) ==
  /\ IsFiniteSet(DOMAIN document)
  /\ \A place \in DOMAIN document :
       LET node == document[place]
       IN /\ place \in Seq(Nat \ {0})
          /\ place # <<>> =>
               Front(place) \in DOMAIN document /\ Last(place) \in 1 .. document[Front(place)].size
          /\ node.size \in Nat
          /\ \A i \in 1 .. node.size : Append(place, i) \in DOMAIN document
          /\ node.kind \notin {"object", "array"} => node.size = 0
          /\ node.kind # "object" => node.severity = "none"

Malformed(document) == DOMAIN document = {}

(* What is posted: the manager it names, whether its body fits into 64 KiB, the
   action, and the body. *)
ASSUME OemAssumption ==
  /\ MaxQueueDepth \in Nat \ {0}
  /\ DOMAIN Envelope = Mode
  /\ Len(Requests) \in Nat /\ DOMAIN Requests = 1 .. Len(Requests)
  /\ \A i \in DOMAIN Requests : \A r \in Requests[i] :
       DOMAIN r = {"manager", "fits", "mode", "body"} /\ r.mode \in Mode
                                                      /\ IsDocument(r.body)

VARIABLES
  posted,       (* the requests, as they come                                *)
  answers,      (* per request, the message in the response, or Unanswered   *)
  calls,        (* D-Bus calls that the bridge has not looked at: requests   *)
  queue,        (* queue_: the requests whose jobs wait                      *)
  accepted,     (* history: the requests that became jobs                    *)
  drained       (* history: how many of the jobs the worker has taken        *)

requestVars == <<posted, answers, calls, queue, accepted, drained>>

Unanswered == "none"

RequestsInit ==
  /\ posted = <<>> /\ answers = <<>>
  /\ calls = <<>> /\ queue = <<>> /\ accepted = {}
  /\ drained = 0

-----------------------------------------------------------------------------
(* What an envelope is, for bmcweb and for the bridge. *)

(* The members of the root whose names match. *)
EnvelopesIn(mode, document) ==
  {i \in 1 .. document[<<>>].size : document[<<i>>].name \in Envelope[mode]}

HasEnvelope(mode, document) ==
  /\ ~Malformed(document) /\ document[<<>>].kind = "object"
  /\ EnvelopesIn(mode, document) # {}

-----------------------------------------------------------------------------
(* bmcweb.  sonicOemValidateRequest() and the test for an envelope. *)

EnvelopeAsked_(request) == request.body[<<>>].kind = "object"   (* OnlyAFullQueueRefuses *)
EnvelopeAsked(request) == HasEnvelope(request.mode, request.body)

Refusal(request) ==
  CASE request.manager # "bmc" -> "resourceNotFound"
    [] ~request.fits -> "payloadTooLarge"
    [] Malformed(request.body) -> "malformedJSON"
    [] ~EnvelopeAsked(request) -> "propertyMissing"
    [] OTHER -> Unanswered

(* handleSonicSubmitAlert(), handleSonicSubmitTelemetry(): a request that passes
   is forwarded, or nobody owns the bridge's name. *)
Post(request) ==
  /\ posted' = Append(posted, request)
  /\ \/ /\ answers' = Append(answers, Refusal(request))
        /\ calls' = IF Refusal(request) = Unanswered
                      THEN Append(calls, Len(posted')) ELSE calls
     \/ /\ Refusal(request) = Unanswered
        /\ answers' = Append(answers, "serviceTemporarilyUnavailable")
        /\ UNCHANGED calls
  /\ UNCHANGED <<queue, accepted, drained>>

TimesOut ==
  /\ \E r \in ToSet(calls) :
       /\ answers[r] = Unanswered
       /\ answers' = [answers EXCEPT ![r] = "serviceTemporarilyUnavailable"]
  /\ UNCHANGED <<posted, calls, queue, accepted, drained>>

(* The callback of the call, unless it was called before. *)
Reply(r, status) ==
  answers' = IF answers[r] = Unanswered THEN [answers EXCEPT ![r] = status] ELSE answers

-----------------------------------------------------------------------------
(* The bridge: the D-Bus methods on its main thread, and the worker. *)

Full == Len(queue) >= MaxQueueDepth

PushAnyway_(r) == queue' = Append(queue, r) /\ accepted' = accepted \cup {r}   (* AnswersTell *)
Push(r) ==
  IF Full THEN UNCHANGED <<queue, accepted>>
          ELSE queue' = Append(queue, r) /\ accepted' = accepted \cup {r}

(* False is operationFailed for bmcweb. *)
SubmitMethod ==
  /\ calls # <<>>
  /\ calls' = Tail(calls)
  /\ LET r == Head(calls)
     IN IF HasEnvelope(posted[r].mode, posted[r].body)
          THEN Push(r) /\ Reply(r, IF Full THEN "operationFailed" ELSE "no_content")
          ELSE Reply(r, "operationFailed") /\ UNCHANGED <<queue, accepted>>
  /\ UNCHANGED <<posted, drained>>

Drain ==
  /\ queue # <<>>
  /\ queue' = Tail(queue)
  /\ drained' = drained + 1
  /\ UNCHANGED <<posted, answers, calls, accepted>>

RequestsNext ==
  \/ /\ Len(posted) < Len(Requests)
     /\ \E request \in Requests[Len(posted) + 1] : Post(request)
  \/ TimesOut
  \/ SubmitMethod
  \/ Drain

RequestsSpec == RequestsInit /\ [][RequestsNext]_requestVars

-----------------------------------------------------------------------------
(***************************************************************************)
(* Properties                                                              *)
(***************************************************************************)

(* What a client may conclude from the answer: no_content is a job, a refusal is
   none and never will be; only serviceTemporarilyUnavailable leaves it open. *)
AnswersTell ==
  \A r \in DOMAIN answers :
    /\ answers[r] = "no_content" => r \in accepted
    /\ answers[r] \notin {Unanswered, "no_content", "serviceTemporarilyUnavailable"}
         => r \notin accepted \cup ToSet(calls)

(* The bridge refuses a payload that bmcweb forwarded only because its queue is
   full: all else that it tests, bmcweb has tested before.  That the patterns and
   JSON libraries of the two find the same envelopes is assumed (HasEnvelope). *)
OnlyAFullQueueRefuses ==
  [][\A r \in DOMAIN answers :
       answers[r] = Unanswered /\ answers'[r] = "operationFailed" => Full]_requestVars
=============================================================================
