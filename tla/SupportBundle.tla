---------------------------- MODULE SupportBundle ----------------------------
(***************************************************************************)
(* The upload of a support bundle (pkg/handlers/supportbundle.go,          *)
(* pkg/upstream/supportbundle.go): the vendor gives a bundle and an URL,   *)
(* the body of the request is passed on to S3 as it arrives, and the       *)
(* vendor is told.  Each call may fail, lose its answer, or stall, until   *)
(* its client times out; what was asked may then still be done later.      *)
(* Nothing is retried: the client that sent the request may send it again, *)
(* which makes another bundle.                                             *)
(*                                                                         *)
(* The thirty minutes of the call to S3 do not end the wait for a client   *)
(* that stays connected and sends no more of its body: the call returns    *)
(* only after its read of r.Body does, and the server sets no ReadTimeout  *)
(* (pkg/apiserver/server.go:98-101).                                       *)
(*                                                                         *)
(* This module describes the requests only; Server composes it with        *)
(* Bootstrap, which says when there are any.                               *)
(***************************************************************************)
EXTENDS Integers, Sequences

CONSTANTS
    MaxRequests,    \* bound: requests, one after the other
    MaxFaults       \* bound: calls that go wrong

ASSUME SupportBundleAssumption == MaxRequests \in Nat /\ MaxFaults \in Nat

VARIABLES
    step,       \* of the handler: "idle", a call, or "answered"
    reply,      \* the status code of the answer
    held,       \* the bundle the handler was given: an index of vendor
    vendor,     \* the vendor's bundles: [whole, marked]
    silent,     \* who keeps the call waiting: "nobody", "server" (that is
                \* called: the vendor or S3), "client" (that sends the body)
    late,       \* calls given up that may still be served: <<call, bundle>>
    requests,
    faults

uploadVars == <<step, reply, held, vendor, silent, late, requests, faults>>

UploadCalls == {"GetSupportBundleUploadURL", "UploadToS3", "MarkSupportBundleUploaded"}

\* Faulty variant of CallAfter: the bundle is marked first.
CallAfterEager(call) ==
    CASE call = "GetSupportBundleUploadURL" -> "MarkSupportBundleUploaded"
      [] call = "MarkSupportBundleUploaded" -> "UploadToS3"
      [] call = "UploadToS3" -> "answered"

CallAfter(call) ==
    CASE call = "GetSupportBundleUploadURL" -> "UploadToS3"
      [] call = "UploadToS3" -> "MarkSupportBundleUploaded"
      [] call = "MarkSupportBundleUploaded" -> "answered"

\* The vendor's bundles after a call about bundle b.
Served(call, b) ==
    CASE call = "GetSupportBundleUploadURL" ->
            Append(vendor, [whole |-> FALSE, marked |-> FALSE])
      [] call = "UploadToS3" -> [vendor EXCEPT ![b].whole = TRUE]
      [] call = "MarkSupportBundleUploaded" -> [vendor EXCEPT ![b].marked = TRUE]

UploadInit ==
    /\ step = "idle" /\ reply = 0 /\ held = 0
    /\ vendor = <<>>
    /\ silent = "nobody"
    /\ late = {}
    /\ requests = 0 /\ faults = 0

\* A request is refused in airgap mode, or without a Content-Length.
UploadSupportBundle(airgap) ==
    /\ step \in {"idle", "answered"} /\ requests < MaxRequests
    /\ requests' = requests + 1
    /\ \E contentLength \in 0..1 :
         IF airgap \/ contentLength = 0
         THEN step' = "answered" /\ reply' = 400
         ELSE step' = "GetSupportBundleUploadURL" /\ reply' = 0
    /\ held' = 0
    /\ UNCHANGED <<vendor, silent, late, faults>>

Calling == step \in UploadCalls /\ silent = "nobody"

\* A call is answered; after the last, so is the request, with the bundle.
CallServed ==
    /\ Calling
    /\ vendor' = Served(step, held)
    /\ held' = IF step = "GetSupportBundleUploadURL" THEN Len(vendor) + 1 ELSE held
    /\ step' = CallAfter(step)
    /\ reply' = IF step' = "answered" THEN 201 ELSE reply
    /\ UNCHANGED <<silent, late, requests, faults>>

AnswerError == step' = "answered" /\ reply' = 500

\* A call fails, a body that breaks off included, or only its answer is lost.
CallGoesWrong ==
    /\ Calling
    /\ faults < MaxFaults /\ faults' = faults + 1
    /\ vendor' \in {vendor, Served(step, held)}
    /\ AnswerError
    /\ UNCHANGED <<held, silent, late, requests>>

FallsSilent(who) ==
    /\ Calling
    /\ faults < MaxFaults /\ faults' = faults + 1
    /\ silent' = who
    /\ UNCHANGED <<step, reply, held, vendor, late, requests>>

Stall == FallsSilent("server")

ClientFallsSilent == step = "UploadToS3" /\ FallsSilent("client")

\* The client sends on, in time or too late for S3, or its connection breaks.
ClientIsBack ==
    /\ silent = "client" /\ silent' = "nobody"
    /\ \/ UNCHANGED <<step, reply>>
       \/ AnswerError
    /\ UNCHANGED <<held, vendor, late, requests, faults>>

\* Faulty variant of TimeOut: the client of UploadToS3 has no timeout.
TimeOutVendor ==
    /\ silent = "server" /\ step # "UploadToS3"
    /\ silent' = "nobody"
    /\ late' \in {late, late \cup {<<step, held>>}}
    /\ AnswerError
    /\ UNCHANGED <<held, vendor, requests, faults>>

\* Ten seconds for the vendor, thirty minutes for S3.
TimeOut ==
    /\ silent = "server"
    /\ silent' = "nobody"
    /\ late' \in {late, late \cup {<<step, held>>}}
    /\ AnswerError
    /\ UNCHANGED <<held, vendor, requests, faults>>

LateEffect ==
    /\ \E e \in late : late' = late \ {e} /\ vendor' = Served(e[1], e[2])
    /\ UNCHANGED <<step, reply, held, silent, requests, faults>>

\* What nobody owes: the network and the client.
Environment == Stall \/ ClientFallsSilent \/ ClientIsBack \/ LateEffect

Handler == CallServed \/ CallGoesWrong \/ TimeOut

-----------------------------------------------------------------------------
(***************************************************************************)
(* A client that is told 201 has its bundle at the vendor, whole and       *)
(* marked as uploaded; and no bundle is ever marked that is not whole,     *)
(* whatever calls failed, came late or were sent again                     *)
(* (supportbundle.go:30-53).                                               *)
(***************************************************************************)
UploadsAreHonest ==
    /\ reply = 201 => vendor[held] = [whole |-> TRUE, marked |-> TRUE]
    /\ \A b \in 1..Len(vendor) : vendor[b].marked => vendor[b].whole

(***************************************************************************)
(* Every upload is answered, unless the client that sends its body falls   *)
(* silent for good without hanging up: a vendor or an S3 that is silent is *)
(* given up, by the timeout of each of the three calls (upstream/          *)
(* supportbundle.go:95-97, util/http_client.go:8).                         *)
(***************************************************************************)
EveryUploadAnswered ==
    requests > 0 ~> (step = "answered" \/ [](silent = "client"))
=============================================================================
