------------------------------ MODULE Messages ------------------------------
(***************************************************************************)
(* How a service request becomes a message, the text that is sent, a       *)
(* message and a request of the peer, and how the response comes back.     *)
(* The result of a request may be built from the results of another one,   *)
(* and a request from the parameters of another one, so that parameters    *)
(* and results may have the names that the converters use themselves.      *)
(* Texts are represented by numbers: the text of a number is that number   *)
(* at the precision it is printed with.                                    *)
(***************************************************************************)
EXTENDS Naturals, FiniteSets, Functions

CONSTANTS
    Names,          \* names of parameters and results
    Texts,          \* their values
    Id,             \* transaction id of the request
    Service,        \* name of its service
    Statuses,       \* codes of ServiceResponseStatus
    RenderRequests, \* [extend, projection, view]: requests of a renderer
    Precision       \* numbers are printed in multiples of this

VARIABLES
    stage,      \* where the request or its response is
    request,    \* what the caller made
    asked,      \* the render request it was made from, or None
    wire,       \* the text that is sent
    received,   \* the request of the peer
    response,   \* what the service answered
    result      \* the response that the caller gets

vars == <<stage, request, asked, wire, received, response, result>>

None == [none |-> TRUE]
Maps == UNION {[N -> Texts] : N \in SUBSET Names}

-----------------------------------------------------------------------------
(* Message *)

Message(type, attributes) == [type |-> type, id |-> Id, attributes |-> attributes]

\* Sets or overwrites attributes.
Overwrite(f, g) == [n \in DOMAIN f \cup DOMAIN g |-> IF n \in DOMAIN g THEN g[n] ELSE f[n]]
GetOr(f, n, otherwise) == IF n \in DOMAIN f THEN f[n] ELSE otherwise

-----------------------------------------------------------------------------
(* MessageConverter *)

\* Attributes have an object of their own in JSON.
ToJson(m) == [meta |-> [id |-> m.id, type |-> m.type], attributes |-> m.attributes]
FromJson(json) == [type |-> json.meta.type, id |-> json.meta.id,
                   attributes |-> json.attributes]

\* A multipart form has one part for id and type and one per attribute.
Part(text) == [text |-> text]
ToMultipartFormData(m) ==
    Overwrite([n \in {"meta"} |-> [id |-> m.id, type |-> m.type]],
              [n \in DOMAIN m.attributes |-> Part(m.attributes[n])])

\* An attribute whose name is that of the first part has replaced it.
Parses(parts) == "meta" \in DOMAIN parts /\ DOMAIN parts["meta"] = {"id", "type"}
FromMultipartFormData(parts) ==
    [type |-> parts["meta"].type, id |-> parts["meta"].id,
     attributes |-> [n \in DOMAIN parts \ {"meta"} |-> parts[n].text]]

-----------------------------------------------------------------------------
(* RemoteServiceMessagesConverter *)

ServiceRequest(service, id, parameters) ==
    [service |-> service, id |-> id, parameters |-> parameters]
ServiceResponse(id, status, results) ==
    [id |-> id, status |-> status, results |-> results]

RequestNames == {"transaction-id", "service"}
ResponseNames == {"transaction-id", "status", "status-message"}
NoMessage == 0

\* Mutant: the parameters are set after the names of the converter.
ParametersLast(r) ==
    Message("service-request",
            Overwrite([n \in RequestNames |->
                IF n = "service" THEN r.service ELSE r.id], r.parameters))

FromServiceRequest(r) ==
    Message("service-request",
            Overwrite(r.parameters, [n \in RequestNames |->
                IF n = "service" THEN r.service ELSE r.id]))

ToServiceRequest(m) ==
    IF RequestNames \subseteq DOMAIN m.attributes
    THEN ServiceRequest(m.attributes["service"], m.attributes["transaction-id"],
                        m.attributes)
    ELSE None

FromServiceResponse(r) ==
    Message("service-response",
            Overwrite(r.results, [n \in ResponseNames |->
                CASE n = "transaction-id" -> r.id
                  [] n = "status" -> r.status
                  [] n = "status-message" -> NoMessage]))

ToServiceResponse(m) ==
    IF {"transaction-id", "status"} \subseteq DOMAIN m.attributes
    THEN ServiceResponse(m.attributes["transaction-id"], m.attributes["status"],
                         m.attributes)
    ELSE None

-----------------------------------------------------------------------------
(* RenderServiceRequest *)

Printed(x) == ((x + Precision \div 2) \div Precision) * Precision
PERSPECTIVE == 1
PerspectiveNames == {"perspective-near-plane", "perspective-far-plane", "perspective-fov"}

SetExtend(extend) == [n \in {"width", "height"} |-> extend[n]]
SetPerspectiveProjection(p) ==
    [n \in PerspectiveNames \cup {"projection-type"} |->
        IF n = "projection-type" THEN PERSPECTIVE ELSE Printed(p[n])]
SetViewMatrix(view) == [n \in {"view-matrix"} \cap DOMAIN view |-> Printed(view[n])]

RenderParameters(r) ==
    Overwrite(SetExtend(r.extend),
              Overwrite(SetPerspectiveProjection(r.projection), SetViewMatrix(r.view)))

GetExtend(p) ==
    IF {"width", "height"} \subseteq DOMAIN p THEN Restrict(p, {"width", "height"}) ELSE None
GetProjectionType(p) == GetOr(p, "projection-type", 0)
GetPerspectiveProjection(p) == Restrict(p, PerspectiveNames)
GetViewMatrix(p) == Restrict(p, {"view-matrix"} \cap DOMAIN p)

-----------------------------------------------------------------------------

Init ==
    /\ stage = "made"
    /\ \/ /\ asked = None
          /\ \E p \in Maps : request = ServiceRequest(Service, Id, p)
       \/ /\ asked \in RenderRequests
          /\ request = ServiceRequest(Service, Id, RenderParameters(asked))
    /\ wire = None /\ received = None /\ response = None /\ result = None

\* RemoteServiceExecutor sends the request; JSON is the other format.
SendRequest ==
    /\ stage = "made"
    /\ wire' = ToMultipartFormData(FromServiceRequest(request))
    /\ stage' = "requested"
    /\ UNCHANGED <<request, asked, received, response, result>>

SendRequestAsJson ==
    /\ stage = "made"
    /\ wire' = ToJson(FromServiceRequest(request))
    /\ stage' = "requested as JSON"
    /\ UNCHANGED <<request, asked, received, response, result>>

\* The endpoint parses the text and drops what it cannot parse.  Instead of
\* the first part there may be the text of a number: it is JSON, but the
\* pointer to the message stays null and is dereferenced.
Unparsed(parts) == IF Parses(parts) THEN {"dropped"} ELSE {"dropped", "crashed"}

ReceiveRequest ==
    /\ \/ /\ stage = "requested"
          /\ received' = IF Parses(wire)
                         THEN ToServiceRequest(FromMultipartFormData(wire)) ELSE None
       \/ /\ stage = "requested as JSON"
          /\ received' = ToServiceRequest(FromJson(wire))
    /\ stage' \in IF received' = None THEN Unparsed(wire) ELSE {"received"}
    /\ wire' = None
    /\ UNCHANGED <<request, asked, response, result>>

\* The service answers with results of any names.
Answer(status, results) ==
    /\ stage = "received"
    /\ response' = ServiceResponse(received.id, status, results)
    /\ wire' = ToMultipartFormData(FromServiceResponse(response'))
    /\ stage' = "answered"
    /\ UNCHANGED <<request, asked, received, result>>

ReceiveResponse ==
    /\ stage = "answered"
    /\ result' = IF Parses(wire)
                 THEN ToServiceResponse(FromMultipartFormData(wire)) ELSE None
    /\ stage' \in IF result' = None THEN Unparsed(wire) ELSE {"resolved"}
    /\ wire' = None
    /\ UNCHANGED <<request, asked, received, response>>

Next == SendRequest \/ SendRequestAsJson \/ ReceiveRequest \/ ReceiveResponse
        \/ \E s \in Statuses, r \in Maps : Answer(s, r)

Spec == Init /\ [][Next]_vars

-----------------------------------------------------------------------------
(* Properties *)

Close(x, y) == x <= y + Precision /\ y <= x + Precision
CloseTo(f, g) == DOMAIN f = DOMAIN g /\ \A n \in DOMAIN f : Close(f[n], g[n])

\* Every variable has its type.
TypeOK ==
    /\ stage \in {"made", "requested", "requested as JSON", "received", "answered",
                  "dropped", "crashed", "resolved"}
    /\ request.service = Service /\ request.id = Id
    /\ asked \in RenderRequests \cup {None}
    /\ received # None => DOMAIN received = {"service", "id", "parameters"}
    /\ response # None => response.status \in Statuses
    /\ result # None => DOMAIN result = {"id", "status", "results"}

\* The peer executes the request that was made and the caller gets the
\* response to it: whatever names the parameters and results have, the
\* service, the transaction that correlates the two, the status and the
\* values with names of their own survive both conversions.
CallSurvivesTransport ==
    /\ received # None =>
        /\ received.service = request.service /\ received.id = request.id
        /\ \A n \in DOMAIN request.parameters \ RequestNames :
               received.parameters[n] = request.parameters[n]
    /\ result # None =>
        /\ result.id = request.id /\ result.status = response.status
        /\ \A n \in DOMAIN response.results \ ResponseNames :
               result.results[n] = response.results[n]

\* A render request arrives with the extent it has, and with the
\* perspective and view at the precision of the text.
RenderRequestSurvives ==
    asked # None /\ received # None =>
        LET p == received.parameters IN
        /\ GetExtend(p) = asked.extend
        /\ GetProjectionType(p) = PERSPECTIVE
        /\ CloseTo(GetPerspectiveProjection(p), asked.projection)
        /\ CloseTo(GetViewMatrix(p), asked.view)

\* A call is answered whatever its parameters and results are called.
NothingIsDropped == stage \notin {"dropped", "crashed"}

-----------------------------------------------------------------------------
(* The inductive invariant *)

\* The text under way is that of the request or of the response to it.
WireOK ==
    /\ request = ServiceRequest(Service, Id, request.parameters)
    /\ stage = "requested" =>
           wire = ToMultipartFormData(FromServiceRequest(request))
    /\ stage = "requested as JSON" => wire = ToJson(FromServiceRequest(request))
    /\ stage = "answered" =>
           wire = ToMultipartFormData(FromServiceResponse(response))

\* What each stage has brought about.
StagesOK ==
    /\ stage \in {"made", "requested", "requested as JSON"} =>
           received = None /\ result = None
    /\ stage \in {"received", "answered"} => received # None /\ result = None
    /\ stage \in {"answered", "resolved"} =>
           response = ServiceResponse(Id, response.status, response.results)

MessagesInv == TypeOK /\ WireOK /\ StagesOK /\ CallSurvivesTransport
=============================================================================
