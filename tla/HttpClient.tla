------------------------------ MODULE HttpClient ------------------------------
(***************************************************************************)
(* CurlHttp and CurlRequest together: clients made from CurlHttps send the *)
(* requests, one at a time and each as often as the program likes, while   *)
(* other threads create and delete CurlHttps and the other clients.  An    *)
(* easy handle exists only inside SendRequest(), the library only while a  *)
(* CurlHttp or a client does.                                              *)
(***************************************************************************)
EXTENDS CurlHttp

CONSTANTS MaxBody, MaxChunk, MaxSent, MaxReceived, Errors

ASSUME HttpClientAssumption ==
    /\ MaxBody \in Nat /\ MaxChunk \in Nat \ {0}
    /\ MaxSent \in Nat /\ MaxReceived \in Nat
    /\ {"ok", "none", "no handle"} \cap Errors = {}

VARIABLES
    sender,         \* the client that sends the request, or None
    request, statusOut, handle, at, options, sent, buf, result, status, failed

R == INSTANCE CurlRequest

requestVars ==
    <<request, statusOut, handle, at, options, sent, buf, result, status, failed>>
httpVars == <<vars, sender, requestVars>>

HttpInit == Init /\ R!Init /\ sender = None

\* The program builds its request.
BuildRequest == R!Build /\ UNCHANGED <<vars, sender>>

\* SendRequest is called through c, runs and returns.
SendRequest(c, out) ==
    /\ sender = None
    /\ sender' = c
    /\ BeginRequest(c)
    /\ R!Send(out)

Transfer == R!Step /\ UNCHANGED <<vars, sender>>

Returned(c) ==
    /\ sender = c
    /\ sender' = None
    /\ EndRequest(c)
    /\ R!Collect

\* The others go on; the caller of SendRequest keeps its client meanwhile.
Others ==
    /\ \/ \E h \in Https :
            \/ LoadLibrary(h) \/ Construct(h) \/ DeleteHttp(h) \/ UnloadLibrary(h)
            \/ \E c \in Clients : CreateClient(h, c)
       \/ \E c \in Clients : DeleteClient(c)
       \/ Finished
    /\ UNCHANGED <<sender, requestVars>>

HttpNext ==
    \/ BuildRequest
    \/ \E c \in Clients : Returned(c) \/ \E out \in BOOLEAN : SendRequest(c, out)
    \/ Transfer
    \/ Others

HttpSpec == HttpInit /\ [][HttpNext]_httpVars

-----------------------------------------------------------------------------
(* Properties.                                                             *)

\* SendRequest reports each failure and calls back with its data, see CurlRequest.
FailureIsReported == R!FailureIsReported
CallbacksHaveTheirData == R!CallbacksHaveTheirData

\* Curl is used through an easy handle only while it is initialized, whichever
\* CurlHttps come and go during the request, and no handle is left to a library
\* that is cleaned up and perhaps initialized again (curl_http.cc:42-63,
\* curl_http_client.cc:108-115).
HandlesNeedLibrary ==
    handle = "open" => inits = 1 /\ sender # None /\ source[sender] \in Users
==============================================================================
