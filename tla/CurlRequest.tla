----------------------------- MODULE CurlRequest -----------------------------
(***************************************************************************)
(* An HttpRequest and CurlHttpClient::SendRequest of                       *)
(* http/curl_http_client.cc: the setters that build the request, the       *)
(* curl_easy_setopt calls with their early returns, the transfer with its  *)
(* two callbacks, what SendRequest returns, and the request sent again.    *)
(* libcurl decides which call fails, how much it asks for and delivers at  *)
(* a time, and when the transfer ends.                                     *)
(***************************************************************************)
EXTENDS Integers, Sequences, FiniteSets, SequencesExt

CONSTANTS
    MaxBody,        \* bound on the size of the request's body
    MaxChunk,       \* bound on the bytes of one callback
    MaxSent,        \* bound on the bytes sent
    MaxReceived,    \* bound on the bytes received
    Errors          \* the values of CURLcode other than CURLE_OK

Methods == {"GET", "HEAD", "POST", "PUT", "DELETE", "TRACE"}

VARIABLES
    request,        \* the HttpRequest: method_, and the size of body_
    statusOut,      \* the caller passes a status_out
    handle,         \* the easy handle owned by the Shared<CURL>::Ptr
    at,             \* what SendRequest does next; "idle" outside
    options,        \* the options set on the handle so far
    sent,           \* the bytes curl got for the request's body; 0 is one of stdin
    buf,            \* the bytes curl_write_buffer appended to the Buffer
    result,         \* what SendRequest returned: "NULL" or the "response" with buf
    status,         \* *status_out: "unset", "ok" or the error it tells
    failed          \* history: the failure libcurl gave this call, or "none"

callVars == <<handle, at, options, sent, buf, result, status, failed>>
vars == <<request, statusOut, callVars>>

Init ==
    /\ request = [method |-> "GET", size |-> 0]
    /\ statusOut = TRUE
    /\ handle = "none"
    /\ at = "idle"
    /\ options = {}
    /\ sent = <<>>
    /\ buf = <<>>
    /\ result = "none"
    /\ status = "unset"
    /\ failed = "none"

-----------------------------------------------------------------------------
(* The caller.                                                             *)

\* A value outside the enumeration changes nothing; SendRequest reads no content
\* type, and any URI is left to libcurl.
SetMethod(m) ==
    /\ at = "idle"
    /\ request' = [request EXCEPT !.method = m]
    /\ UNCHANGED <<statusOut, callVars>>

\* body_ = Buffer(data, size): the bytes of the body are 1..size.
SetBody(n) ==
    /\ at = "idle"
    /\ request' = [request EXCEPT !.size = n]
    /\ UNCHANGED <<statusOut, callVars>>

\* SendRequest() is called, with or without a status_out; the Status of the caller
\* holds what an earlier call left there.
Send(out) ==
    /\ at = "idle"
    /\ at' = "init"
    /\ statusOut' = out
    /\ result' = "none"
    /\ failed' = "none"
    /\ UNCHANGED <<request, handle, options, sent, buf, status>>

\* The caller has the result; the locals of the call are gone.
Collect ==
    /\ at = "done"
    /\ at' = "idle"
    /\ handle' = "none"
    /\ options' = {}
    /\ sent' = <<>>
    /\ buf' = <<>>
    /\ UNCHANGED <<request, statusOut, result, status, failed>>

-----------------------------------------------------------------------------
(* SendRequest().                                                          *)

HasBody == request.size > 0

\* Mutant: the pointers to the data are set up with a body only.
DataWithBody ==
    <<"METHOD", "URL">> \o (IF HasBody THEN <<"READFUNCTION", "READDATA", "WRITEDATA">>
                                       ELSE <<>>) \o <<"WRITEFUNCTION">>

\* The calls of curl_easy_setopt, in their order; the read callback is set up for
\* a body only.
Options ==
    <<"METHOD", "URL">> \o (IF HasBody THEN <<"READFUNCTION", "READDATA">>
                                       ELSE <<>>) \o <<"WRITEFUNCTION", "WRITEDATA">>

\* MaybeAssign(status_out, s).
MaybeAssign(s) == IF statusOut THEN s ELSE status

\* SendRequest returns; the shared pointer cleans up the handle, if there is one.
Return(r, s) ==
    /\ at' = "done"
    /\ result' = r
    /\ status' = MaybeAssign(s)
    /\ handle' = IF handle = "open" THEN "cleaned up" ELSE handle

Fail(error) == Return("NULL", error)

\* What libcurl answers, and the record of a failure, which is libcurl's and not
\* the code's: it is kept whether the code looks at the answer or not.
Ok == "ok"
Answers == {Ok} \cup Errors
Record(answer) == failed' = IF answer = Ok THEN failed ELSE answer

\* curl_easy_init().
InitHandle ==
    /\ at = "init"
    /\ \/ /\ Record(Ok)
          /\ handle' = "open"
          /\ at' = "setopt"
          /\ UNCHANGED <<result, status>>
       \/ /\ Record("no handle")
          /\ Fail("no handle")
    /\ UNCHANGED <<request, statusOut, options, sent, buf>>

\* if (result != 0) after each curl_easy_setopt.
OptionFailed(answer) == answer # Ok

\* One curl_easy_setopt; a failure returns at once.  GET makes no call.
SetOption ==
    LET option == Options[Cardinality(options) + 1] IN
    /\ at = "setopt"
    /\ \E answer \in IF option = "METHOD" /\ request.method = "GET" THEN {Ok} ELSE Answers :
         /\ Record(answer)
         /\ \/ /\ ~OptionFailed(answer)
               /\ options' = options \cup {option}
               /\ at' = IF Cardinality(options') = Len(Options) THEN "perform" ELSE at
               /\ UNCHANGED <<handle, result, status>>
            \/ /\ OptionFailed(answer)
               /\ Fail(answer)
               /\ UNCHANGED options
    /\ UNCHANGED <<request, statusOut, sent, buf>>

\* CURLOPT_POST and CURLOPT_PUT make a transfer upload, CUSTOMREQUEST does not.
Uploads == request.method \in {"POST", "PUT"}

\* curl_read_buffer copies from the start of the slice, as much as fits; the
\* slice stays as it is, so that the next call starts over.
CopiedBy(room) == [i \in 1..Min({room, request.size}) |-> i]

\* Curl asks for the next bytes of an upload, in the size it likes, until it
\* gets none.  Without a read function it reads standard input.
ReadBody(room) ==
    /\ at = "perform"
    /\ Uploads
    /\ Len(sent) < MaxSent
    /\ sent' = sent \o (IF "READFUNCTION" \in options THEN CopiedBy(room) ELSE <<0>>)
    /\ UNCHANGED <<request, statusOut, handle, at, options, buf, result, status, failed>>

\* Curl delivers the next n bytes of the response to curl_write_buffer, which
\* appends them to the Buffer.
WriteBody(n) ==
    /\ at = "perform"
    /\ Len(buf) + n <= MaxReceived
    /\ buf' = buf \o [i \in 1..n |-> Len(buf) + i]
    /\ UNCHANGED <<request, statusOut, handle, at, options, sent, result, status, failed>>

\* Mutant: the result of the transfer is not tested.
Untested(answer) == FALSE

\* if (result != 0) after curl_easy_perform.
TransferFailed(answer) == answer # Ok

\* The transfer succeeds or fails; what arrived of a failed one is discarded.
EndTransfer ==
    /\ at = "perform"
    /\ \E answer \in Answers :
         /\ Record(answer)
         /\ \/ TransferFailed(answer) /\ Fail(answer)
            \/ ~TransferFailed(answer) /\ Return("response", Ok)
    /\ UNCHANGED <<request, statusOut, options, sent, buf>>

-----------------------------------------------------------------------------
Build == \/ \E m \in Methods : SetMethod(m)
         \/ \E n \in 0..MaxBody : SetBody(n)

Step == \/ InitHandle \/ SetOption \/ EndTransfer
        \/ \E n \in 1..MaxChunk : ReadBody(n) \/ WriteBody(n)

Next == Build \/ (\E out \in BOOLEAN : Send(out)) \/ Step \/ Collect

Spec == Init /\ [][Next]_vars

-----------------------------------------------------------------------------
(* Properties.                                                             *)

\* Whatever call of libcurl fails, SendRequest returns NULL, and when none does, a
\* response; a Status it was given tells that failure or OK, not what an earlier
\* call left there; and the handle is cleaned up (curl_http_client.cc:108-210,
\* utility.h:21-28).
FailureIsReported ==
    at = "done" =>
        /\ result = IF failed = "none" THEN "response" ELSE "NULL"
        /\ statusOut => status = IF failed = "none" THEN Ok ELSE failed
        /\ handle # "open"

\* Curl calls no callback of SendRequest before it has the pointer that callback
\* casts its last argument to (curl_http_client.cc:47-74, 161-199).
CallbacksHaveTheirData ==
    at = "perform" =>
        /\ {"WRITEFUNCTION", "WRITEDATA"} \subseteq options
        /\ "READFUNCTION" \in options <=> "READDATA" \in options
        /\ "READFUNCTION" \in options <=> HasBody

\* What is sent of a body is a prefix of it, each byte once ("Determine the actual
\* number that we can copy and return that", curl_http_client.cc:55-57).
SentIsPrefixOfBody == HasBody => IsPrefix(sent, [i \in 1..request.size |-> i])

\* A request without a body sends none ("It's O.K. if the data is empty; we only
\* set up the read callback in the case where we actually have body data to
\* send", curl_http_client.cc:155-157).
EmptyBodySendsNothing == ~HasBody => sent = <<>>
==============================================================================
