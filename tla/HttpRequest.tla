----------------------------- MODULE HttpRequest -----------------------------
(***************************************************************************)
(* What a client task of dthttpd_linux_socket.c does with one connection:  *)
(* _read_http_request, _handle_get, _handle_post and the answers.          *)
(*                                                                         *)
(* The peer's bytes are numbered 1, 2, ... in the order it sends them.     *)
(* The first `head` bytes are the headers, so the blank line that ends     *)
(* them is found as soon as `head` bytes are in the buffer.  TCP delivers  *)
(* the bytes in pieces of any size.  A request record says what the header *)
(* text means once parsed; the outcome of every file and callback the task *)
(* meets is part of it.                                                    *)
(***************************************************************************)
EXTENDS Integers, Sequences

CONSTANTS Requests,    \* the requests peers send: a set of records, see RequestType
          Capacity,    \* DTHTTPD_MAX_HEADER_BYTES
          MaxBody      \* DTHTTPD_MAX_REQUEST_BYTES

RequestType ==
    [method : {"GET", "POST", "OTHER"},
     line   : {"ok", "bad", "long"},             \* the request line and its target
     length : {"missing", "long", "number"},     \* the Content-Length header
     number : Int,                               \* its value after atoi
     stray  : [at : Nat, length : {"missing", "long", "number"}, number : Int],
                                                 \* a line like it after the headers, where it
                                                 \* ends there, and its value
     head   : Nat \ {0},                         \* bytes of headers
     tail   : Nat,                               \* bytes sent after the headers
     safe   : BOOLEAN,                           \* _is_safe_url_path
     roots  : Seq({"file", "absent", "broken"}), \* _read_entire_file below each root
     callback : {"none", "ok", "fails"}]

ASSUME HttpRequestAssumption == /\ Requests \subseteq RequestType
                                /\ Capacity \in Nat \ {0} /\ MaxBody \in Nat

VARIABLES req,      \* the request of this connection
          phase,    \* the task's place
          pos,      \* bytes of the stream received so far
          length,   \* of these, bytes in the header buffer
          body,     \* the bytes in the body buffer
          err,      \* the error code that ended the reading, or "none"
          answers   \* the responses sent whole, with the root of a file or 0
request_vars == <<req, phase, pos, length, body, err, answers>>

Answers == {<<n, i>> : n \in {200, 400, 403, 404, 405}, i \in 0..Len(req.roots)}

RequestTypeOK ==
    /\ req \in Requests
    /\ phase \in {"headers", "parse", "body", "dispatch", "failed", "closed"}
    /\ pos \in Nat /\ length \in Nat /\ body \in Seq(Nat)
    /\ err \in {"none", "IO", "TIMEOUT", "OVERFLOW", "BADARG", "RANGE"}
    /\ answers \in Seq(Answers)

RequestInit ==
    /\ req \in Requests
    /\ phase = "headers" /\ pos = 0 /\ length = 0 /\ body = <<>> /\ err = "none"
    /\ answers = <<>>

InFlight == req.head + req.tail - pos
Lesser(a, b) == IF a < b THEN a ELSE b
Bytes(from, n) == [i \in 1..n |-> from + i]

Fail(code) == phase' = "failed" /\ err' = code

(***************************************************************************)
(* _read_http_request                                                      *)
(***************************************************************************)

\* One recv() of n bytes into the header buffer, and the look for the blank line.
RecvHeaders(n) ==
    /\ phase = "headers"
    /\ n \in 1..Lesser(Capacity - length, InFlight)
    /\ pos' = pos + n /\ length' = length + n
    /\ \/ length' >= req.head /\ phase' = "parse" /\ UNCHANGED err
       \/ length' < req.head /\ length' >= Capacity /\ Fail("OVERFLOW")
       \/ length' < req.head /\ length' < Capacity /\ UNCHANGED <<phase, err>>
    /\ UNCHANGED <<req, body, answers>>

\* _find_header_value looks through all that the buffer holds: without a
\* Content-Length header, a line of the body that reads like one and has come along
\* with the headers is taken for it.
StrayFound == req.length = "missing" /\ length >= req.head + req.stray.at
LengthFound == IF StrayFound THEN req.stray.length ELSE req.length
content_length == IF StrayFound THEN req.stray.number ELSE req.number

\* The order in which the parsed headers are refused.
ParseError ==
    CASE req.line = "bad"                                -> "BADARG"
      [] req.line = "long"                               -> "OVERFLOW"
      [] req.line = "ok" /\ LengthFound = "long"          -> "OVERFLOW"
      [] req.line = "ok" /\ LengthFound = "missing"
                         /\ req.method = "POST"          -> "BADARG"
      [] req.line = "ok" /\ LengthFound = "number" /\ req.method = "POST"
                         /\ content_length \notin 0..MaxBody -> "RANGE"
      [] OTHER                                           -> "none"

\* Mutant: the copy does not happen.
Mutant_EarlyBodyForgotten == <<>>

\* What of the body came along with the headers, up to Content-Length.
EarlyBody == Bytes(req.head, Lesser(length - req.head, content_length))

Parse ==
    /\ phase = "parse"
    /\ \/ ParseError # "none" /\ Fail(ParseError) /\ UNCHANGED body
       \/ ParseError = "none" /\ req.method # "POST" /\ phase' = "dispatch" /\ UNCHANGED <<err, body>>
       \/ ParseError = "none" /\ req.method = "POST"
          /\ body' = EarlyBody
          /\ phase' = "body" /\ UNCHANGED err
    /\ UNCHANGED <<req, pos, length, answers>>

RecvBody(n) ==
    /\ phase = "body"
    /\ n \in 1..Lesser(content_length - Len(body), InFlight)
    /\ body' = body \o Bytes(pos, n)
    /\ pos' = pos + n
    /\ UNCHANGED <<req, phase, length, err, answers>>

BodyRead ==
    /\ phase = "body" /\ Len(body) >= content_length
    /\ phase' = "dispatch"
    /\ UNCHANGED <<req, pos, length, body, err, answers>>

\* The peer closes or the connection breaks; or nothing comes for ten seconds.
RecvFails(code) ==
    /\ phase = "headers" \/ (phase = "body" /\ Len(body) < content_length)
    /\ code \in {"IO", "TIMEOUT"}
    /\ Fail(code)
    /\ UNCHANGED <<req, pos, length, body, answers>>

(***************************************************************************)
(* The answer                                                              *)
(***************************************************************************)

\* _send_response or _send_text_response: sent whole, or cut short by a send()
\* that fails.  Either way the task closes the connection.
Send(status, root) ==
    /\ phase' = "closed"
    /\ answers' = Append(answers, <<status, root>>) \/ UNCHANGED answers
    /\ UNCHANGED <<req, pos, length, body, err>>

\* No answer at all: an error for which the task has none.
CloseSilently == phase' = "closed" /\ UNCHANGED <<req, pos, length, body, err, answers>>

\* Mutant: after the 400 the task goes on to the handlers.
Mutant_RefuseGoesOn ==
    /\ phase = "failed"
    /\ answers' = Append(answers, <<400, 0>>)
    /\ phase' = "dispatch"
    /\ UNCHANGED <<req, pos, length, body, err>>

\* A request that could not be read.
Refuse ==
    /\ phase = "failed"
    /\ \/ err \in {"TIMEOUT", "BADARG", "RANGE"} /\ Send(400, 0)
       \/ err \notin {"TIMEOUT", "BADARG", "RANGE"} /\ CloseSilently

\* _try_serve_static_file: roots are tried in order until one has the file.
HandleGet ==
    /\ phase = "dispatch" /\ req.method = "GET"
    /\ \/ ~req.safe /\ Send(403, 0)
       \/ req.safe /\ (\A i \in DOMAIN req.roots : req.roots[i] = "absent") /\ Send(404, 0)
       \/ /\ req.safe
          /\ \E i \in DOMAIN req.roots :
                /\ req.roots[i] # "absent" /\ \A j \in 1..(i - 1) : req.roots[j] = "absent"
                /\ IF req.roots[i] = "file" THEN Send(200, i) ELSE CloseSilently

\* _handle_post: the callback gets the body; its failure leaves no answer.
HandlePost ==
    /\ phase = "dispatch" /\ req.method = "POST"
    /\ \/ req.callback = "none" /\ Send(405, 0)
       \/ req.callback = "ok" /\ Send(200, 0)
       \/ req.callback = "fails" /\ CloseSilently

HandleOther ==
    /\ phase = "dispatch" /\ req.method = "OTHER"
    /\ Send(405, 0)

RequestNext ==
    \/ \E n \in 1..(req.head + req.tail) : RecvHeaders(n) \/ RecvBody(n)
    \/ \E code \in {"IO", "TIMEOUT"} : RecvFails(code)
    \/ Parse \/ BodyRead \/ Refuse \/ HandleGet \/ HandlePost \/ HandleOther

RequestSpec == RequestInit /\ [][RequestNext]_request_vars

(***************************************************************************)
(* Properties                                                              *)
(***************************************************************************)

\* However TCP cuts the stream up, and however much follows the body, the POST
\* callback gets the bytes after the headers, in order and as many as the
\* Content-Length that was found says.
BodyExact ==
    phase = "dispatch" /\ req.method = "POST" => body = Bytes(req.head, content_length)

\* A peer never gets two responses, and a request that was not read to its end
\* never reaches a file or the callback.
OneAnswer ==
    /\ Len(answers) <= 1
    /\ err # "none" => \A k \in DOMAIN answers : answers[k] = <<400, 0>>
=============================================================================
