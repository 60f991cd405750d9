----------------------------- MODULE ConnectStream -----------------------------
(***************************************************************************)
(* The bidirectional stream of the generated Connect client: the Go text   *)
(* that internal/contracts/codegen/generate.py writes for cell.proto       *)
(* (connectBidiStream).  Goroutines send, receive and close on one stream; *)
(* two mutexes and two sync.Once order them, a pipe carries the request    *)
(* and the transport of net/http, modelled from how the client uses it,    *)
(* reads the pipe, answers and breaks off.                                 *)
(***************************************************************************)
EXTENDS Naturals, Sequences

CONSTANTS
  Goroutines,
  May,           \* goroutine -> the calls it makes
  MaxCalls,      \* bound: goroutine -> its calls
  Bodies,        \* the responses a server sends: sequences of units
  ErrorUnits,    \* units of an error's body within maxConnectErrorBytes
  Nobody

ASSUME StreamAssumption ==
  /\ MaxCalls \in [Goroutines -> Nat] /\ ErrorUnits \in Nat
  /\ Nobody \notin Goroutines /\ "done" \notin Goroutines \cup {Nobody}

Calls == {"Send", "CloseRequest", "Receive", "ResponseHeader", "CloseResponse"}

VARIABLES
  call,          \* goroutine -> [made: its calls, at]
  cancelled,     \* the context of the stream
  sendMu,        \* holders of the mutexes, and of the two sync.Once ("done" after)
  receiveMu,
  responseOnce,
  closeOnce,
  requestClosed,
  writer,        \* the pipe's writing end: open, closed, aborted
  reader,        \* the transport's end: open, whole (it read the end), broken
  begun,         \* request envelopes the transport took, or took a part of
  accepted,      \* Sends that returned no error
  result,        \* what Do returned: pending, error, ok, status, badtype
  response,      \* the stream's: none, open, refused
  body,          \* [units, sent, done | read, aligned, eof, closed]: server's | client's
  ended,         \* responseEnded, and with it the trailer
  log            \* outcomes of Receive, in the order of receiveMu

goVars == <<call, cancelled, sendMu, receiveMu, responseOnce, closeOnce, requestClosed>>
pipeVars == <<writer, reader, begun, accepted>>
streamVars == <<goVars, pipeVars, result, response, body, ended, log>>

ToSend == [units : Bodies, sent : {0}, done : {FALSE},
           read : {0}, aligned : {TRUE}, eof : {FALSE}, closed : {FALSE}]

\* newConnectBidiStream: the pipe is open and Do has started.
StreamInit ==
  /\ call = [p \in Goroutines |-> [made |-> <<>>, at |-> "idle"]]
  /\ cancelled = FALSE /\ sendMu = Nobody /\ receiveMu = Nobody
  /\ responseOnce = Nobody /\ closeOnce = Nobody /\ requestClosed = FALSE
  /\ writer = "open" /\ reader = "open" /\ begun = 0 /\ accepted = 0
  /\ result = "pending" /\ response = "none" /\ body \in ToSend
  /\ ended = FALSE /\ log = <<>>

At(p, label) == call[p].at = label
Is(p, c) == call[p].made[Len(call[p].made)] = c
Goes(p, label) == call' = [call EXCEPT ![p].at = label]
Returns(p) == Goes(p, "idle")

FirstStep(c) ==
  CASE c = "Send" -> "send_mu"
    [] c = "CloseRequest" -> "close_mu"
    [] c = "Receive" -> "receive_mu"
    [] c = "ResponseHeader" -> "response"
    [] c = "CloseResponse" -> "close_once"

Start(p, c) ==
  /\ At(p, "idle") /\ Len(call[p].made) < MaxCalls[p] /\ c \in May[p]
  /\ call' = [call EXCEPT ![p] = [made |-> Append(@.made, c), at |-> FirstStep(c)]]
  /\ UNCHANGED <<cancelled, sendMu, receiveMu, responseOnce, closeOnce, requestClosed,
                 pipeVars, result, response, body, ended, log>>

-----------------------------------------------------------------------------
(* The request.                                                              *)

\* Write holds sendMu until the transport has taken the envelope or closed its end.
BeginSend(p) ==
  /\ At(p, "send_mu") /\ sendMu = Nobody
  /\ IF requestClosed \/ cancelled
       THEN Returns(p) /\ UNCHANGED sendMu
       ELSE Goes(p, "write") /\ sendMu' = p
  /\ UNCHANGED <<cancelled, receiveMu, responseOnce, closeOnce, requestClosed,
                 pipeVars, result, response, body, ended, log>>

WriteFails(p) ==
  /\ At(p, "write") /\ (reader # "open" \/ writer # "open")
  /\ Returns(p) /\ sendMu' = Nobody
  /\ UNCHANGED <<cancelled, receiveMu, responseOnce, closeOnce, requestClosed,
                 pipeVars, result, response, body, ended, log>>

\* Only the transport's reading ends a Write with success, and it reads in parts.
TakePart(p) ==
  /\ At(p, "write") /\ reader = "open" /\ begun = accepted
  /\ begun' = begun + 1
  /\ UNCHANGED <<goVars, writer, reader, accepted, result, response, body, ended, log>>

TakeRest(p) ==
  /\ At(p, "write") /\ reader = "open" /\ begun = accepted + 1
  /\ Returns(p) /\ sendMu' = Nobody
  /\ accepted' = accepted + 1
  /\ UNCHANGED <<cancelled, receiveMu, responseOnce, closeOnce, requestClosed,
                 writer, reader, begun, result, response, body, ended, log>>

\* CloseRequest and abortRequest under sendMu: the first of them decides.
CloseWriter(as) ==
  /\ sendMu = Nobody
  /\ writer' = IF requestClosed THEN writer ELSE as
  /\ requestClosed' = TRUE

CloseRequest(p) ==
  /\ At(p, "close_mu")
  /\ CloseWriter("closed")
  /\ Goes(p, IF Is(p, "CloseResponse") THEN "response" ELSE "idle")
  /\ UNCHANGED <<cancelled, sendMu, receiveMu, responseOnce, closeOnce,
                 reader, begun, accepted, result, response, body, ended, log>>

-----------------------------------------------------------------------------
(* awaitResponse, once for all its callers.                                  *)

\* Receive goes on to read, CloseResponse to close; ResponseHeader has its answer.
Await(p) ==
  /\ At(p, "response") /\ responseOnce \in {Nobody, "done"}
  /\ IF responseOnce = Nobody
       THEN /\ responseOnce' = p /\ Goes(p, "result") /\ UNCHANGED <<receiveMu, log>>
       ELSE /\ UNCHANGED responseOnce
            /\ CASE Is(p, "ResponseHeader") -> Returns(p) /\ UNCHANGED <<receiveMu, log>>
                 [] Is(p, "CloseResponse") -> Goes(p, "close_body") /\ UNCHANGED <<receiveMu, log>>
                 [] Is(p, "Receive") /\ response = "open" ->
                      Goes(p, "envelope") /\ UNCHANGED <<receiveMu, log>>
                 [] OTHER -> Returns(p) /\ receiveMu' = Nobody /\ log' = Append(log, "failed")
  /\ UNCHANGED <<cancelled, sendMu, closeOnce, requestClosed, pipeVars, result, response,
                 body, ended>>

TakeResult(p) ==
  /\ At(p, "result") /\ result # "pending"
  /\ response' = IF result = "ok" THEN "open" ELSE "refused"
  /\ CASE result = "ok" -> responseOnce' = "done" /\ Goes(p, "response")
       [] result = "error" -> Goes(p, "abort_mu") /\ UNCHANGED responseOnce
       [] result = "status" -> Goes(p, "error_body") /\ UNCHANGED responseOnce
       [] OTHER -> Goes(p, "refuse") /\ UNCHANGED responseOnce
  /\ UNCHANGED <<cancelled, sendMu, receiveMu, closeOnce, requestClosed, pipeVars, result,
                 body, ended, log>>

\* readConnectHTTPError reads to the end, to the limit or until the context is cancelled.
ReadErrorBody(p) ==
  /\ At(p, "error_body") /\ (body.done \/ body.sent > ErrorUnits \/ cancelled)
  /\ body' = [body EXCEPT !.eof = body.done /\ body.sent <= ErrorUnits]
  /\ Goes(p, "refuse")
  /\ UNCHANGED <<cancelled, sendMu, receiveMu, responseOnce, closeOnce, requestClosed,
                 pipeVars, result, response, ended, log>>

\* The body is closed before sendMu is asked for: a Send may be blocked under it.
Refuse(p) ==
  /\ At(p, "refuse")
  /\ body' = [body EXCEPT !.closed = TRUE]
  /\ Goes(p, "abort_mu")
  /\ UNCHANGED <<cancelled, sendMu, receiveMu, responseOnce, closeOnce, requestClosed,
                 pipeVars, result, response, ended, log>>

AbortRequest(p) ==
  /\ At(p, "abort_mu")
  /\ CloseWriter("aborted")
  /\ responseOnce' = "done" /\ Goes(p, "response")
  /\ UNCHANGED <<cancelled, sendMu, receiveMu, closeOnce, reader, begun, accepted, result,
                 response, body, ended, log>>

-----------------------------------------------------------------------------
(* Receive.                                                                  *)

ReceiveReturns(p, outcome) ==
  Returns(p) /\ receiveMu' = Nobody /\ log' = Append(log, outcome)

BeginReceive(p) ==
  /\ At(p, "receive_mu") /\ receiveMu = Nobody
  /\ IF ended
       THEN ReceiveReturns(p, "eof")
       ELSE Goes(p, "response") /\ receiveMu' = p /\ UNCHANGED log
  /\ UNCHANGED <<cancelled, sendMu, responseOnce, closeOnce, requestClosed, pipeVars,
                 result, response, body, ended>>

Readable == ~ body.closed /\ body.read < body.sent
Ending == {"end", "end_error"}

\* What an envelope that does not end the stream makes Receive return.  After a
\* length over the limit, or trailing bytes, the reading goes on inside a unit:
\* an envelope, or none, may be found there.
Outcomes(unit) ==
  CASE ~ body.aligned -> {"message", "failed"}
    [] unit = "message" -> {"message"}
    [] OTHER -> {"failed"}      \* malformed, compressed, unknown flags, oversize

ReadEnvelope(p) ==
  /\ At(p, "envelope") /\ Readable
  /\ LET unit == body.units[body.read + 1] IN
       /\ body' = [body EXCEPT !.read = @ + 1, !.aligned = @ /\ unit # "oversize"]
       /\ IF body.aligned /\ unit \in Ending
            THEN Goes(p, "trailing") /\ UNCHANGED <<receiveMu, log>>
            ELSE \E outcome \in Outcomes(unit) : ReceiveReturns(p, outcome)
  /\ UNCHANGED <<cancelled, sendMu, responseOnce, closeOnce, requestClosed, pipeVars,
                 result, response, ended>>

\* Mutant: the io.EOF of the body is passed on.
EnvelopeCutAsEnd(p) ==
  /\ At(p, "envelope") /\ body.done /\ body.read = body.sent /\ ~ body.closed
  /\ body' = [body EXCEPT !.eof = TRUE]
  /\ ReceiveReturns(p, "eof")
  /\ UNCHANGED <<cancelled, sendMu, responseOnce, closeOnce, requestClosed, pipeVars,
                 result, response, ended>>

\* The body is over although no envelope ended the stream: io.EOF becomes ErrUnexpectedEOF.
EnvelopeCut(p) ==
  /\ At(p, "envelope") /\ body.done /\ body.read = body.sent /\ ~ body.closed
  /\ body' = [body EXCEPT !.eof = TRUE]
  /\ ReceiveReturns(p, "failed")
  /\ UNCHANGED <<cancelled, sendMu, responseOnce, closeOnce, requestClosed, pipeVars,
                 result, response, ended>>

\* A closed body fails every read; a cancelled context may fail one.
ReadFails(p) ==
  /\ call[p].at \in {"envelope", "trailing"} /\ (body.closed \/ cancelled)
  /\ ReceiveReturns(p, "failed")
  /\ UNCHANGED <<cancelled, sendMu, responseOnce, closeOnce, requestClosed, pipeVars,
                 result, response, body, ended>>

\* One byte more than none is asked for: it is an error if it comes.
TrailingBytes(p) ==
  /\ At(p, "trailing") /\ Readable
  /\ body' = [body EXCEPT !.aligned = FALSE]
  /\ ReceiveReturns(p, "failed")
  /\ UNCHANGED <<cancelled, sendMu, responseOnce, closeOnce, requestClosed, pipeVars,
                 result, response, ended>>

EndStream(p) ==
  /\ At(p, "trailing") /\ body.done /\ body.read = body.sent /\ ~ body.closed
  /\ body' = [body EXCEPT !.eof = TRUE]
  /\ ended' = TRUE /\ Goes(p, "end_close")
  /\ UNCHANGED <<cancelled, sendMu, receiveMu, responseOnce, closeOnce, requestClosed,
                 pipeVars, result, response, log>>

CloseAtEnd(p) ==
  /\ At(p, "end_close")
  /\ CloseWriter("closed")
  /\ ReceiveReturns(p, IF body.units[body.read] = "end" THEN "eof" ELSE "end_error")
  /\ UNCHANGED <<cancelled, sendMu, responseOnce, closeOnce, reader, begun, accepted,
                 result, response, body, ended>>

-----------------------------------------------------------------------------
(* CloseResponse.                                                            *)

\* Mutant: the context is cancelled by nobody but the caller.
CloseResponseUncancelled(p) ==
  /\ At(p, "close_once") /\ closeOnce \in {Nobody, "done"}
  /\ IF closeOnce = Nobody THEN closeOnce' = p /\ Goes(p, "close_mu") ELSE Returns(p) /\ UNCHANGED closeOnce
  /\ UNCHANGED <<cancelled, sendMu, receiveMu, responseOnce, requestClosed, pipeVars, result,
                 response, body, ended, log>>

\* The context is cancelled before sendMu is asked for.
CloseResponse(p) ==
  /\ At(p, "close_once") /\ closeOnce \in {Nobody, "done"}
  /\ IF closeOnce = Nobody
       THEN closeOnce' = p /\ cancelled' = TRUE /\ Goes(p, "close_mu")
       ELSE Returns(p) /\ UNCHANGED <<closeOnce, cancelled>>
  /\ UNCHANGED <<sendMu, receiveMu, responseOnce, requestClosed, pipeVars, result, response,
                 body, ended, log>>

\* Mutant: the response is looked at before it is awaited, and not found.
CloseBodyEarly(p) ==
  /\ At(p, "close_body")
  /\ closeOnce' = "done" /\ Returns(p)
  /\ UNCHANGED <<cancelled, sendMu, receiveMu, responseOnce, requestClosed, pipeVars, result,
                 response, body, ended, log>>

CloseBody(p) ==
  /\ At(p, "close_body")
  /\ body' = [body EXCEPT !.closed = @ \/ response = "open"]
  /\ closeOnce' = "done" /\ Returns(p)
  /\ UNCHANGED <<cancelled, sendMu, receiveMu, responseOnce, requestClosed, pipeVars, result,
                 response, ended, log>>

Step(p) ==
  \/ BeginSend(p) \/ WriteFails(p) \/ CloseRequest(p)
  \/ Await(p) \/ TakeResult(p) \/ ReadErrorBody(p) \/ Refuse(p) \/ AbortRequest(p)
  \/ BeginReceive(p) \/ ReadEnvelope(p) \/ EnvelopeCut(p) \/ ReadFails(p)
  \/ TrailingBytes(p) \/ EndStream(p) \/ CloseAtEnd(p)
  \/ CloseResponse(p) \/ CloseBody(p)

-----------------------------------------------------------------------------
(* The caller's context, the transport and the server (external).            *)

Untouched == UNCHANGED <<call, sendMu, receiveMu, responseOnce, closeOnce, requestClosed,
                         response, ended, log, begun, accepted, writer>>

CancelContext == ~ cancelled /\ cancelled' = TRUE /\ Untouched /\ UNCHANGED <<reader, result, body>>

Answer ==
  /\ result = "pending" /\ result' \in {"ok", "status", "badtype"}
  /\ Untouched /\ UNCHANGED <<cancelled, reader, body>>

\* Do gives up, at the latest when the context is cancelled.
DoFails ==
  /\ result = "pending" /\ result' = "error"
  /\ Untouched /\ UNCHANGED <<cancelled, reader, body>>

Answered == result \in {"ok", "status", "badtype"}

ServerSends ==
  /\ Answered /\ ~ body.done /\ body.sent < Len(body.units)
  /\ body' = [body EXCEPT !.sent = @ + 1]
  /\ Untouched /\ UNCHANGED <<cancelled, reader, result>>

\* The server ends its response, whether or not all of it was sent.
ServerEnds ==
  /\ Answered /\ ~ body.done
  /\ body' = [body EXCEPT !.done = TRUE]
  /\ Untouched /\ UNCHANGED <<cancelled, reader, result>>

ReadRequestEnd ==
  /\ reader = "open" /\ writer # "open"
  /\ reader' = IF writer = "closed" THEN "whole" ELSE "broken"
  /\ Untouched /\ UNCHANGED <<cancelled, result, body>>

\* The transport lets go of the request once the exchange is over for it.
BreakRequest ==
  /\ reader = "open" /\ (cancelled \/ result = "error" \/ body.closed \/ body.eof)
  /\ reader' = "broken"
  /\ Untouched /\ UNCHANGED <<cancelled, result, body>>

StreamNext ==
  \/ \E p \in Goroutines : (\E c \in Calls : Start(p, c)) \/ Step(p) \/ TakePart(p) \/ TakeRest(p)
  \/ CancelContext \/ Answer \/ DoFails \/ ServerSends \/ ServerEnds
  \/ ReadRequestEnd \/ BreakRequest

\* Goroutines run and the transport reacts; a server owes nothing.
StreamFairness ==
  /\ \A p \in Goroutines : WF_streamVars(Step(p))
  /\ WF_streamVars(cancelled /\ DoFails) /\ WF_streamVars(BreakRequest)

StreamSpec == StreamInit /\ [][StreamNext]_streamVars /\ StreamFairness
-----------------------------------------------------------------------------
(* Properties.                                                               *)

\* Until a Receive fails, they return the server's messages, each once and in order,
\* and the end only if the server ended the stream and sent nothing after that;
\* whoever asks again gets the end again.
ReceivedAsSent ==
  \A n \in DOMAIN log : (\A k \in 1..n : log[k] # "failed") =>
    \/ n <= body.sent /\ \A k \in 1..n : log[k] = "message" /\ body.units[k] = "message"
    \/ \E e \in 1..n :
         /\ body.done /\ body.sent = e
         /\ body.units[e] = (IF log[e] = "eof" THEN "end" ELSE log[e]) /\ body.units[e] \in Ending
         /\ \A k \in 1..(e - 1) : log[k] = "message" /\ body.units[k] = "message"
         /\ \A k \in (e + 1)..n : log[k] = "eof"

\* A server reads a request to a clean end only after every envelope whose Send
\* returned nil, and when the client meant it: it closed the request or the response,
\* or the stream had ended; a request given up because the response was refused breaks.
EndIsMeant ==
  reader = "whole" =>
    /\ begun = accepted /\ \A p \in Goroutines : ~ At(p, "write")
    /\ \/ ended
       \/ \E p \in Goroutines : \E k \in DOMAIN call[p].made :
            call[p].made[k] \in {"CloseRequest", "CloseResponse"}

\* Both ends of a stream read what the other one said and no more: the client the
\* response, the server the request, with their true ends.
StreamFaithful == ReceivedAsSent /\ EndIsMeant

\* When CloseResponse has returned the context is cancelled, the request closed and
\* whatever response came, before or after, has its body closed.
NothingLeaks ==
  closeOnce = "done" =>
    cancelled /\ requestClosed /\ result # "pending" /\ (Answered => body.closed)

\* Once the context is cancelled or CloseResponse begun every call returns, whatever
\* the server does; a call that found the response refused or the stream at its end returns, and so does a Send
\* still blocked on a request whose response was refused.
Due(p) ==
  \/ (cancelled \/ closeOnce # Nobody) /\ ~ At(p, "idle")
  \/ call[p].at \in {"refuse", "abort_mu", "end_close"}
  \/ response = "refused" /\ responseOnce = "done" /\ At(p, "write")
CallsReturn == \A p \in Goroutines : Due(p) ~> At(p, "idle")
=============================================================================
