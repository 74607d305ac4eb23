------------------------------ MODULE RpcServer ------------------------------
(***************************************************************************)
(* The JSON-RPC TCP server (crate orbflow-grpcapi).  A client writes       *)
(* requests, one per line, and may write several before it reads; the      *)
(* server cuts the byte stream into frames, handles them one at a time and *)
(* writes one response each, without ids: only the order tells the client  *)
(* which answer belongs to which request.  How the bytes are grouped when  *)
(* they arrive is up to the network.  The stream is a sequence of bytes,   *)
(* with each newline standing for the request it ends.                     *)
(***************************************************************************)
EXTENDS Naturals, Sequences, FiniteSets

CONSTANTS MAX_RPC_FRAME_BYTES,  \* 1 MiB in the code
          MaxLines           \* lines a client sends on its connection

ASSUME RpcAssumption == MAX_RPC_FRAME_BYTES \in Nat

\* What a frame holds when it is parsed: not JSON; no valid token; no request
\* envelope; an unknown method; a body the handler refuses; a StartWorkflow that
\* names an owner; a well-formed StartWorkflow; and a well-formed CreateWorkflow,
\* GetWorkflow, ListWorkflows, GetInstance or CancelInstance.
RpcKinds == {"malformed", "no_token", "no_envelope", "unknown", "bad_body", "with_owner", "start", "call"}
Byte == "byte"
LineOf(request) == [k \in 1..request.size |-> Byte] \o <<request.kind>>
LongestFrame == MAX_RPC_FRAME_BYTES + 1

VARIABLES accepting,  \* serve() still accepts connections
          link,       \* "none", "open", "broken" (the client has gone), "closed" (by the server)
          written,    \* requests written by the client, in order
          stream,     \* bytes not yet read by the server
          frame,      \* length of the frame read so far
          current,    \* request being handled, or "none"
          answers,    \* responses written, in order
          instances   \* instances the engine has stored for this connection

rpcVars == <<accepting, link, written, stream, frame, current, answers, instances>>

RpcInit ==
    /\ accepting = TRUE /\ link = "none" /\ written = <<>> /\ stream = <<>>
    /\ frame = 0 /\ current = "none" /\ answers = <<>> /\ instances = 0

\* serve: one task per accepted connection; stop() ends the accept loop only.
Accept ==
    /\ accepting /\ link = "none" /\ link' = "open"
    /\ UNCHANGED <<accepting, written, stream, frame, current, answers, instances>>

StopRpc ==
    /\ accepting /\ accepting' = FALSE
    /\ UNCHANGED <<link, written, stream, frame, current, answers, instances>>

\* External: the client.
WriteRequest(kind, size) ==
    LET request == [kind |-> kind, size |-> size] IN
    /\ link = "open" /\ Len(written) < MaxLines
    /\ written' = Append(written, request) /\ stream' = stream \o LineOf(request)
    /\ UNCHANGED <<accepting, link, frame, current, answers, instances>>

HangUp ==
    /\ link = "open" /\ link' = "broken"
    /\ UNCHANGED <<accepting, written, stream, frame, current, answers, instances>>

-----------------------------------------------------------------------------
(* read_rpc_frame *)

ReadingFrame == link \in {"open", "broken"} /\ current = "none"

\* Bytes of a frame that the limit allows, whether its end is in sight or not.
FitsOnlyWhenEnded(held, more, ended) == IF ended THEN held + more <= MAX_RPC_FRAME_BYTES
                                                 ELSE held + more < MAX_RPC_FRAME_BYTES
FrameFits(held, more, ended) == held + more <= MAX_RPC_FRAME_BYTES

\* A response and the end of the connection.  Writing to a client that has gone fails.
CloseWith(answer) ==
    /\ link' = "closed"
    /\ answers' = IF link = "open" THEN Append(answers, answer) ELSE answers

\* fill_buf returns the n bytes that happen to be there, at least one.
ReadFragment(n) ==
    LET available == SubSeq(stream, 1, n)
        ends == {k \in 1..n : available[k] # Byte}
        pos == IF ends = {} THEN n ELSE CHOOSE k \in ends : \A j \in ends : k <= j
        more == IF ends = {} THEN n ELSE pos - 1
    IN /\ ReadingFrame /\ n \in 1..Len(stream)
       /\ IF ~FrameFits(frame, more, ends # {})
          THEN CloseWith("RESOURCE_EXHAUSTED") /\ UNCHANGED <<stream, frame, current>>
          ELSE /\ stream' = SubSeq(stream, pos + 1, Len(stream))
               /\ frame' = IF ends = {} THEN frame + n ELSE 0
               /\ current' = IF ends = {} THEN "none" ELSE available[pos]
               /\ UNCHANGED <<link, answers>>
       /\ UNCHANGED <<accepting, written, instances>>

\* Nothing arrives for RPC_READ_DEADLINE, in the middle of a frame or between two.
ReadTimeout ==
    /\ ReadingFrame /\ link = "open" /\ stream = <<>>
    /\ CloseWith("DEADLINE_EXCEEDED")
    /\ UNCHANGED <<accepting, written, stream, frame, current, instances>>

\* The end of the stream: at a frame boundary, or an error in the middle of one.
ReadEof ==
    /\ ReadingFrame /\ link = "broken" /\ stream = <<>> /\ link' = "closed"
    /\ UNCHANGED <<accepting, written, stream, frame, current, answers, instances>>

-----------------------------------------------------------------------------
(* handle_connection and dispatch *)

\* A handler that calls the engine answers with what the engine returns: the record
\* asked for, the instance it started, or an error's code.  OrbflowError::Timeout has
\* the code the server itself uses when it gives up reading.
MethodAnswers(kind) == {IF kind = "call" THEN "ok" ELSE "started", "error", "DEADLINE_EXCEEDED"}

AnswerBodyFirst(kind) ==
    CASE kind \in {"malformed", "no_envelope", "bad_body"} -> {"INVALID_ARGUMENT"}
      [] kind = "no_token" -> {"UNAUTHENTICATED"}
      [] kind = "unknown" -> {"UNIMPLEMENTED"}
      [] kind \in {"start", "with_owner", "call"} -> MethodAnswers(kind)

\* The code of the response.
RpcAnswer(kind) ==
    CASE kind \in {"malformed", "no_envelope", "bad_body"} -> {"INVALID_ARGUMENT"}
      [] kind \in {"no_token", "with_owner"} -> {"UNAUTHENTICATED"}
      [] kind = "unknown" -> {"UNIMPLEMENTED"}
      [] kind \in {"start", "call"} -> MethodAnswers(kind)

\* Instances that the engine stores while the handler runs.  start_workflow stores the
\* instance first: what fails after that leaves it there, behind an error's code.
StoredFor(kind, answer) == IF answer = "started" THEN {1} ELSE IF kind = "start" THEN {0, 1} ELSE {0}

\* The handler runs to its end whether or not the client is still there; only
\* then is the response written, and a failed write closes the connection.
Respond(answer) ==
    /\ link \in {"open", "broken"} /\ current # "none" /\ answer \in RpcAnswer(current)
    /\ \E stored \in StoredFor(current, answer) : instances' = instances + stored
    /\ current' = "none"
    /\ answers' = IF link = "open" THEN Append(answers, answer) ELSE answers
    /\ link' = IF link = "open" THEN "open" ELSE "closed"
    /\ UNCHANGED <<accepting, written, stream, frame>>

RpcNext ==
    \/ Accept \/ StopRpc \/ HangUp
    \/ \E kind \in RpcKinds, size \in 1..LongestFrame : WriteRequest(kind, size)
    \/ \E n \in 1..Len(stream) : ReadFragment(n)
    \/ ReadTimeout \/ ReadEof
    \/ \E answer \in {"INVALID_ARGUMENT", "UNAUTHENTICATED", "UNIMPLEMENTED", "ok", "started", "error",
                       "DEADLINE_EXCEEDED"} : Respond(answer)

RpcSpec == RpcInit /\ [][RpcNext]_rpcVars

-----------------------------------------------------------------------------
(* Properties *)

\* The i-th response answers the i-th request, however the bytes were grouped.  Two
\* responses answer none, and each can only be the last word: a frame is refused
\* exactly when it is too long, and a deadline when every full request was answered.
LastWordOK(i) ==
    /\ i = Len(answers) /\ link = "closed"
    /\ \/ answers[i] = "DEADLINE_EXCEEDED" /\ i = Len(written) + 1
       \/ answers[i] = "RESOURCE_EXHAUSTED" /\ i <= Len(written) /\ written[i].size > MAX_RPC_FRAME_BYTES
AnswersInOrder ==
    \A i \in 1..Len(answers) :
        \/ i <= Len(written) /\ written[i].size <= MAX_RPC_FRAME_BYTES /\ answers[i] \in RpcAnswer(written[i].kind)
        \/ LastWordOK(i)

\* The engine starts only what an authenticated, well-formed StartWorkflow asked
\* for, once each, and behind every instance is a start that the client was told of
\* or whose answer was an error, but for the last one, made while it hung up.
Told == {i \in DOMAIN answers : answers[i] = "started"}
Asked == {i \in DOMAIN written : written[i].kind = "start"}
ToldOrFailed == {i \in DOMAIN answers \cap Asked : answers[i] \in MethodAnswers("start")}
StartsAccounted ==
    /\ instances <= Cardinality(Asked)
    /\ Cardinality(Told) <= instances
    /\ instances <= Cardinality(ToldOrFailed) + (IF link = "closed" THEN 1 ELSE 0)

\* The client knows what became of its requests, as far as the answers can tell.
AnswersAccount == AnswersInOrder /\ StartsAccounted
=============================================================================
