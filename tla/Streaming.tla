-------------------------------- MODULE Streaming ------------------------------
(***************************************************************************)
(* A node that streams its output.  The worker relays the chunks of the    *)
(* executor to a subject of the bus, which hands them to whoever listens   *)
(* at that moment, and then publishes the result of the task; a task that  *)
(* is delivered again streams to the same subject again.  A client of the   *)
(* event-stream endpoint has a subscription of its own, run by a loop that  *)
(* learns that the client has left when it cannot hand it a message.        *)
(***************************************************************************)
EXTENDS Naturals, Sequences, SequencesExt

CONSTANTS
  MaxAttempts,  \* bound: deliveries of the task
  Clients       \* readers of the event stream

VARIABLES
  executor,   \* each delivery's executor: "idle", "calling", "answered", "ended", "timed_out"
  channel,    \* each delivery's chunks between executor and worker
  relay,      \* each delivery's handle_streaming_task: [at, seq, output, error]
  outcome,    \* the result published for each delivery
  client,     \* each client: "none", "open", "gone"
  listening,  \* clients whose subscription loop runs
  inbox,      \* messages of each subscription
  shown       \* events each client got

streamVars == <<executor, channel, relay, outcome, client, listening, inbox, shown>>

Attempts == 1..MaxAttempts
IsTerminal(kind) == kind \in {"done", "error"}

StreamingInit ==
  /\ executor = [a \in Attempts |-> "idle"] /\ channel = [a \in Attempts |-> <<>>]
  /\ relay = [a \in Attempts |-> [at |-> "idle", seq |-> 0, output |-> FALSE, error |-> FALSE]]
  /\ outcome = [a \in Attempts |-> "none"]
  /\ client = [c \in Clients |-> "none"] /\ listening = {}
  /\ inbox = [c \in Clients |-> <<>>] /\ shown = [c \in Clients |-> <<>>]

(***************************************************************************)
(* The executor (AiChatNode::execute_streaming)                            *)
(***************************************************************************)
\* The task arrives, or arrives again while an earlier delivery is still at work.
StartStreaming(a) ==
  /\ executor[a] = "idle" /\ (a > 1 => executor[a - 1] # "idle")
  /\ executor' = [executor EXCEPT ![a] = "calling"]
  /\ relay' = [relay EXCEPT ![a].at = "relaying"]
  /\ UNCHANGED <<channel, outcome, client, listening, inbox, shown>>

Send(a, kind, from, to) ==
  /\ executor[a] = from /\ executor' = [executor EXCEPT ![a] = to]
  /\ channel' = [channel EXCEPT ![a] = Append(@, kind)]
  /\ UNCHANGED <<relay, outcome, client, listening, inbox, shown>>

SendData(a) == Send(a, "data", "calling", "answered")
SendDoneAndLinger(a) == Send(a, "done", "answered", "lingering")
SendDone(a) == Send(a, "done", "answered", "ended")
SendError(a) == Send(a, "error", "calling", "ended")

\* The timeout of the task drops the executor, and with it the sender.
ExecutorTimesOut(a) ==
  /\ executor[a] \notin {"idle", "ended", "timed_out"}
  /\ executor' = [executor EXCEPT ![a] = "timed_out"]
  /\ UNCHANGED <<channel, relay, outcome, client, listening, inbox, shown>>

(***************************************************************************)
(* The worker (handle_streaming_task)                                      *)
(***************************************************************************)
SameNumber(a) == 0
NextNumber(a) == relay[a].seq + 1

\* Published to the subscriptions there are, or lost: a failure is only logged.
RelayChunk(a, lost) ==
  LET kind == Head(channel[a])  message == [attempt |-> a, seq |-> relay[a].seq, kind |-> kind] IN
  /\ relay[a].at = "relaying" /\ channel[a] # <<>>
  /\ channel' = [channel EXCEPT ![a] = Tail(@)]
  /\ relay' = [relay EXCEPT ![a] = [at |-> IF IsTerminal(kind) THEN "waiting" ELSE "relaying",
       seq |-> NextNumber(a), output |-> relay[a].output \/ kind = "done", error |-> relay[a].error \/ kind = "error"]]
  /\ inbox' = [c \in Clients |-> IF c \in listening /\ ~lost THEN Append(inbox[c], message) ELSE inbox[c]]
  /\ UNCHANGED <<executor, outcome, client, listening, shown>>

\* The sender is gone before a terminal chunk.
RelayEnds(a) ==
  /\ relay[a].at = "relaying" /\ channel[a] = <<>> /\ executor[a] \in {"ended", "timed_out"}
  /\ relay' = [relay EXCEPT ![a].at = "waiting"]
  /\ UNCHANGED <<executor, channel, outcome, client, listening, inbox, shown>>

\* An error counts before an output, and no terminal chunk is an error.
ResultOf(a) ==
  IF relay[a].error \/ executor[a] = "timed_out" \/ ~relay[a].output THEN "error" ELSE "ok"

PublishStreamResult(a) ==
  /\ relay[a].at = "waiting" /\ executor[a] \in {"ended", "timed_out"}
  /\ relay' = [relay EXCEPT ![a].at = "finished"]
  /\ outcome' = [outcome EXCEPT ![a] = ResultOf(a)]
  /\ UNCHANGED <<executor, channel, client, listening, inbox, shown>>

(***************************************************************************)
(* The event-stream endpoint (stream_node) and its subscription            *)
(***************************************************************************)
OpenStream(c) ==
  /\ client[c] = "none" /\ client' = [client EXCEPT ![c] = "open"]
  /\ listening' = listening \cup {c}
  /\ UNCHANGED <<executor, channel, relay, outcome, inbox, shown>>

LeaveStream(c) ==
  /\ client[c] = "open" /\ client' = [client EXCEPT ![c] = "gone"]
  /\ UNCHANGED <<executor, channel, relay, outcome, listening, inbox, shown>>

HandleMessage(c) ==
  /\ c \in listening /\ inbox[c] # <<>>
  /\ IF client[c] = "open"
     THEN /\ shown' = [shown EXCEPT ![c] = Append(@, Head(inbox[c]))]
          /\ inbox' = [inbox EXCEPT ![c] = Tail(@)] /\ UNCHANGED listening
     ELSE /\ listening' = listening \ {c}
          /\ inbox' = [inbox EXCEPT ![c] = <<>>] /\ UNCHANGED shown
  /\ UNCHANGED <<executor, channel, relay, outcome, client>>

StreamingNext ==
  \/ \E a \in Attempts :
       \/ StartStreaming(a) \/ SendData(a) \/ SendDone(a) \/ SendError(a) \/ ExecutorTimesOut(a)
       \/ \E lost \in BOOLEAN : RelayChunk(a, lost)
       \/ RelayEnds(a) \/ PublishStreamResult(a)
  \/ \E c \in Clients : OpenStream(c) \/ LeaveStream(c) \/ HandleMessage(c)

StreamingSpec == StreamingInit /\ [][StreamingNext]_streamVars

(***************************************************************************)
(* Properties                                                              *)
(***************************************************************************)
\* What a client was shown as the end of a delivery is the result that the engine
\* gets for it, whenever the timeout strikes.
ShownIsResult ==
  \A c \in Clients : \A i \in DOMAIN shown[c] :
    LET e == shown[c][i] IN
    /\ e.kind = "done" => outcome[e.attempt] # "error"
    /\ e.kind = "error" => outcome[e.attempt] # "ok"

\* A client sees the chunks of one delivery in the order they were sent, each
\* once and none after the end, although deliveries of the same task interleave.
ShownInOrder ==
  \A c \in Clients : \A i, j \in DOMAIN shown[c] :
    LET x == shown[c][i]  y == shown[c][j] IN
    i < j /\ x.attempt = y.attempt => x.seq < y.seq /\ ~IsTerminal(x.kind)

\* The stream a client sees of each delivery is the delivery: in order, and ended
\* as the engine sees it end.
ShownIsDelivery == ShownInOrder /\ ShownIsResult
================================================================================
