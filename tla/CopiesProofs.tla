------------------------------ MODULE CopiesProofs ------------------------------
(***************************************************************************)
(* Four parts keep a copy of something that goes on changing beside it,    *)
(* and what they show of it is proved for any number of readers, requests, *)
(* versions and deliveries.  The stream of a node shows its deliveries as  *)
(* they were; the plugin index that is served is recent; the registered    *)
(* triggers follow the stored workflows once start had the mutex before    *)
(* the first request, and a trigger whose node is gone starts nothing; a   *)
(* recorded migration has been run.                                        *)
(***************************************************************************)
EXTENDS Registry, Streaming, Triggers, Migrations, SequenceTheorems, FiniteSetTheorems, TLAPS

(***************************************************************************)
(* Sequences                                                               *)
(***************************************************************************)
LEMMA AppendFacts ==
  ASSUME NEW S, NEW s \in Seq(S), NEW e \in S
  PROVE  /\ Append(s, e) \in Seq(S)
         /\ \A i \in DOMAIN Append(s, e) :
              i \in Nat /\ (\/ i \in DOMAIN s /\ i <= Len(s) /\ Append(s, e)[i] = s[i]
                            \/ i = Len(s) + 1 /\ Append(s, e)[i] = e)
<1>1. /\ Append(s, e) \in Seq(S) /\ Len(Append(s, e)) = Len(s) + 1 /\ Len(s) \in Nat
      /\ \A i \in 1..Len(s) : Append(s, e)[i] = s[i]
      /\ Append(s, e)[Len(s) + 1] = e
  BY AppendProperties
<1>2. DOMAIN s = 1..Len(s) /\ DOMAIN Append(s, e) = 1..(Len(s) + 1)
  BY <1>1
<1> QED BY <1>1, <1>2

LEMMA TailFacts ==
  ASSUME NEW S, NEW s \in Seq(S), s # <<>>
  PROVE  /\ Head(s) \in S /\ Head(s) = s[1] /\ 1 \in DOMAIN s /\ Tail(s) \in Seq(S)
         /\ \A i \in DOMAIN Tail(s) : i \in Nat \ {0} /\ i + 1 \in DOMAIN s /\ Tail(s)[i] = s[i + 1]
<1>1. /\ Tail(s) \in Seq(S) /\ Len(Tail(s)) = Len(s) - 1 /\ Len(s) \in Nat
      /\ \A i \in 1..Len(Tail(s)) : Tail(s)[i] = s[i + 1]
      /\ Head(s) \in S /\ Head(s) = s[1]
  BY HeadTailProperties
<1>2. DOMAIN s = 1..Len(s) /\ DOMAIN Tail(s) = 1..Len(Tail(s)) /\ Len(s) # 0
  BY <1>1
<1> QED BY <1>1, <1>2

(***************************************************************************)
(* Streaming                                                               *)
(***************************************************************************)
Kinds == {"data", "done", "error"}
Message == [attempt : Attempts, seq : Nat, kind : Kinds]

StreamShape ==
  /\ executor \in [Attempts -> {"idle", "calling", "answered", "ended", "timed_out"}]
  /\ channel \in [Attempts -> Seq(Kinds)]
  /\ relay \in [Attempts -> [at : {"idle", "relaying", "waiting", "finished"}, seq : Nat,
                             output : BOOLEAN, error : BOOLEAN]]
  /\ outcome \in [Attempts -> {"none", "ok", "error"}]
  /\ inbox \in [Clients -> Seq(Message)] /\ shown \in [Clients -> Seq(Message)]

\* One delivery: a "done" chunk is the last thing an executor does, so no timeout
\* follows it; as long as the worker relays, it has seen no terminal chunk; and
\* what it publishes at the end nothing changes any more.
DeliveryOK(a) ==
  /\ executor[a] = "idle" => relay[a].at = "idle"
  /\ relay[a].at \in {"idle", "relaying"} => ~relay[a].output /\ ~relay[a].error
  /\ \A i \in DOMAIN channel[a] : channel[a][i] = "done" => executor[a] = "ended"
  /\ outcome[a] # "none" => /\ relay[a].at = "finished" /\ outcome[a] = ResultOf(a)
                            /\ executor[a] \in {"ended", "timed_out"}

\* A message on its way to a client, or there
MessageOK(m) ==
  /\ m.seq < relay[m.attempt].seq
  /\ IsTerminal(m.kind) => relay[m.attempt].at \in {"waiting", "finished"}
  /\ m.kind = "done" => /\ relay[m.attempt].output /\ ~relay[m.attempt].error
                        /\ executor[m.attempt] = "ended"
  /\ m.kind = "error" => relay[m.attempt].error

Before(x, y) == x.attempt = y.attempt => x.seq < y.seq /\ ~IsTerminal(x.kind)

\* Shown first, still in the inbox after it
ClientOK(c) ==
  /\ \A i \in DOMAIN shown[c] : MessageOK(shown[c][i])
  /\ \A i \in DOMAIN inbox[c] : MessageOK(inbox[c][i])
  /\ \A i, j \in DOMAIN shown[c] : i < j => Before(shown[c][i], shown[c][j])
  /\ \A i, j \in DOMAIN inbox[c] : i < j => Before(inbox[c][i], inbox[c][j])
  /\ \A i \in DOMAIN shown[c], j \in DOMAIN inbox[c] : Before(shown[c][i], inbox[c][j])

StreamInv ==
  /\ StreamShape
  /\ \A a \in Attempts : DeliveryOK(a)
  /\ \A c \in Clients : ClientOK(c)

LEMMA InitStreamInv == StreamingInit => StreamInv
<1> SUFFICES ASSUME StreamingInit PROVE StreamInv
  OBVIOUS
<1>1. StreamShape
  BY DEF StreamingInit, StreamShape
<1>2. \A a \in Attempts : DeliveryOK(a)
  BY DEF StreamingInit, DeliveryOK
<1>3. \A c \in Clients : ClientOK(c)
  BY DEF StreamingInit, ClientOK
<1> QED BY <1>1, <1>2, <1>3 DEF StreamInv

\* A delivery goes on: what was said about messages stays true.
Continues ==
  \A a \in Attempts :
    /\ relay'[a].seq >= relay[a].seq
    /\ relay[a].at \in {"waiting", "finished"} =>
         /\ relay'[a].at \in {"waiting", "finished"}
         /\ relay'[a].output = relay[a].output /\ relay'[a].error = relay[a].error
    /\ executor[a] = "ended" => executor'[a] = "ended"

LEMMA MessageKept ==
  ASSUME StreamShape, StreamShape', Continues, NEW m \in Message, MessageOK(m)
  PROVE  MessageOK(m)'
<1>1. m.attempt \in Attempts /\ m.seq \in Nat /\ relay[m.attempt].seq \in Nat /\ relay'[m.attempt].seq \in Nat
  BY DEF StreamShape, Message
<1>2. m.seq < relay'[m.attempt].seq
  BY <1>1 DEF Continues, MessageOK
<1> QED BY <1>1, <1>2 DEF Continues, MessageOK, IsTerminal

LEMMA ClientKept ==
  ASSUME StreamShape, StreamShape', Continues, NEW c \in Clients, ClientOK(c),
         inbox'[c] = inbox[c], shown'[c] = shown[c]
  PROVE  ClientOK(c)'
<1>1. \A i \in DOMAIN shown[c] : shown[c][i] \in Message
  BY ElementOfSeq DEF StreamShape
<1>2. \A i \in DOMAIN inbox[c] : inbox[c][i] \in Message
  BY ElementOfSeq DEF StreamShape
<1>3. \A i \in DOMAIN shown'[c] : MessageOK(shown[c][i])'
  BY <1>1, MessageKept DEF ClientOK
<1>4. \A i \in DOMAIN inbox'[c] : MessageOK(inbox[c][i])'
  BY <1>2, MessageKept DEF ClientOK
<1> QED BY <1>3, <1>4 DEF ClientOK

\* A step of one delivery that sends no message
LEMMA DeliveryStep ==
  ASSUME StreamInv, StreamShape', Continues, NEW a \in Attempts, DeliveryOK(a)',
         \A b \in Attempts \ {a} : /\ executor'[b] = executor[b] /\ channel'[b] = channel[b]
                                   /\ relay'[b] = relay[b] /\ outcome'[b] = outcome[b],
         UNCHANGED <<inbox, shown>>
  PROVE  StreamInv'
<1>1. \A b \in Attempts : DeliveryOK(b)'
  BY DEF StreamInv, DeliveryOK, ResultOf
<1>2. \A c \in Clients : ClientOK(c)'
  BY ClientKept DEF StreamInv
<1> QED BY <1>1, <1>2 DEF StreamInv

LEMMA StartStreamingOK == ASSUME StreamInv, NEW a \in Attempts, StartStreaming(a) PROVE StreamInv'
<1>1. relay[a].at = "idle" /\ relay \in [Attempts -> [at : {"idle", "relaying", "waiting", "finished"},
         seq : Nat, output : BOOLEAN, error : BOOLEAN]]
  BY DEF StreamInv, StreamShape, DeliveryOK, StartStreaming
<1>2. /\ relay'[a] = [relay[a] EXCEPT !.at = "relaying"] /\ executor'[a] = "calling"
      /\ \A b \in Attempts \ {a} : executor'[b] = executor[b] /\ relay'[b] = relay[b]
      /\ UNCHANGED <<channel, outcome, inbox, shown>> /\ executor[a] = "idle"
  BY DEF StreamInv, StreamShape, StartStreaming
<1>3. StreamShape'
  BY DEF StreamInv, StreamShape, StartStreaming
<1>4. relay'[a].seq = relay[a].seq /\ relay'[a].at = "relaying" /\ relay'[a].output = relay[a].output
      /\ relay'[a].error = relay[a].error /\ \A b \in Attempts : relay[b].seq \in Nat
  BY <1>1, <1>2
<1>5. Continues
  BY <1>1, <1>2, <1>4 DEF Continues
<1>6. DeliveryOK(a)'
  BY <1>1, <1>2, <1>4 DEF StreamInv, DeliveryOK
<1> QED BY <1>2, <1>3, <1>5, <1>6, DeliveryStep

LEMMA SendOK ==
  ASSUME StreamInv, NEW a \in Attempts, NEW kind \in Kinds, NEW from \in {"calling", "answered"},
         NEW to \in {"answered", "ended"}, Send(a, kind, from, to), kind = "done" => to = "ended"
  PROVE  StreamInv'
<1>1. /\ channel[a] \in Seq(Kinds) /\ channel'[a] = Append(channel[a], kind)
      /\ executor[a] = from /\ executor'[a] = to
      /\ \A b \in Attempts \ {a} : executor'[b] = executor[b] /\ channel'[b] = channel[b]
      /\ UNCHANGED <<relay, outcome, inbox, shown>>
  BY DEF StreamInv, StreamShape, Send
<1>2. channel'[a] \in Seq(Kinds)
  BY <1>1, AppendFacts
<1>3. StreamShape'
  BY <1>1, <1>2 DEF StreamInv, StreamShape, Send
<1>4. Continues
  <2>1. \A b \in Attempts : relay[b].seq \in Nat
    BY DEF StreamInv, StreamShape
  <2> QED BY <1>1, <2>1 DEF Continues
<1>5. \A i \in DOMAIN channel'[a] : channel'[a][i] = "done" => to = "ended"
  BY <1>1, AppendFacts DEF StreamInv, DeliveryOK
<1>6. DeliveryOK(a)'
  BY <1>1, <1>5 DEF StreamInv, DeliveryOK
<1> QED BY <1>1, <1>3, <1>4, <1>6, DeliveryStep

LEMMA ExecutorTimesOutOK == ASSUME StreamInv, NEW a \in Attempts, ExecutorTimesOut(a) PROVE StreamInv'
<1>1. /\ executor[a] \notin {"idle", "ended", "timed_out"} /\ executor'[a] = "timed_out"
      /\ \A b \in Attempts \ {a} : executor'[b] = executor[b]
      /\ UNCHANGED <<channel, relay, outcome, inbox, shown>>
  BY DEF StreamInv, StreamShape, ExecutorTimesOut
<1>2. StreamShape'
  BY DEF StreamInv, StreamShape, ExecutorTimesOut
<1>3. Continues
  <2>1. \A b \in Attempts : relay[b].seq \in Nat
    BY DEF StreamInv, StreamShape
  <2> QED BY <1>1, <2>1 DEF Continues
<1>4. DeliveryOK(a)'
  BY <1>1 DEF StreamInv, DeliveryOK
<1> QED BY <1>1, <1>2, <1>3, <1>4, DeliveryStep

LEMMA RelayEndsOK == ASSUME StreamInv, NEW a \in Attempts, RelayEnds(a) PROVE StreamInv'
<1>1. /\ relay[a].at = "relaying" /\ relay'[a] = [relay[a] EXCEPT !.at = "waiting"]
      /\ \A b \in Attempts \ {a} : relay'[b] = relay[b]
      /\ UNCHANGED <<executor, channel, outcome, inbox, shown>>
      /\ executor[a] \in {"ended", "timed_out"}
  BY DEF StreamInv, StreamShape, RelayEnds
<1>2. StreamShape'
  BY DEF StreamInv, StreamShape, RelayEnds
<1>3. relay'[a].seq = relay[a].seq /\ relay'[a].at = "waiting" /\ relay[a].seq \in Nat
      /\ \A b \in Attempts : relay[b].seq \in Nat
  BY <1>1 DEF StreamInv, StreamShape
<1>4. Continues
  <2> SUFFICES ASSUME NEW b \in Attempts
               PROVE  /\ relay'[b].seq >= relay[b].seq
                      /\ relay[b].at \in {"waiting", "finished"} =>
                           /\ relay'[b].at \in {"waiting", "finished"}
                           /\ relay'[b].output = relay[b].output /\ relay'[b].error = relay[b].error
                      /\ executor[b] = "ended" => executor'[b] = "ended"
    BY DEF Continues
  <2>1. CASE b = a
    <3>1. relay'[a].seq >= relay[a].seq
      BY <1>3
    <3>2. relay[a].at \in {"waiting", "finished"} =>
            /\ relay'[a].at \in {"waiting", "finished"}
            /\ relay'[a].output = relay[a].output /\ relay'[a].error = relay[a].error
      BY <1>1, <1>3
    <3>3. executor' = executor
      BY <1>1
    <3> QED BY <2>1, <3>1, <3>2, <3>3
  <2>2. CASE b # a
    BY <1>1, <1>3, <2>2
  <2> QED BY <2>1, <2>2
<1>5. DeliveryOK(a)'
  BY <1>1, <1>3 DEF StreamInv, DeliveryOK
<1> QED BY <1>1, <1>2, <1>4, <1>5, DeliveryStep

LEMMA PublishStreamResultOK == ASSUME StreamInv, NEW a \in Attempts, PublishStreamResult(a) PROVE StreamInv'
<1>1. /\ relay[a].at = "waiting" /\ relay'[a] = [relay[a] EXCEPT !.at = "finished"]
      /\ \A b \in Attempts \ {a} : relay'[b] = relay[b] /\ outcome'[b] = outcome[b]
      /\ UNCHANGED <<executor, channel, inbox, shown>>
      /\ executor[a] \in {"ended", "timed_out"} /\ outcome'[a] = ResultOf(a)
  BY DEF StreamInv, StreamShape, PublishStreamResult
<1>2. StreamShape'
  BY DEF StreamInv, StreamShape, PublishStreamResult, ResultOf
<1>3. relay'[a].seq = relay[a].seq /\ relay'[a].at = "finished" /\ relay[a].seq \in Nat
      /\ relay'[a].output = relay[a].output /\ relay'[a].error = relay[a].error
      /\ \A b \in Attempts : relay[b].seq \in Nat
  BY <1>1 DEF StreamInv, StreamShape
<1>4. Continues
  <2> SUFFICES ASSUME NEW b \in Attempts
               PROVE  /\ relay'[b].seq >= relay[b].seq
                      /\ relay[b].at \in {"waiting", "finished"} =>
                           /\ relay'[b].at \in {"waiting", "finished"}
                           /\ relay'[b].output = relay[b].output /\ relay'[b].error = relay[b].error
                      /\ executor[b] = "ended" => executor'[b] = "ended"
    BY DEF Continues
  <2>1. CASE b = a
    <3>1. relay'[a].seq >= relay[a].seq
      BY <1>3
    <3>2. relay[a].at \in {"waiting", "finished"} =>
            /\ relay'[a].at \in {"waiting", "finished"}
            /\ relay'[a].output = relay[a].output /\ relay'[a].error = relay[a].error
      BY <1>1, <1>3
    <3>3. executor' = executor
      BY <1>1
    <3> QED BY <2>1, <3>1, <3>2, <3>3
  <2>2. CASE b # a
    BY <1>1, <1>3, <2>2
  <2> QED BY <2>1, <2>2
<1>5. DeliveryOK(a)'
  BY <1>1, <1>3 DEF StreamInv, DeliveryOK, ResultOf
<1> QED BY <1>1, <1>2, <1>4, <1>5, DeliveryStep

\* The chunk gets the next number, so it comes after all that were sent before it, and
\* none of those was terminal, because the worker was still relaying.
LEMMA RelayChunkOK ==
  ASSUME StreamInv, NEW a \in Attempts, NEW lost \in BOOLEAN, RelayChunk(a, lost)
  PROVE  StreamInv'
<1> PICK kind : kind = Head(channel[a])
  OBVIOUS
<1> PICK message : message = [attempt |-> a, seq |-> relay[a].seq, kind |-> kind]
  OBVIOUS
<1>1. /\ relay[a].at = "relaying" /\ channel[a] # <<>> /\ channel[a] \in Seq(Kinds)
      /\ relay[a].seq \in Nat /\ ~relay[a].output /\ ~relay[a].error
      /\ \A b \in Attempts : relay[b].seq \in Nat
  BY DEF RelayChunk, StreamInv, StreamShape, DeliveryOK
<1>2. /\ kind \in Kinds /\ kind = channel[a][1] /\ 1 \in DOMAIN channel[a] /\ Tail(channel[a]) \in Seq(Kinds)
      /\ \A i \in DOMAIN Tail(channel[a]) : i + 1 \in DOMAIN channel[a] /\ Tail(channel[a])[i] = channel[a][i + 1]
  BY <1>1, TailFacts
<1>3. /\ channel' = [channel EXCEPT ![a] = Tail(channel[a])]
      /\ relay' = [relay EXCEPT ![a] = [at |-> IF IsTerminal(kind) THEN "waiting" ELSE "relaying",
            seq |-> relay[a].seq + 1, output |-> relay[a].output \/ kind = "done",
            error |-> relay[a].error \/ kind = "error"]]
      /\ inbox' = [c \in Clients |-> IF c \in listening /\ ~lost THEN Append(inbox[c], message) ELSE inbox[c]]
      /\ UNCHANGED <<executor, outcome, shown>>
  BY DEF RelayChunk, NextNumber
<1>4. /\ channel'[a] = Tail(channel[a]) /\ \A b \in Attempts \ {a} : channel'[b] = channel[b] /\ relay'[b] = relay[b]
      /\ relay'[a].at = (IF IsTerminal(kind) THEN "waiting" ELSE "relaying")
      /\ relay'[a].seq = relay[a].seq + 1
  BY <1>3 DEF StreamInv, StreamShape
<1>5. (relay'[a].output <=> kind = "done") /\ (relay'[a].error <=> kind = "error")
  BY <1>1, <1>3 DEF StreamInv, StreamShape
<1>6. message \in Message
  BY <1>1, <1>2 DEF Message
<1>7. \A c \in Clients : inbox[c] \in Seq(Message) /\ shown[c] \in Seq(Message)
                          /\ inbox'[c] \in Seq(Message)
  BY <1>3, <1>6, AppendFacts DEF StreamInv, StreamShape
<1>8. StreamShape'
  <2>1. relay' \in [Attempts -> [at : {"idle", "relaying", "waiting", "finished"}, seq : Nat,
                                 output : BOOLEAN, error : BOOLEAN]]
    BY <1>1, <1>3 DEF StreamInv, StreamShape
  <2>2. channel' \in [Attempts -> Seq(Kinds)]
    BY <1>2, <1>3 DEF StreamInv, StreamShape
  <2>3. inbox' \in [Clients -> Seq(Message)]
    BY <1>3, <1>7
  <2> QED BY <1>3, <2>1, <2>2, <2>3 DEF StreamInv, StreamShape
<1>9. Continues
  BY <1>1, <1>3, <1>4 DEF Continues
<1>10. ASSUME NEW b \in Attempts PROVE DeliveryOK(b)'
  <2>1. CASE b = a
    <3>1. outcome[a] = "none"
      BY <1>1 DEF StreamInv, DeliveryOK
    <3>2. \A i \in DOMAIN channel'[a] : channel'[a][i] = "done" => executor[a] = "ended"
      BY <1>2, <1>4 DEF StreamInv, DeliveryOK
    <3>3. executor[a] # "idle"
      BY <1>1 DEF StreamInv, DeliveryOK
    <3> QED BY <1>3, <1>4, <1>5, <2>1, <3>1, <3>2, <3>3 DEF DeliveryOK, IsTerminal
  <2>2. CASE b # a
    BY <1>3, <1>4, <2>2 DEF StreamInv, DeliveryOK, ResultOf
  <2> QED BY <2>1, <2>2
<1>11. MessageOK(message)'
  <2>1. kind = "done" => executor[a] = "ended"
    BY <1>2 DEF StreamInv, DeliveryOK
  <2>2. message.seq = relay[a].seq /\ message.attempt = a /\ message.kind = kind
    OBVIOUS
  <2> QED BY <1>1, <1>3, <1>4, <1>5, <2>1, <2>2 DEF MessageOK, IsTerminal
<1>12. ASSUME NEW m \in Message, MessageOK(m) PROVE MessageOK(m)' /\ Before(m, message)
  <2>1. MessageOK(m)'
    BY <1>8, <1>9, <1>12, MessageKept DEF StreamInv
  <2>2. Before(m, message)
    BY <1>1, <1>12 DEF MessageOK, Before, Message
  <2> QED BY <2>1, <2>2
<1>13. ASSUME NEW c \in Clients PROVE ClientOK(c)'
  <2>1. CASE inbox'[c] = inbox[c]
    BY <1>3, <1>8, <1>9, <2>1, ClientKept DEF StreamInv
  <2>2. CASE inbox'[c] = Append(inbox[c], message)
    <3>1. \A i \in DOMAIN shown[c] : shown[c][i] \in Message /\ MessageOK(shown[c][i])
      BY <1>7, ElementOfSeq DEF StreamInv, ClientOK
    <3>2. \A i \in DOMAIN inbox[c] : inbox[c][i] \in Message /\ MessageOK(inbox[c][i])
      BY <1>7, ElementOfSeq DEF StreamInv, ClientOK
    <3>3. \A i \in DOMAIN inbox'[c] :
             i \in Nat /\ (\/ i \in DOMAIN inbox[c] /\ i <= Len(inbox[c]) /\ inbox'[c][i] = inbox[c][i]
                           \/ i = Len(inbox[c]) + 1 /\ inbox'[c][i] = message)
      BY <1>6, <1>7, <2>2, AppendFacts
    <3>4. \A i \in DOMAIN inbox'[c] : MessageOK(inbox[c][i])'
      BY <1>11, <1>12, <3>2, <3>3
    <3>5. \A i \in DOMAIN shown'[c] : MessageOK(shown[c][i])'
      BY <1>3, <1>12, <3>1
    <3>6. \A i, j \in DOMAIN inbox'[c] : i < j => Before(inbox'[c][i], inbox'[c][j])
      <4>1. ASSUME NEW i \in DOMAIN inbox'[c], NEW j \in DOMAIN inbox'[c], i < j
            PROVE  Before(inbox'[c][i], inbox'[c][j])
        <5>1. Len(inbox[c]) \in Nat
          BY <1>7
        <5>2. i \in DOMAIN inbox[c] /\ inbox'[c][i] = inbox[c][i]
          BY <3>3, <4>1, <5>1
        <5>3. CASE inbox'[c][j] = message
          BY <1>12, <3>2, <5>2, <5>3
        <5>4. CASE j \in DOMAIN inbox[c] /\ inbox'[c][j] = inbox[c][j]
          BY <4>1, <5>2, <5>4 DEF StreamInv, ClientOK
        <5> QED BY <3>3, <5>3, <5>4
      <4> QED BY <4>1
    <3>7. \A i \in DOMAIN shown'[c], j \in DOMAIN inbox'[c] : Before(shown'[c][i], inbox'[c][j])
      BY <1>3, <1>12, <3>1, <3>3 DEF StreamInv, ClientOK
    <3>8. \A i, j \in DOMAIN shown'[c] : i < j => Before(shown'[c][i], shown'[c][j])
      BY <1>3 DEF StreamInv, ClientOK
    <3> QED BY <3>4, <3>5, <3>6, <3>7, <3>8 DEF ClientOK
  <2> QED BY <1>3, <2>1, <2>2
<1> QED BY <1>8, <1>10, <1>13 DEF StreamInv

\* The oldest message of the inbox becomes the latest one shown.
LEMMA HandleMessageOK == ASSUME StreamInv, NEW c \in Clients, HandleMessage(c) PROVE StreamInv'
<1>1. /\ inbox[c] # <<>> /\ inbox[c] \in Seq(Message) /\ shown[c] \in Seq(Message)
      /\ UNCHANGED <<executor, channel, relay, outcome>>
  BY DEF HandleMessage, StreamInv, StreamShape
<1>2. \A a \in Attempts : DeliveryOK(a)'
  BY <1>1 DEF StreamInv, DeliveryOK, ResultOf
<1>3. ASSUME NEW m PROVE MessageOK(m)' <=> MessageOK(m)
  BY <1>1 DEF MessageOK
<1>4. CASE client[c] = "open"
  <2>1. /\ shown' = [shown EXCEPT ![c] = Append(@, Head(inbox[c]))]
        /\ inbox' = [inbox EXCEPT ![c] = Tail(@)]
    BY <1>4 DEF HandleMessage
  <2>2. /\ shown'[c] = Append(shown[c], Head(inbox[c])) /\ inbox'[c] = Tail(inbox[c])
        /\ \A d \in Clients \ {c} : shown'[d] = shown[d] /\ inbox'[d] = inbox[d]
    BY <2>1 DEF StreamInv, StreamShape
  <2>3. /\ Head(inbox[c]) \in Message /\ Head(inbox[c]) = inbox[c][1] /\ 1 \in DOMAIN inbox[c]
        /\ inbox'[c] \in Seq(Message)
        /\ \A i \in DOMAIN inbox'[c] : i \in Nat \ {0} /\ i + 1 \in DOMAIN inbox[c]
                                       /\ inbox'[c][i] = inbox[c][i + 1]
    BY <1>1, <2>2, TailFacts
  <2>4. /\ shown'[c] \in Seq(Message) /\ Len(shown[c]) \in Nat
        /\ \A i \in DOMAIN shown'[c] :
             i \in Nat /\ (\/ i \in DOMAIN shown[c] /\ i <= Len(shown[c]) /\ shown'[c][i] = shown[c][i]
                           \/ i = Len(shown[c]) + 1 /\ shown'[c][i] = inbox[c][1])
    BY <1>1, <2>2, <2>3, AppendFacts
  <2>5. StreamShape'
    BY <1>1, <2>1, <2>3, <2>4, <2>2 DEF StreamInv, StreamShape
  <2>6. ASSUME NEW d \in Clients PROVE ClientOK(d)'
    <3>1. CASE d # c
      BY <1>3, <2>2, <3>1 DEF StreamInv, ClientOK
    <3>2. CASE d = c
      <4>1. \A i \in DOMAIN shown'[c] : MessageOK(shown[c][i])'
        BY <1>3, <2>3, <2>4 DEF StreamInv, ClientOK
      <4>2. \A i \in DOMAIN inbox'[c] : MessageOK(inbox[c][i])'
        BY <1>3, <2>3 DEF StreamInv, ClientOK
      <4>3. ASSUME NEW i \in DOMAIN shown'[c], NEW j \in DOMAIN shown'[c], i < j
            PROVE  Before(shown'[c][i], shown'[c][j])
        <5>1. i \in DOMAIN shown[c] /\ shown'[c][i] = shown[c][i]
          BY <2>4, <4>3
        <5>2. CASE j \in DOMAIN shown[c] /\ shown'[c][j] = shown[c][j]
          BY <4>3, <5>1, <5>2 DEF StreamInv, ClientOK
        <5>3. CASE shown'[c][j] = inbox[c][1]
          BY <2>3, <5>1, <5>3 DEF StreamInv, ClientOK
        <5> QED BY <2>4, <5>2, <5>3
      <4>4. ASSUME NEW i \in DOMAIN inbox'[c], NEW j \in DOMAIN inbox'[c], i < j
            PROVE  Before(inbox'[c][i], inbox'[c][j])
        <5>1. /\ i + 1 \in DOMAIN inbox[c] /\ j + 1 \in DOMAIN inbox[c] /\ i + 1 < j + 1
              /\ inbox'[c][i] = inbox[c][i + 1] /\ inbox'[c][j] = inbox[c][j + 1]
          BY <2>3, <4>4
        <5> QED BY <5>1 DEF StreamInv, ClientOK
      <4>5. ASSUME NEW i \in DOMAIN shown'[c], NEW j \in DOMAIN inbox'[c]
            PROVE  Before(shown'[c][i], inbox'[c][j])
        <5>1. j + 1 \in DOMAIN inbox[c] /\ inbox'[c][j] = inbox[c][j + 1] /\ 1 < j + 1
          BY <2>3
        <5>2. CASE i \in DOMAIN shown[c] /\ shown'[c][i] = shown[c][i]
          BY <5>1, <5>2 DEF StreamInv, ClientOK
        <5>3. CASE shown'[c][i] = inbox[c][1]
          BY <2>3, <5>1, <5>3 DEF StreamInv, ClientOK
        <5> QED BY <2>4, <5>2, <5>3
      <4> QED BY <3>2, <4>1, <4>2, <4>3, <4>4, <4>5 DEF ClientOK
    <3> QED BY <3>1, <3>2
  <2> QED BY <1>2, <2>5, <2>6 DEF StreamInv
<1>5. CASE client[c] # "open"
  <2>1. shown' = shown /\ inbox' = [inbox EXCEPT ![c] = <<>>]
    BY <1>5 DEF HandleMessage
  <2>2. inbox'[c] = <<>> /\ \A d \in Clients \ {c} : inbox'[d] = inbox[d]
    BY <2>1 DEF StreamInv, StreamShape
  <2>3. StreamShape'
    BY <1>1, <2>1 DEF StreamInv, StreamShape
  <2>4. ASSUME NEW d \in Clients PROVE ClientOK(d)'
    <3>1. CASE d # c
      BY <1>3, <2>1, <2>2, <3>1 DEF StreamInv, ClientOK
    <3>2. CASE d = c
      BY <1>3, <2>1, <2>2, <3>2 DEF StreamInv, ClientOK
    <3> QED BY <3>1, <3>2
  <2> QED BY <1>2, <2>3, <2>4 DEF StreamInv
<1> QED BY <1>4, <1>5

LEMMA NextStreamInv == StreamInv /\ [StreamingNext]_streamVars => StreamInv'
<1> SUFFICES ASSUME StreamInv, [StreamingNext]_streamVars PROVE StreamInv'
  OBVIOUS
<1>1. ASSUME UNCHANGED <<executor, channel, relay, outcome, inbox, shown>> PROVE StreamInv'
  BY <1>1 DEF StreamInv, StreamShape, DeliveryOK, ResultOf, ClientOK, MessageOK
<1>2. ASSUME NEW a \in Attempts, SendData(a) \/ SendDone(a) \/ SendError(a) PROVE StreamInv'
  BY <1>2, SendOK DEF SendData, SendDone, SendError, Kinds
<1>3. ASSUME NEW c \in Clients, OpenStream(c) \/ LeaveStream(c) PROVE StreamInv'
  BY <1>1, <1>3 DEF OpenStream, LeaveStream
<1>4. CASE UNCHANGED streamVars
  BY <1>1, <1>4 DEF streamVars
<1>5. CASE StreamingNext
  BY <1>2, <1>3, <1>5, StartStreamingOK, ExecutorTimesOutOK, RelayChunkOK, RelayEndsOK,
     PublishStreamResultOK, HandleMessageOK DEF StreamingNext
<1> QED BY <1>4, <1>5

\* The stream a client sees of each delivery is the delivery: in order, without
\* repetition, nothing after the end, and ended the way the engine sees it end,
\* however deliveries of one task interleave, chunks are lost and timeouts strike.
THEOREM ShownIsDeliveryAlways == StreamingSpec => []ShownIsDelivery
<1>1. StreamInv => ShownIsDelivery
  <2> SUFFICES ASSUME StreamInv PROVE ShownInOrder /\ ShownIsResult
    BY DEF ShownIsDelivery
  <2>1. ShownInOrder
    BY DEF StreamInv, ClientOK, Before, ShownInOrder
  <2>2. ASSUME NEW c \in Clients, NEW i \in DOMAIN shown[c]
        PROVE  /\ shown[c][i].kind = "done" => outcome[shown[c][i].attempt] # "error"
               /\ shown[c][i].kind = "error" => outcome[shown[c][i].attempt] # "ok"
    <3> PICK e : e = shown[c][i]
      OBVIOUS
    <3>1. MessageOK(e)
      BY DEF StreamInv, ClientOK
    <3>2. e \in Message
      BY ElementOfSeq DEF StreamInv, StreamShape
    <3>3. e.attempt \in Attempts /\ DeliveryOK(e.attempt)
      BY <3>2 DEF StreamInv, Message
    <3> QED BY <3>1, <3>3 DEF MessageOK, DeliveryOK, ResultOf
  <2> QED BY <2>1, <2>2 DEF ShownIsResult
<1> QED BY <1>1, InitStreamInv, NextStreamInv, PTL DEF StreamingSpec

(***************************************************************************)
(* The plugin index                                                        *)
(***************************************************************************)
Ticks == 0..(MaxTicks + 1)

\* What is on GitHub only grows, and the past does not change.
PublishedOK ==
  /\ clock \in Nat /\ clock <= MaxTicks /\ published \in [Ticks -> Nat]
  /\ \A t, u \in Ticks : t <= u => published[t] <= published[u]
  /\ \A t \in Ticks : t > clock => published[t] = Latest

\* A version that was on GitHub at tick t or later
NotOlder(version, t) == version \in Nat /\ t \in Nat /\ t <= clock /\ version >= published[t]

\* An index goes into the cache within a fetch of being answered; the lease counts
\* from then on.
CacheOK ==
  cache # NoVersion => /\ cache.at \in Nat /\ cache.at <= clock
                       /\ NotOlder(cache.version, Earlier(cache.at, FetchTimeout))

\* No fetch is under way for longer than its timeout.
ReaderOK(q) ==
  /\ q = [step |-> q.step, use |-> q.use, version |-> q.version, since |-> q.since]
  /\ q.step \in {"idle", "ask", "fetch", "store"}
  /\ q.step \in {"fetch", "store"} => q.since \in Nat /\ q.since <= clock /\ clock - q.since <= FetchTimeout
  /\ q.step = "store" => NotOlder(q.version, q.since)

ServedOK ==
  /\ served.at \in Nat /\ served.at <= clock
  /\ NotOlder(served.version, Earlier(served.at, CACHE_TTL + FetchTimeout))

RegistryInv ==
  /\ PublishedOK /\ CacheOK /\ ServedOK
  /\ reader = [r \in Readers |-> reader[r]] /\ \A r \in Readers : ReaderOK(reader[r])

LEMMA EarlierFacts ==
  ASSUME NEW t \in Nat, NEW d \in Nat
  PROVE  Earlier(t, d) \in Nat /\ Earlier(t, d) <= t /\ (Earlier(t, d) = 0 \/ Earlier(t, d) = t - d)
         /\ (Earlier(t, d) = 0 => t - d <= 0)
  BY DEF Earlier

\* An index that was not older than t is not older than an earlier tick.
LEMMA OlderBound ==
  ASSUME RegistryInv, NEW v, NEW t, NotOlder(v, t), NEW u \in Nat, u <= t
  PROVE  NotOlder(v, u)
<1>1. t \in Ticks /\ u \in Ticks /\ u <= clock /\ published[u] \in Nat /\ published[t] \in Nat
  BY RegistryAssumption DEF RegistryInv, PublishedOK, NotOlder, Ticks
<1>2. published[u] <= published[t]
  BY <1>1 DEF RegistryInv, PublishedOK
<1> QED BY <1>1, <1>2 DEF NotOlder

LEMMA InitRegistryInv == RegistryInit => RegistryInv
<1> SUFFICES ASSUME RegistryInit PROVE RegistryInv
  OBVIOUS
<1> USE RegistryAssumption
<1>1. PublishedOK
  BY DEF RegistryInit, PublishedOK, Ticks, Latest
<1>2. ServedOK
  <2>1. Earlier(0, CACHE_TTL + FetchTimeout) = 0
    BY EarlierFacts
  <2> QED BY <2>1 DEF RegistryInit, ServedOK, NotOlder
<1>3. \A r \in Readers : ReaderOK(reader[r])
  BY DEF RegistryInit, ReaderOK, ReaderIdle
<1> QED BY <1>1, <1>2, <1>3 DEF RegistryInit, RegistryInv, CacheOK

\* Time goes on and versions are published: what was recent at its time still was.
LEMMA TimeKeeps ==
  ASSUME RegistryInv, PublishedOK', clock <= clock',
         \A t \in Ticks : t <= clock => published'[t] = published[t],
         UNCHANGED <<cache, served, reader>>,
         \A r \in Readers : reader[r].step \in {"fetch", "store"} => clock' - reader[r].since <= FetchTimeout
  PROVE  RegistryInv'
<1>1. clock \in Nat /\ clock' \in Nat /\ clock <= MaxTicks
  BY DEF RegistryInv, PublishedOK
<1>2. ASSUME NEW v, NEW t, NotOlder(v, t) PROVE NotOlder(v, t)'
  <2>1. t \in Ticks
    BY <1>1, <1>2, RegistryAssumption DEF NotOlder, Ticks
  <2> QED BY <1>1, <1>2, <2>1 DEF NotOlder
<1>3. CacheOK'
  BY <1>1, <1>2 DEF RegistryInv, CacheOK
<1>4. ServedOK'
  BY <1>1, <1>2 DEF RegistryInv, ServedOK
<1>5. ASSUME NEW r \in Readers PROVE ReaderOK(reader[r])'
  <2>1. ReaderOK(reader[r]) /\ reader' = reader
    BY DEF RegistryInv
  <2>2. reader[r].step \in {"fetch", "store"} => reader[r].since \in Nat /\ reader[r].since <= clock'
    BY <1>1, <2>1 DEF ReaderOK
  <2> QED BY <1>2, <2>1, <2>2 DEF ReaderOK
<1> QED BY <1>3, <1>4, <1>5 DEF RegistryInv

LEMMA RegistryTickOK == ASSUME RegistryInv, RegistryTick PROVE RegistryInv'
<1>1. /\ clock \in Nat /\ MaxTicks \in Nat /\ clock < MaxTicks /\ clock' = clock + 1
      /\ UNCHANGED <<published, cache, served, reader>>
  BY RegistryAssumption DEF RegistryInv, PublishedOK, RegistryTick
<1>2. clock + 1 \in Ticks /\ clock + 2 \in Ticks
  BY <1>1 DEF Ticks
<1>3. published[clock + 2] = published[clock + 1]
  BY <1>1, <1>2 DEF RegistryInv, PublishedOK, Latest
<1>4. PublishedOK'
  <2>1. clock' + 1 = clock + 2
    BY <1>1
  <2>2. \A t \in Ticks : t > clock' => t > clock
    BY <1>1 DEF Ticks
  <2>3. clock' \in Nat /\ clock' <= MaxTicks
    BY <1>1
  <2> QED BY <1>1, <1>3, <2>1, <2>2, <2>3 DEF RegistryInv, PublishedOK, Latest
<1>5. \A r \in Readers : reader[r].step \in {"fetch", "store"} => clock' - reader[r].since <= FetchTimeout
  <2>1. ASSUME NEW r \in Readers, reader[r].step \in {"fetch", "store"}
        PROVE  clock' - reader[r].since <= FetchTimeout
    <3>1. reader[r].since \in Nat /\ clock - reader[r].since < FetchTimeout
      BY <2>1 DEF RegistryInv, ReaderOK, RegistryTick
    <3> QED BY <1>1, <3>1, RegistryAssumption
  <2> QED BY <2>1
<1> QED BY <1>1, <1>4, <1>5, TimeKeeps

LEMMA PublishVersionOK == ASSUME RegistryInv, PublishVersion PROVE RegistryInv'
<1>1. /\ clock \in Nat /\ clock <= MaxTicks /\ MaxTicks \in Nat /\ published \in [Ticks -> Nat]
      /\ published' = [t \in Ticks |-> IF t > clock THEN Latest + 1 ELSE published[t]]
      /\ UNCHANGED <<clock, cache, served, reader>>
  BY RegistryAssumption DEF RegistryInv, PublishedOK, PublishVersion
<1>2. clock + 1 \in Ticks /\ Latest \in Nat /\ Latest' = Latest + 1
  <2>1. clock + 1 \in Ticks /\ clock + 1 > clock
    BY <1>1 DEF Ticks
  <2> QED BY <1>1, <2>1 DEF Latest
<1>3. \A t \in Ticks : published[t] <= Latest /\ published[t] \in Nat /\ t \in Nat
  <2>1. ASSUME NEW t \in Ticks PROVE published[t] <= Latest /\ t \in Nat
    <3>1. CASE t > clock
      BY <1>1, <1>2, <3>1 DEF RegistryInv, PublishedOK, Ticks
    <3>2. CASE ~(t > clock)
      <4>1. t <= clock + 1 /\ t \in Nat
        BY <1>1, <3>2 DEF Ticks
      <4> QED BY <1>2, <4>1 DEF RegistryInv, PublishedOK, Latest
    <3> QED BY <3>1, <3>2
  <2> QED BY <1>1, <2>1
<1>4. PublishedOK'
  <2>1. ASSUME NEW t \in Ticks, NEW u \in Ticks, t <= u PROVE published'[t] <= published'[u]
    <3>1. published[t] <= published[u]
      BY <2>1 DEF RegistryInv, PublishedOK
    <3> QED BY <1>1, <1>2, <1>3, <2>1, <3>1
  <2> QED BY <1>1, <1>2, <2>1 DEF PublishedOK
<1>5. \A t \in Ticks : t <= clock => published'[t] = published[t]
  BY <1>1, <1>3
<1>6. \A r \in Readers : reader[r].step \in {"fetch", "store"} => clock' - reader[r].since <= FetchTimeout
  BY <1>1 DEF RegistryInv, ReaderOK
<1> QED BY <1>1, <1>4, <1>5, <1>6, TimeKeeps

\* A step of one reader, which may store and serve an index
LEMMA ReaderStep ==
  ASSUME RegistryInv, NEW r \in Readers, reader' = [reader EXCEPT ![r] = reader'[r]],
         UNCHANGED <<clock, published>>, ReaderOK(reader[r])', CacheOK', ServedOK'
  PROVE  RegistryInv'
<1>1. \A q \in Readers : ReaderOK(reader[q])'
  <2>1. ASSUME NEW q \in Readers, q # r PROVE ReaderOK(reader[q])'
    <3>1. reader'[q] = reader[q] /\ ReaderOK(reader[q])
      BY <2>1 DEF RegistryInv
    <3> QED BY <3>1 DEF ReaderOK, NotOlder
  <2> QED BY <2>1
<1>2. PublishedOK'
  BY DEF RegistryInv, PublishedOK, Latest
<1> QED BY <1>1, <1>2 DEF RegistryInv

\* What the cache serves while it is fresh was on GitHub a fetch and a lease ago.
LEMMA FreshIsRecent ==
  ASSUME RegistryInv, Fresh
  PROVE  NotOlder(cache.version, Earlier(clock, CACHE_TTL + FetchTimeout))
<1>1. /\ cache.at \in Nat /\ cache.at <= clock /\ clock - cache.at < CACHE_TTL /\ clock \in Nat
      /\ NotOlder(cache.version, Earlier(cache.at, FetchTimeout))
  BY DEF RegistryInv, CacheOK, Fresh, PublishedOK
<1>2. Earlier(clock, CACHE_TTL + FetchTimeout) \in Nat
      /\ Earlier(clock, CACHE_TTL + FetchTimeout) <= Earlier(cache.at, FetchTimeout)
  BY <1>1, RegistryAssumption DEF Earlier
<1> QED BY <1>1, <1>2, OlderBound

\* What a reader has fetched is recent enough for the cache and for the caller.
LEMMA FetchedIsRecent ==
  ASSUME RegistryInv, NEW r \in Readers, reader[r].step = "store"
  PROVE  /\ NotOlder(reader[r].version, Earlier(clock, FetchTimeout))
         /\ NotOlder(reader[r].version, Earlier(clock, CACHE_TTL + FetchTimeout))
<1>1. /\ reader[r].since \in Nat /\ reader[r].since <= clock /\ clock - reader[r].since <= FetchTimeout
      /\ NotOlder(reader[r].version, reader[r].since) /\ clock \in Nat
  BY DEF RegistryInv, ReaderOK, PublishedOK
<1>2. /\ Earlier(clock, FetchTimeout) \in Nat /\ Earlier(clock, FetchTimeout) <= reader[r].since
      /\ Earlier(clock, CACHE_TTL + FetchTimeout) \in Nat
      /\ Earlier(clock, CACHE_TTL + FetchTimeout) <= reader[r].since
  BY <1>1, RegistryAssumption DEF Earlier
<1> QED BY <1>1, <1>2, OlderBound

LEMMA UseIndexOK ==
  ASSUME RegistryInv, NEW r \in Readers, NEW v, UseIndex(r, v), UNCHANGED <<clock, published>>,
         NotOlder(v, Earlier(clock, CACHE_TTL + FetchTimeout)), CacheOK'
  PROVE  RegistryInv'
<1>1. /\ served' = [version |-> v, at |-> clock] /\ reader' = [reader EXCEPT ![r] = ReaderIdle]
      /\ reader'[r] = ReaderIdle /\ clock \in Nat
  BY DEF UseIndex, RegistryInv, PublishedOK
<1>2. ServedOK'
  <2>1. NotOlder(v, Earlier(clock, CACHE_TTL + FetchTimeout))'
    BY DEF NotOlder, Earlier
  <2>2. served'.at = clock' /\ served'.version = v
    BY <1>1
  <2> QED BY <1>1, <2>1, <2>2 DEF ServedOK, NotOlder
<1>3. ReaderOK(reader[r])'
  BY <1>1 DEF ReaderOK, ReaderIdle
<1> QED BY <1>1, <1>2, <1>3, ReaderStep

LEMMA Kept ==
  ASSUME RegistryInv, UNCHANGED <<clock, published>>
  PROVE  (cache' = cache => CacheOK') /\ (served' = served => ServedOK')
  BY DEF RegistryInv, CacheOK, ServedOK, NotOlder

LEMMA AskOK == ASSUME RegistryInv, NEW r \in Readers, Ask(r) PROVE RegistryInv'
<1>1. CASE Fresh
  BY <1>1, FreshIsRecent, UseIndexOK, Kept DEF Ask
<1>2. CASE ~Fresh
  <2>1. /\ reader' = [reader EXCEPT ![r].step = "fetch", ![r].since = clock]
        /\ UNCHANGED <<clock, published, cache, served>> /\ ReaderOK(reader[r]) /\ clock \in Nat
    BY <1>2 DEF Ask, RegistryInv, PublishedOK
  <2>2. reader'[r] = [step |-> "fetch", use |-> reader[r].use, version |-> reader[r].version, since |-> clock]
        /\ reader' = [reader EXCEPT ![r] = reader'[r]]
    BY <2>1 DEF RegistryInv, ReaderOK
  <2>3. ReaderOK(reader[r])'
    <3> PICK q : q = reader'[r]
      OBVIOUS
    <3>1. q = [step |-> q.step, use |-> q.use, version |-> q.version, since |-> q.since]
          /\ q.step = "fetch" /\ q.since = clock
      BY <2>2
    <3>2. clock - clock <= FetchTimeout
      BY <2>1, RegistryAssumption
    <3> QED BY <2>1, <3>1, <3>2 DEF ReaderOK
  <2> QED BY <2>1, <2>2, <2>3, ReaderStep, Kept
<1> QED BY <1>1, <1>2

LEMMA FetchAnsweredOK == ASSUME RegistryInv, NEW r \in Readers, FetchAnswered(r) PROVE RegistryInv'
<1>1. /\ reader' = [reader EXCEPT ![r].step = "store", ![r].version = Latest]
      /\ UNCHANGED <<clock, published, cache, served>> /\ ReaderOK(reader[r]) /\ clock \in Nat
      /\ reader[r].step = "fetch"
  BY DEF FetchAnswered, RegistryInv, PublishedOK
<1>2. reader'[r] = [step |-> "store", use |-> reader[r].use, version |-> Latest, since |-> reader[r].since]
      /\ reader' = [reader EXCEPT ![r] = reader'[r]]
  BY <1>1 DEF RegistryInv, ReaderOK
<1>3. NotOlder(Latest, reader[r].since)
  <2>1. reader[r].since \in Nat /\ reader[r].since <= clock /\ clock <= MaxTicks
    BY <1>1 DEF ReaderOK, RegistryInv, PublishedOK
  <2>2. clock + 1 \in Ticks /\ reader[r].since \in Ticks /\ reader[r].since <= clock + 1
    BY <1>1, <2>1, RegistryAssumption DEF Ticks
  <2>3. published[clock + 1] \in Nat /\ published[reader[r].since] \in Nat
        /\ published[reader[r].since] <= published[clock + 1]
    BY <2>2 DEF RegistryInv, PublishedOK
  <2> QED BY <2>1, <2>3 DEF NotOlder, Latest
<1>4. ReaderOK(reader[r])'
  <2> PICK q : q = reader'[r]
    OBVIOUS
  <2>1. q = [step |-> q.step, use |-> q.use, version |-> q.version, since |-> q.since]
        /\ q.step = "store" /\ q.since = reader[r].since /\ q.version = Latest
    BY <1>2
  <2>2. NotOlder(q.version, q.since)
    BY <1>3, <2>1
  <2> QED BY <1>1, <2>1, <2>2 DEF ReaderOK, NotOlder
<1> QED BY <1>1, <1>2, <1>4, ReaderStep, Kept

LEMMA StoreFetchedOK == ASSUME RegistryInv, NEW r \in Readers, StoreFetched(r) PROVE RegistryInv'
<1>1. CASE Fresh
  BY <1>1, FreshIsRecent, UseIndexOK, Kept DEF StoreFetched
<1>2. CASE ~Fresh
  <2>1. /\ cache' = [at |-> clock, version |-> reader[r].version] /\ UseIndex(r, reader[r].version)
        /\ UNCHANGED <<clock, published>> /\ reader[r].step = "store" /\ clock \in Nat
    BY <1>2 DEF StoreFetched, RegistryInv, PublishedOK
  <2>2. cache'.at = clock' /\ cache'.version = reader[r].version
    BY <2>1
  <2>3. NotOlder(reader[r].version, Earlier(clock, FetchTimeout))
    BY <2>1, FetchedIsRecent
  <2>4. CacheOK'
    BY <2>1, <2>2, <2>3 DEF CacheOK, NotOlder
  <2> QED BY <2>1, <2>4, FetchedIsRecent, UseIndexOK
<1> QED BY <1>1, <1>2

\* A reader that starts or gives up
LEMMA OtherReaderOK ==
  ASSUME RegistryInv, NEW r \in Readers, FetchFails(r) \/ ListPlugins(r) \/ InstallPlugin(r)
  PROVE  RegistryInv'
<1>1. /\ UNCHANGED <<clock, published, cache, served>>
      /\ \/ reader' = reader
         \/ reader' = [reader EXCEPT ![r] = ReaderIdle]
         \/ \E use : reader' = [reader EXCEPT ![r] = [ReaderIdle EXCEPT !.step = "ask", !.use = use]]
  BY DEF FetchFails, ListPlugins, InstallPlugin, CallIndex
<1>2. CASE reader' = reader
  BY <1>1, <1>2, ReaderStep, Kept DEF RegistryInv, ReaderOK, NotOlder
<1>3. CASE reader' = [reader EXCEPT ![r] = ReaderIdle]
  <2>1. reader'[r] = ReaderIdle
    BY <1>3 DEF RegistryInv
  <2>2. ReaderOK(reader[r])'
    BY <2>1 DEF ReaderOK, ReaderIdle
  <2> QED BY <1>1, <1>3, <2>1, <2>2, ReaderStep, Kept
<1>4. ASSUME NEW use, reader' = [reader EXCEPT ![r] = [ReaderIdle EXCEPT !.step = "ask", !.use = use]]
      PROVE  RegistryInv'
  <2>1. reader'[r] = [step |-> "ask", use |-> use, version |-> NoVersion, since |-> 0]
        /\ reader' = [reader EXCEPT ![r] = reader'[r]]
    BY <1>4 DEF RegistryInv, ReaderIdle
  <2>2. ReaderOK(reader[r])'
    BY <2>1 DEF ReaderOK
  <2> QED BY <1>1, <2>1, <2>2, ReaderStep, Kept
<1> QED BY <1>1, <1>2, <1>3, <1>4

LEMMA NextRegistryInv == RegistryInv /\ [RegistryNext]_registryVars => RegistryInv'
<1> SUFFICES ASSUME RegistryInv, [RegistryNext]_registryVars PROVE RegistryInv'
  OBVIOUS
<1>1. ASSUME UNCHANGED <<clock, published, cache, served, reader>> PROVE RegistryInv'
  BY <1>1, Kept DEF RegistryInv, PublishedOK, Latest, ReaderOK, NotOlder
<1>2. CASE RestartRegistry
  <2>1. /\ UNCHANGED <<clock, published, served>> /\ cache' = NoVersion
        /\ reader' = [r \in Readers |-> ReaderIdle]
    BY <1>2 DEF RestartRegistry
  <2>2. \A r \in Readers : ReaderOK(reader[r])'
    BY <2>1 DEF ReaderOK, ReaderIdle
  <2> QED BY <2>1, <2>2, Kept DEF RegistryInv, PublishedOK, Latest, CacheOK
<1>3. CASE UninstallPlugin
  BY <1>1, <1>3 DEF UninstallPlugin
<1>4. CASE UNCHANGED registryVars
  BY <1>1, <1>4 DEF registryVars
<1>5. ASSUME NEW r \in Readers, ListPlugins(r) \/ InstallPlugin(r) \/ FetchFails(r) PROVE RegistryInv'
  BY <1>5, OtherReaderOK
<1> QED BY <1>2, <1>3, <1>4, <1>5, RegistryTickOK, PublishVersionOK, AskOK, FetchAnsweredOK, StoreFetchedOK
        DEF RegistryNext

\* Whoever is answered sees an index that was on GitHub at most a fetch and a lease ago,
\* for any time to live and any timeout: overlapping fetches may be stored long after
\* they were answered or be thrown away for another caller's, and an expired cache is
\* neither served nor given a new lease.
THEOREM IndexIsRecentAlways == RegistrySpec => []IndexIsRecent
<1>1. RegistryInv => IndexIsRecent
  BY DEF RegistryInv, ServedOK, NotOlder, IndexIsRecent
<1> QED BY <1>1, InitRegistryInv, NextRegistryInv, PTL DEF RegistrySpec

(***************************************************************************)
(* Triggers                                                                *)
(***************************************************************************)
\* The list has every stored workflow once.
ListOK ==
  /\ \E n \in Nat : DOMAIN list = 1 .. n
  /\ \A i \in DOMAIN list : list[i] \in Workflows /\ store[list[i]] # None
  /\ \A w \in Workflows : store[w] # None => \E i \in DOMAIN list : list[i] = w
  /\ \A i, j \in DOMAIN list : list[i] = list[j] => i = j

Loaded(w) == \E i \in DOMAIN list : i <= start.offset /\ list[i] = w

\* As long as start holds the mutex no request has been served, and the pages it has
\* loaded are registered.
Starting ==
  /\ start.offset \in Nat /\ start.pc \in {"wait", "page"}
  /\ \A s \in Slots : edit[s] = NoEdit
  /\ ListOK
  /\ \A w \in Workflows : reg[w] = IF Loaded(w) THEN RegOf(store[w]) ELSE NoRegistrations

IsEdit(e) ==
  /\ e = [op |-> e.op, step |-> e.step, wf |-> e.wf, copy |-> e.copy]
  /\ e.op \in {"delete", "refresh"} /\ e.step \in {"reload", "lock", "register"} /\ e.wf \in Workflows
  /\ e.op = "delete" => e.step = "lock"

\* What an edit that no other one overlaps is going to leave behind is the stored
\* definition.
WillSettle(e) ==
  IF e.op = "delete" THEN store[e.wf] = None
  ELSE store[e.wf] # None /\ (e.step # "reload" => e.copy = store[e.wf])

EditOK(s) ==
  edit[s] # NoEdit =>
    /\ IsEdit(edit[s])
    /\ edit[s].op = "refresh" /\ edit[s].step # "reload" => edit[s].copy \in past[edit[s].wf]
    /\ edit[s].step = "register" => lock = s /\ reg[edit[s].wf] = NoRegistrations

Owns(s, w) == edit[s] # NoEdit /\ edit[s].wf = w

\* Once requests are served
Serving ==
  /\ \A s \in Slots : EditOK(s)
  /\ \A w \in Workflows : BetweenRefreshes(w) => \E d \in past[w] \cup {None} : reg[w] = RegOf(d)
  /\ \A w \in Workflows \ apart :
       /\ \A s, o \in Slots : Owns(s, w) /\ Owns(o, w) => s = o
       /\ \A s \in Slots : Owns(s, w) => WillSettle(edit[s])
       /\ (\A s \in Slots : ~Owns(s, w)) => reg[w] = RegOf(store[w])

TriggerTypes ==
  /\ store \in [Workflows -> Defs \cup {None}] /\ past \in [Workflows -> SUBSET Defs]
  /\ \A w \in Workflows : store[w] # None => store[w] \in past[w]
  /\ reg = [w \in Workflows |-> reg[w]] /\ edit = [s \in Slots |-> edit[s]]
  /\ start = [pc |-> start.pc, offset |-> start.offset]

TriggerInv == TriggerTypes /\ (first => IF start.pc = "up" THEN Serving ELSE Starting)

(***************************************************************************)
(* A trigger whose node is gone                                            *)
(***************************************************************************)
\* The triggers a workflow has had while it was active.
Offered(w, p) == {n \in TriggerNodes : \E d \in p[w] : d.active /\ n \in d.nodes}

\* Nothing but such triggers is registered.
RegSafe(r, O) ==
  /\ r = [jobs |-> r.jobs, events |-> r.events, hooks |-> r.hooks]
  /\ r.jobs \in [TriggerNodes -> Nat]
  /\ \A n \in TriggerNodes : r.jobs[n] > 0 => n \in O
  /\ r.events \subseteq O /\ r.hooks \subseteq O

\* A request in progress, and the definition it has loaded.
LoadedOK(e, p) ==
  e # NoEdit => /\ IsEdit(e)
                /\ e.op = "refresh" /\ e.step # "reload" => e.copy \in p[e.wf]

RunOK(r, p) ==
  r.node # None =>
    /\ r.wf \in Workflows /\ r.node \in Offered(r.wf, p)
    /\ r.completed \subseteq r.def.nodes \cap {r.node}
    /\ r.dispatched => r.node \in r.def.nodes \/ r.def.nodes = {}

FireInv ==
  /\ past \in [Workflows -> SUBSET Defs] /\ store \in [Workflows -> Defs \cup {None}]
  /\ \A w \in Workflows : store[w] # None => store[w] \in past[w]
  /\ reg = [w \in Workflows |-> reg[w]] /\ edit = [s \in Slots |-> edit[s]]
  /\ \A w \in Workflows : RegSafe(reg[w], Offered(w, past))
  /\ \A s \in Slots : LoadedOK(edit[s], past)
  /\ \A h \in hooks : h.wf \in Workflows
  /\ \A f \in fired : f.wf \in Workflows /\ (f.node # None => f.node \in Offered(f.wf, past))
  /\ \A r \in runs : RunOK(r, past)

LEMMA OfferedGrows ==
  ASSUME NEW p, NEW q, NEW w, p[w] \subseteq q[w]
  PROVE  Offered(w, p) \subseteq Offered(w, q)
  BY DEF Offered

LEMMA NothingSafe == ASSUME NEW O PROVE RegSafe(NoRegistrations, O)
  BY DEF RegSafe, NoRegistrations, NoJobs

LEMMA RegisterSafe ==
  ASSUME NEW r, NEW p, NEW w \in Workflows, NEW d \in p[w], d \in Defs, RegSafe(r, Offered(w, p))
  PROVE  RegSafe(RegisterActive(r, d), Offered(w, p))
<1>1. CASE ~d.active
  BY <1>1 DEF RegisterActive
<1>2. CASE d.active
  <2>1. d.nodes \subseteq TriggerNodes
    BY TriggersAssumption
  <2>2. \A t : Of(d, t) \subseteq Offered(w, p)
    BY <1>2, <2>1 DEF Of, Offered
  <2> DEFINE jobs == [n \in TriggerNodes |-> r.jobs[n] + IF n \in Of(d, "schedule") THEN 1 ELSE 0]
  <2>3. jobs \in [TriggerNodes -> Nat] /\ \A n \in TriggerNodes : jobs[n] > 0 => n \in Offered(w, p)
    BY <2>2 DEF RegSafe
  <2>4. /\ Replace(r.events, Of(d, "event")) \subseteq Offered(w, p)
        /\ Replace(r.hooks, Of(d, "webhook")) \subseteq Offered(w, p)
    BY <2>2 DEF Replace, RegSafe
  <2>5. RegisterActive(r, d) = [jobs |-> jobs, events |-> Replace(r.events, Of(d, "event")),
                                hooks |-> Replace(r.hooks, Of(d, "webhook"))]
    BY <1>2 DEF RegisterActive, Register
  <2> HIDE DEF jobs
  <2> QED BY <2>3, <2>4, <2>5 DEF RegSafe
<1> QED BY <1>1, <1>2

\* Definitions are only added to the past, which leaves what rests on it true.
LEMMA PastGrows ==
  ASSUME FireInv, past' \in [Workflows -> SUBSET Defs], \A w \in Workflows : past[w] \subseteq past'[w]
  PROVE  /\ \A w \in Workflows : RegSafe(reg[w], Offered(w, past'))
         /\ \A s \in Slots : LoadedOK(edit[s], past')
         /\ \A f \in fired : f.wf \in Workflows /\ (f.node # None => f.node \in Offered(f.wf, past'))
         /\ \A r \in runs : RunOK(r, past')
<1>1. \A w \in Workflows : Offered(w, past) \subseteq Offered(w, past')
  BY OfferedGrows
<1>2. \A w \in Workflows : RegSafe(reg[w], Offered(w, past'))
  BY <1>1 DEF FireInv, RegSafe
<1>3. \A s \in Slots : LoadedOK(edit[s], past')
  BY DEF FireInv, LoadedOK, IsEdit
<1> QED BY <1>1, <1>2, <1>3 DEF FireInv, RunOK

\* Edits leave alone what has fired.
LEMMA EditsSafe ==
  ASSUME FireInv, UNCHANGED <<store, past, hooks, fired, runs>>,
         edit' = [s \in Slots |-> edit'[s]], reg' = [w \in Workflows |-> reg'[w]],
         \A s \in Slots : LoadedOK(edit'[s], past),
         \A w \in Workflows : RegSafe(reg'[w], Offered(w, past))
  PROVE  FireInv'
  BY DEF FireInv

LEMMA InitFireInv == TriggersInit => FireInv
<1> SUFFICES ASSUME TriggersInit PROVE FireInv
  OBVIOUS
<1>1. store \in [Workflows -> Defs \cup {None}] /\ past = [w \in Workflows |-> {store[w]} \ {None}]
      /\ reg = [w \in Workflows |-> NoRegistrations] /\ edit = [s \in Slots |-> NoEdit]
      /\ hooks = {} /\ fired = {} /\ runs = {}
  BY DEF TriggersInit
<1>2. past \in [Workflows -> SUBSET Defs] /\ \A w \in Workflows : store[w] # None => store[w] \in past[w]
  BY <1>1
<1>3. \A w \in Workflows : RegSafe(reg[w], Offered(w, past))
  BY <1>1, NothingSafe
<1>4. \A s \in Slots : LoadedOK(edit[s], past)
  BY <1>1 DEF LoadedOK
<1> QED BY <1>1, <1>2, <1>3, <1>4 DEF FireInv

LEMMA StoredGrows ==
  ASSUME FireInv, NEW w \in Workflows, NEW d \in Defs \cup {None}, Stored(w, d)
  PROVE  /\ store' \in [Workflows -> Defs \cup {None}] /\ past' \in [Workflows -> SUBSET Defs]
         /\ \A v \in Workflows : past[v] \subseteq past'[v]
         /\ \A v \in Workflows : store'[v] # None => store'[v] \in past'[v]
  BY DEF FireInv, Stored

LEMMA SaveFires ==
  ASSUME FireInv, NEW s \in Slots, NEW w \in Workflows, NEW d \in Defs \cup {None}, Save(s, w, d)
  PROVE  FireInv'
<1> DEFINE e == [op |-> IF d = None THEN "delete" ELSE "refresh",
                 step |-> IF d = None THEN "lock" ELSE "reload", wf |-> w, copy |-> None]
<1>1. Stored(w, d) /\ edit' = [edit EXCEPT ![s] = e] /\ UNCHANGED <<reg, hooks, fired, runs>>
  BY DEF Save
<1>2. LoadedOK(e, past')
  BY DEF LoadedOK, IsEdit, NoEdit
<1> HIDE DEF e
<1>3. /\ store' \in [Workflows -> Defs \cup {None}] /\ past' \in [Workflows -> SUBSET Defs]
      /\ \A v \in Workflows : past[v] \subseteq past'[v]
      /\ \A v \in Workflows : store'[v] # None => store'[v] \in past'[v]
  BY <1>1, StoredGrows
<1>4. \A t \in Slots : LoadedOK(edit'[t], past')
  BY <1>1, <1>2, <1>3, PastGrows DEF FireInv
<1> QED BY <1>1, <1>3, <1>4, PastGrows DEF FireInv

LEMMA RpcCreateFires ==
  ASSUME FireInv, NEW w \in Workflows, NEW d \in Defs, RpcCreate(w, d) PROVE FireInv'
<1>1. Stored(w, d) /\ UNCHANGED <<reg, edit, hooks, fired, runs>>
  BY DEF RpcCreate
<1> QED BY <1>1, StoredGrows, PastGrows DEF FireInv

LEMMA StartPageFires == ASSUME FireInv, StartPage PROVE FireInv'
<1>1. UNCHANGED <<store, edit, past, hooks, fired, runs>>
      /\ reg' = [w \in Workflows |-> IF store[w] # None /\ \E i \in Page : list[i] = w
                                     THEN RegisterActive(reg[w], store[w]) ELSE reg[w]]
  BY DEF StartPage
<1>2. \A w \in Workflows : RegSafe(reg'[w], Offered(w, past))
  <2> SUFFICES ASSUME NEW w \in Workflows PROVE RegSafe(reg'[w], Offered(w, past))
    OBVIOUS
  <2>1. RegSafe(reg[w], Offered(w, past))
    BY DEF FireInv
  <2>2. store[w] # None => RegSafe(RegisterActive(reg[w], store[w]), Offered(w, past))
    BY <2>1, RegisterSafe DEF FireInv
  <2> QED BY <1>1, <2>1, <2>2
<1> QED BY <1>1, <1>2, EditsSafe DEF FireInv

LEMMA ReloadFires == ASSUME FireInv, NEW s \in Slots, Reload(s) PROVE FireInv'
<1> PICK e, w : e = edit[s] /\ w = e.wf
  OBVIOUS
<1> PICK c : c = IF store[w] = None THEN NoEdit ELSE [e EXCEPT !.step = "lock", !.copy = store[w]]
  OBVIOUS
<1>1. /\ e.op = "refresh" /\ e.step = "reload" /\ edit' = [edit EXCEPT ![s] = c]
      /\ UNCHANGED <<store, reg, past, hooks, fired, runs>>
  BY DEF Reload
<1>2. LoadedOK(e, past) /\ e # NoEdit
  BY <1>1 DEF FireInv, NoEdit
<1>3. IsEdit(e)
  BY <1>2 DEF LoadedOK
<1>4. store[w] # None => c = [op |-> "refresh", step |-> "lock", wf |-> w, copy |-> store[w]]
  BY <1>1, <1>3 DEF IsEdit
<1>5. store[w] # None => store[w] \in past[w] /\ w \in Workflows
  BY <1>3 DEF IsEdit, FireInv
<1>6. LoadedOK(c, past)
  <2>1. CASE store[w] = None
    BY <2>1 DEF LoadedOK
  <2>2. CASE store[w] # None
    <3>1. IsEdit(c)
      BY <2>2, <1>4, <1>5 DEF IsEdit
    <3>2. c.copy = store[w] /\ c.wf = w
      BY <2>2, <1>4
    <3> QED BY <2>2, <1>5, <3>1, <3>2 DEF LoadedOK
  <2> QED BY <2>1, <2>2
<1>7. \A t \in Slots : LoadedOK(edit'[t], past)
  BY <1>1, <1>6 DEF FireInv
<1> QED BY <1>1, <1>7, EditsSafe DEF FireInv

LEMMA TakeDownFires == ASSUME FireInv, NEW s \in Slots, TakeDown(s) PROVE FireInv'
<1> DEFINE e == edit[s]
<1>1. /\ e.op # "none" /\ UNCHANGED <<store, past, hooks, fired, runs>>
      /\ reg' = [reg EXCEPT ![e.wf] = NoRegistrations]
      /\ edit' = [edit EXCEPT ![s] = NoEdit] \/ edit' = [edit EXCEPT ![s].step = "register"]
      /\ e.step = "lock" /\ (e.op = "delete" => edit' = [edit EXCEPT ![s] = NoEdit])
  BY DEF TakeDown, Unregister
<1>2. LoadedOK(edit[s], past) /\ edit[s] # NoEdit
  BY <1>1 DEF FireInv, NoEdit
<1>3. IsEdit(e)
  BY <1>2 DEF LoadedOK
<1>4. e.op # "delete" => LoadedOK([e EXCEPT !.step = "register"], past)
  <2> SUFFICES ASSUME e.op # "delete" PROVE LoadedOK([e EXCEPT !.step = "register"], past)
    OBVIOUS
  <2>1. [e EXCEPT !.step = "register"] = [op |-> e.op, step |-> "register", wf |-> e.wf, copy |-> e.copy]
    BY <1>3 DEF IsEdit
  <2>2. e.op = "refresh" /\ e.wf \in Workflows /\ e.copy \in past[e.wf]
    BY <1>1, <1>2, <1>3 DEF IsEdit, LoadedOK
  <2> HIDE DEF e
  <2> QED BY <2>1, <2>2 DEF LoadedOK, IsEdit
<1>5. LoadedOK(NoEdit, past)
  BY DEF LoadedOK
<1>6. \A t \in Slots : LoadedOK(edit'[t], past)
  BY <1>1, <1>4, <1>5 DEF FireInv
<1> HIDE DEF e
<1>7. \A w \in Workflows : RegSafe(reg'[w], Offered(w, past))
  BY <1>1, NothingSafe DEF FireInv
<1>8. edit' = [t \in Slots |-> edit'[t]] /\ reg' = [w \in Workflows |-> reg'[w]]
  BY <1>1 DEF FireInv
<1> QED BY <1>1, <1>6, <1>7, <1>8, EditsSafe DEF FireInv

LEMMA PutUpFires == ASSUME FireInv, NEW s \in Slots, PutUp(s) PROVE FireInv'
<1> DEFINE e == edit[s]
<1>1. /\ e.op # "none" /\ e.step = "register" /\ UNCHANGED <<store, past, hooks, fired, runs>>
      /\ reg' = [reg EXCEPT ![e.wf] = RegisterActive(reg[e.wf], e.copy)]
      /\ edit' = [edit EXCEPT ![s] = NoEdit]
  BY DEF PutUp, FireInv
<1>2. LoadedOK(edit[s], past) /\ edit[s] # NoEdit
  BY <1>1 DEF FireInv, NoEdit
<1>3. e.wf \in Workflows /\ e.copy \in past[e.wf]
  BY <1>1, <1>2 DEF LoadedOK, IsEdit
<1>4. RegSafe(RegisterActive(reg[e.wf], e.copy), Offered(e.wf, past))
  BY <1>3, RegisterSafe DEF FireInv
<1>5. LoadedOK(NoEdit, past)
  BY DEF LoadedOK
<1> HIDE DEF e
<1>6. \A t \in Slots : LoadedOK(edit'[t], past)
  BY <1>1, <1>5 DEF FireInv
<1>7. \A w \in Workflows : RegSafe(reg'[w], Offered(w, past))
  BY <1>1, <1>3, <1>4 DEF FireInv
<1> QED BY <1>1, <1>6, <1>7, EditsSafe DEF FireInv

\* A trigger that fires is registered, or a webhook looked up again.
LEMMA FiringFires ==
  ASSUME FireInv,
         \/ \E w \in Workflows, n \in TriggerNodes : CronFires(w, n) \/ WebhookFound(w, n)
         \/ \E k : EmitEvent(k)
         \/ \E h \in hooks : WebhookFires(h)
  PROVE  FireInv'
<1>1. UNCHANGED <<store, reg, edit, past, runs>>
  BY DEF CronFires, WebhookFound, EmitEvent, WebhookFires, Quiet
<1>2. /\ \A h \in hooks' : h.wf \in Workflows
      /\ \A f \in fired' : f.wf \in Workflows /\ (f.node # None => f.node \in Offered(f.wf, past))
  <2>1. CASE \E w \in Workflows, n \in TriggerNodes : CronFires(w, n)
    <3> PICK w \in Workflows, n \in TriggerNodes : CronFires(w, n)
      BY <2>1
    <3>1. reg[w].jobs[n] > 0 /\ hooks' = hooks
          /\ fired' = fired \cup {[wf |-> w, via |-> n, node |-> n, n |-> fires + 1]}
      BY DEF CronFires, Spawn
    <3>2. n \in Offered(w, past)
      BY <3>1 DEF FireInv, RegSafe
    <3> QED BY <3>1, <3>2 DEF FireInv
  <2>2. CASE \E w \in Workflows, n \in TriggerNodes : WebhookFound(w, n)
    BY <2>2 DEF WebhookFound, FireInv
  <2>3. CASE \E k : EmitEvent(k)
    <3> PICK k : EmitEvent(k)
      BY <2>3
    <3> DEFINE S == {x \in Workflows \X TriggerNodes : x[2] \in reg[x[1]].events /\ Key[x[2]] = k}
    <3>1. hooks' = hooks
          /\ fired' = fired \cup {[wf |-> x[1], via |-> x[2], node |-> x[2], n |-> fires + 1] : x \in S}
      BY DEF EmitEvent
    <3>2. \A x \in S : x[1] \in Workflows /\ x[2] \in Offered(x[1], past)
      BY DEF FireInv, RegSafe
    <3> HIDE DEF S
    <3> QED BY <3>1, <3>2 DEF FireInv
  <2>4. CASE \E h \in hooks : WebhookFires(h)
    <3> PICK h \in hooks : WebhookFires(h)
      BY <2>4
    <3>1. hooks' \subseteq hooks /\ h.wf \in Workflows
          /\ fired' = fired \cup {[wf |-> h.wf, via |-> h.via, node |-> HookNode(h.wf, Key[h.via]), n |-> fires + 1]}
      BY DEF WebhookFires, Spawn, FireInv
    <3>2. HookNode(h.wf, Key[h.via]) # None => HookNode(h.wf, Key[h.via]) \in reg[h.wf].hooks
      BY DEF HookNode
    <3>3. reg[h.wf].hooks \subseteq Offered(h.wf, past)
      BY <3>1 DEF FireInv, RegSafe
    <3> QED BY <3>1, <3>2, <3>3 DEF FireInv
  <2> QED BY <2>1, <2>2, <2>3, <2>4
<1> QED BY <1>1, <1>2 DEF FireInv

LEMMA FireTriggerFires == ASSUME FireInv, NEW f \in fired, FireTrigger(f) PROVE FireInv'
<1> DEFINE d == store[f.wf]
           r == [wf |-> f.wf, def |-> d, via |-> f.via, node |-> f.node, completed |-> ToComplete(d, f),
                 dispatched |-> d.nodes = {} \/ ToComplete(d, f) # {}]
<1>1. /\ UNCHANGED <<store, reg, edit, past, hooks>> /\ fired' \subseteq fired
      /\ runs' = runs \/ runs' = runs \cup {r}
  BY DEF FireTrigger, Started, Quiet
<1>2. RunOK(r, past)
  <2>1. f.node # None => f.wf \in Workflows /\ f.node \in Offered(f.wf, past)
    BY DEF FireInv
  <2>2. f.node # None => ToComplete(d, f) = d.nodes \cap {f.node}
    BY DEF ToComplete
  <2>3. /\ r.node = f.node /\ r.wf = f.wf /\ r.def = d /\ r.completed = ToComplete(d, f)
        /\ r.dispatched <=> d.nodes = {} \/ ToComplete(d, f) # {}
    OBVIOUS
  <2> HIDE DEF r, d
  <2> QED BY <2>1, <2>2, <2>3 DEF RunOK
<1> HIDE DEF r
<1> QED BY <1>1, <1>2 DEF FireInv

LEMMA NextFireInv == FireInv /\ [TriggersNext]_triggerVars => FireInv'
<1> SUFFICES ASSUME FireInv, [TriggersNext]_triggerVars PROVE FireInv'
  OBVIOUS
<1>1. CASE UNCHANGED triggerVars
  BY <1>1 DEF triggerVars, FireInv
<1>2. CASE StartTakesLock
  BY <1>2 DEF StartTakesLock, FireInv
<1> QED BY <1>1, <1>2, StartPageFires, SaveFires, ReloadFires, TakeDownFires, PutUpFires, RpcCreateFires,
           FiringFires, FireTriggerFires DEF TriggersNext

\* Whatever was registered, edited or in flight when a definition changed: a trigger that
\* names its node was one of an active definition of the same workflow, completes no
\* other trigger of the definition that is stored by then, and has nothing dispatched
\* when that definition has triggers but not this one.
THEOREM TriggerStandsForItselfAlways == TriggersSpec => []TriggerStandsForItself
<1>1. FireInv => TriggerStandsForItself
  BY DEF FireInv, RunOK, Offered, TriggerStandsForItself
<1> QED BY <1>1, InitFireInv, NextFireInv, PTL DEF TriggersSpec

(***************************************************************************)
(* Loading the stored workflows                                            *)
(***************************************************************************)

\* An enumeration of a finite set that is no longer than the set repeats nothing.
LEMMA ListedOnce ==
  ASSUME NEW S, IsFiniteSet(S), NEW f \in [1 .. Cardinality(S) -> S],
         \A x \in S : \E i \in 1 .. Cardinality(S) : f[i] = x
  PROVE  \A i, j \in 1 .. Cardinality(S) : f[i] = f[j] => i = j
<1> DEFINE n == Cardinality(S)
<1>1. n \in Nat
  BY FS_CardinalityType
<1>2. IsFiniteSet(1 .. n) /\ Cardinality(1 .. n) = n
  BY <1>1, FS_Interval
<1>3. f \in Surjection(1 .. n, S)
  BY DEF Surjection
<1>4. f \in Injection(1 .. n, S)
  BY <1>2, <1>3, FS_SurjSameCardinalityImpliesInj
<1> QED BY <1>4 DEF Injection, IsInjective

LEMMA InitTriggerInv == TriggersInit => TriggerInv
<1> SUFFICES ASSUME TriggersInit PROVE TriggerInv
  OBVIOUS
<1> DEFINE S == {w \in Workflows : store[w] # None}
<1>1. TriggerTypes
  BY TriggersAssumption DEF TriggersInit, TriggerTypes
<1>2. start.pc = "wait" /\ start.offset = 0 /\ \A s \in Slots : edit[s] = NoEdit
  BY DEF TriggersInit
<1>3. IsFiniteSet(S) /\ Cardinality(S) \in Nat
  BY TriggersAssumption, FS_Subset, FS_CardinalityType
<1>4. /\ list \in [1 .. Cardinality(S) -> Workflows]
      /\ \A w \in Workflows : store[w] # None => \E i \in DOMAIN list : list[i] = w
      /\ \A i \in DOMAIN list : store[list[i]] # None
  BY DEF TriggersInit
<1>5. list \in [1 .. Cardinality(S) -> S] /\ DOMAIN list = 1 .. Cardinality(S)
  BY <1>4
<1>6. \A i, j \in DOMAIN list : list[i] = list[j] => i = j
  <2>1. \A x \in S : \E i \in 1 .. Cardinality(S) : list[i] = x
    BY <1>4
  <2> HIDE DEF S
  <2> QED BY <1>3, <1>5, <2>1, ListedOnce
<1>7. ListOK
  BY <1>3, <1>4, <1>5, <1>6 DEF ListOK
<1>8. \A w \in Workflows : ~Loaded(w)
  BY <1>2, <1>3, <1>5 DEF Loaded
<1>9. \A w \in Workflows : reg[w] = NoRegistrations
  BY DEF TriggersInit
<1> QED BY <1>1, <1>2, <1>7, <1>8, <1>9 DEF TriggerInv, Starting

LEMMA RegisteredAnew ==
  ASSUME NEW d \in Defs
  PROVE  RegisterActive(NoRegistrations, d) = RegOf(d)
<1>1. d # None /\ d.active \in BOOLEAN
  BY TriggersAssumption
<1> QED BY <1>1 DEF RegisterActive, RegOf

\* A short page is the last one.
LEMMA ShortPageIsLast ==
  ASSUME Starting, Cardinality(Page) < PAGE_SIZE
  PROVE  \A i \in DOMAIN list : i <= start.offset + PAGE_SIZE
<1> PICK n \in Nat : DOMAIN list = 1 .. n
  BY DEF Starting, ListOK
<1>1. start.offset \in Nat /\ PAGE_SIZE \in Nat \ {0}
  BY TriggersAssumption DEF Starting
<1>2. ASSUME n > start.offset + PAGE_SIZE PROVE FALSE
  <2>1. Page = (start.offset + 1) .. (start.offset + PAGE_SIZE)
    BY <1>1, <1>2 DEF Page
  <2>2. Cardinality(Page) = PAGE_SIZE
    BY <1>1, <2>1, FS_Interval
  <2> QED BY <1>1, <2>2
<1> QED BY <1>1, <1>2

LEMMA StartPageOK ==
  ASSUME TriggerInv, first, start.pc # "up", StartPage
  PROVE  TriggerInv'
<1>1. Starting /\ TriggerTypes
  BY DEF TriggerInv
<1>2. /\ start.pc = "page" /\ UNCHANGED <<store, list, edit, past, apart, first>>
      /\ reg' = [w \in Workflows |->
               IF store[w] # None /\ \E i \in Page : list[i] = w
               THEN RegisterActive(reg[w], store[w]) ELSE reg[w]]
  BY DEF StartPage
<1>3. start.offset \in Nat /\ PAGE_SIZE \in Nat \ {0} /\ ListOK /\ \A i \in DOMAIN list : i \in Nat
  BY <1>1, TriggersAssumption DEF Starting, ListOK
<1> DEFINE Now(w) == \E i \in DOMAIN list : i <= start.offset + PAGE_SIZE /\ list[i] = w
<1>4. ASSUME NEW w \in Workflows
      PROVE  reg'[w] = IF Now(w) THEN RegOf(store[w]) ELSE NoRegistrations
  <2>1. CASE \E i \in Page : list[i] = w
    <3> PICK i \in DOMAIN list : start.offset < i /\ i <= start.offset + PAGE_SIZE /\ list[i] = w
      BY <2>1 DEF Page
    <3>1. ~Loaded(w)
      BY <1>3 DEF Loaded, ListOK
    <3>2. reg[w] = NoRegistrations
      BY <1>1, <3>1 DEF Starting
    <3>3. store[w] \in Defs /\ store[w] # None
      BY <1>1, <1>3 DEF TriggerTypes, ListOK
    <3> QED BY <1>2, <2>1, <3>2, <3>3, RegisteredAnew
  <2>2. CASE ~\E i \in Page : list[i] = w
    <3>1. Loaded(w) <=> Now(w)
      BY <1>3, <2>2 DEF Loaded, Page
    <3> QED BY <1>1, <1>2, <2>2, <3>1 DEF Starting
  <2> QED BY <2>1, <2>2
<1>5. reg' = [w \in Workflows |-> reg'[w]]
  BY <1>2
<1>6. CASE ~(Cardinality(Page) < PAGE_SIZE)
  <2>1. start' = [start EXCEPT !.offset = @ + PAGE_SIZE]
    BY <1>6 DEF StartPage
  <2>2. start' = [pc |-> "page", offset |-> start.offset + PAGE_SIZE]
    BY <1>1, <1>2, <2>1 DEF TriggerTypes
  <2>3. TriggerTypes'
    BY <1>1, <1>2, <1>5, <2>2 DEF TriggerTypes
  <2>4. start'.offset \in Nat /\ start'.pc = "page"
    BY <1>3, <2>2
  <2>5. \A w : Loaded(w)' <=> Now(w)
    BY <1>2, <2>2 DEF Loaded
  <2>6. ListOK'
    BY <1>2, <1>3 DEF ListOK
  <2>7. Starting'
    BY <1>1, <1>2, <1>4, <2>4, <2>5, <2>6 DEF Starting
  <2> QED BY <1>2, <2>3, <2>4, <2>7 DEF TriggerInv
<1>7. CASE Cardinality(Page) < PAGE_SIZE
  <2>1. start' = [start EXCEPT !.pc = "up"]
    BY <1>7 DEF StartPage
  <2>2. start' = [pc |-> "up", offset |-> start.offset]
    BY <1>1, <1>2, <2>1 DEF TriggerTypes
  <2>3. TriggerTypes'
    BY <1>1, <1>2, <1>5, <2>2 DEF TriggerTypes
  <2>4. \A s \in Slots : edit'[s] = NoEdit
    BY <1>1, <1>2 DEF Starting
  <2>5. ASSUME NEW w \in Workflows PROVE reg'[w] = RegOf(store[w])
    <3>1. CASE store[w] # None
      <4>1. Now(w)
        BY <1>1, <1>3, <1>7, <3>1, ShortPageIsLast DEF ListOK
      <4> QED BY <1>4, <4>1
    <3>2. CASE store[w] = None
      <4>1. ~Now(w)
        BY <1>3, <3>2 DEF ListOK
      <4> QED BY <1>4, <3>2, <4>1 DEF RegOf
    <3> QED BY <3>1, <3>2
  <2>6. Serving'
    BY <1>1, <1>2, <2>4, <2>5 DEF Serving, EditOK, Owns, TriggerTypes
  <2> QED BY <2>2, <2>3, <2>6 DEF TriggerInv
<1> QED BY <1>6, <1>7

(***************************************************************************)
(* Serving requests                                                        *)
(***************************************************************************)
LEMMA EditShapes ==
  /\ NoEdit.op = "none"
  /\ \A e : IsEdit(e) => e # NoEdit /\ e.op # "none"
BY DEF NoEdit, IsEdit

\* Steps that change no definition, registration or edit.
LEMMA NothingEdited ==
  ASSUME TriggerInv, UNCHANGED <<store, list, reg, lock, start, edit, past, apart, first>>
  PROVE  TriggerInv'
<1>1. TriggerTypes'
  BY DEF TriggerInv, TriggerTypes
<1>2. Serving => Serving'
  BY DEF Serving, EditOK, Owns, WillSettle, BetweenRefreshes
<1>3. Starting => Starting'
  BY DEF Starting, ListOK, Loaded
<1> QED BY <1>1, <1>2, <1>3 DEF TriggerInv

LEMMA StartTakesLockOK ==
  ASSUME TriggerInv, StartTakesLock
  PROVE  TriggerInv'
<1>1. /\ start.pc = "wait" /\ start' = [start EXCEPT !.pc = "page"]
      /\ UNCHANGED <<store, list, reg, edit, past, apart, first>>
  BY DEF StartTakesLock
<1>2. start' = [pc |-> "page", offset |-> start.offset]
  BY <1>1 DEF TriggerInv, TriggerTypes
<1>3. TriggerTypes'
  BY <1>1, <1>2 DEF TriggerInv, TriggerTypes
<1>4. Starting => Starting'
  BY <1>1, <1>2 DEF Starting, ListOK, Loaded
<1> QED BY <1>1, <1>2, <1>3, <1>4 DEF TriggerInv

\* The other case of start: without the mutex first nothing is promised.
LEMMA NotFirstOK ==
  ASSUME TriggerInv, TriggerTypes', ~first'
  PROVE  TriggerInv'
BY DEF TriggerInv

\* What a request stores is in the history.
LEMMA StoredOK ==
  ASSUME TriggerTypes, NEW w \in Workflows, NEW d \in Defs \cup {None}, Stored(w, d)
  PROVE  /\ store' \in [Workflows -> Defs \cup {None}] /\ past' \in [Workflows -> SUBSET Defs]
         /\ store'[w] = d /\ \A v \in Workflows \ {w} : store'[v] = store[v]
         /\ \A v \in Workflows : past[v] \subseteq past'[v] /\ (store'[v] # None => store'[v] \in past'[v])
<1>1. /\ store' = [store EXCEPT ![w] = d]
      /\ past' = [past EXCEPT ![w] = IF d = None THEN @ ELSE @ \cup {d}]
  BY DEF Stored
<1>2. /\ store \in [Workflows -> Defs \cup {None}] /\ past \in [Workflows -> SUBSET Defs]
      /\ \A v \in Workflows : store[v] # None => store[v] \in past[v]
  BY DEF TriggerTypes
<1>3. store'[w] = d /\ \A v \in Workflows \ {w} : store'[v] = store[v] /\ past'[v] = past[v]
  BY <1>1, <1>2
<1>4. past'[w] = IF d = None THEN past[w] ELSE past[w] \cup {d}
  BY <1>1, <1>2
<1>5. past' \in [Workflows -> SUBSET Defs]
  BY <1>1, <1>2
<1>6. store' \in [Workflows -> Defs \cup {None}]
  BY <1>1, <1>2
<1> QED BY <1>2, <1>3, <1>4, <1>5, <1>6

LEMMA SaveOK ==
  ASSUME TriggerInv, NEW s \in Slots, NEW w \in Workflows, NEW d \in Defs \cup {None}, Save(s, w, d)
  PROVE  TriggerInv'
<1> PICK e : e = [op |-> IF d = None THEN "delete" ELSE "refresh",
                  step |-> IF d = None THEN "lock" ELSE "reload", wf |-> w, copy |-> None]
  OBVIOUS
<1>1. /\ edit[s] = NoEdit /\ HttpUp /\ Stored(w, d) /\ edit' = [edit EXCEPT ![s] = e]
      /\ apart' = IF Busy(w) THEN apart \cup {w} ELSE apart
      /\ UNCHANGED <<reg, lock, start, first>>
  BY DEF Save
<1>2. TriggerTypes
  BY DEF TriggerInv
<1>3. /\ store' \in [Workflows -> Defs \cup {None}] /\ past' \in [Workflows -> SUBSET Defs]
      /\ store'[w] = d /\ \A v \in Workflows \ {w} : store'[v] = store[v]
      /\ \A v \in Workflows : past[v] \subseteq past'[v] /\ (store'[v] # None => store'[v] \in past'[v])
  BY <1>1, <1>2, StoredOK
<1>4. edit'[s] = e /\ (\A o \in Slots \ {s} : edit'[o] = edit[o]) /\ edit' = [o \in Slots |-> edit'[o]]
  BY <1>1, <1>2 DEF TriggerTypes
<1>5. TriggerTypes'
  BY <1>1, <1>2, <1>3, <1>4 DEF TriggerTypes
<1>6. CASE ~first
  BY <1>1, <1>5, <1>6, NotFirstOK
<1>7. CASE first
  <2>1. start.pc = "up" /\ Serving
    BY <1>1, <1>7 DEF HttpUp, TriggerInv
  <2>2. IsEdit(e) /\ e # NoEdit /\ e.wf = w /\ e.step # "register" /\ (e.op = "refresh" => e.step = "reload")
    <3>1. IsEdit(e)
      BY DEF IsEdit
    <3> QED BY <3>1, EditShapes
  <2>3. ASSUME NEW o \in Slots PROVE EditOK(o)'
    <3>1. CASE o = s
      BY <1>4, <2>2, <3>1 DEF EditOK
    <3>2. CASE o # s
      <4>1. EditOK(o) /\ edit'[o] = edit[o]
        BY <1>4, <2>1, <3>2 DEF Serving
      <4>2. edit[o] # NoEdit => IsEdit(edit[o]) /\ edit[o].wf \in Workflows
        BY <4>1 DEF EditOK, IsEdit
      <4> QED BY <1>1, <1>3, <4>1, <4>2 DEF EditOK
    <3> QED BY <3>1, <3>2
  <2>4. ASSUME NEW v \in Workflows, BetweenRefreshes(v)' PROVE \E c \in past'[v] \cup {None} : reg'[v] = RegOf(c)
    <3>1. BetweenRefreshes(v)
      BY <1>1, <1>4, <2>4, EditShapes DEF BetweenRefreshes
    <3> QED BY <1>1, <1>3, <2>1, <3>1 DEF Serving
  <2>5. Busy(w) <=> \E o \in Slots : Owns(o, w)
    BY <2>1, EditShapes DEF Busy, Owns, Serving, EditOK
  <2>6. ASSUME NEW v \in Workflows \ apart'
        PROVE  /\ \A t, o \in Slots : Owns(t, v)' /\ Owns(o, v)' => t = o
               /\ \A t \in Slots : Owns(t, v)' => WillSettle(edit[t])'
               /\ (\A t \in Slots : ~Owns(t, v)') => reg'[v] = RegOf(store[v])'
    <3>1. v \notin apart
      BY <1>1, <2>6
    <3>2. CASE v = w
      <4>1. \A o \in Slots : ~Owns(o, w)
        BY <1>1, <2>5, <2>6, <3>2
      <4>2. \A o \in Slots : Owns(o, w)' <=> o = s
        BY <1>4, <2>2, <4>1 DEF Owns
      <4>3. WillSettle(edit[s])'
        BY <1>3, <1>4, <2>2, TriggersAssumption DEF WillSettle
      <4> QED BY <3>2, <4>2, <4>3
    <3>3. CASE v # w
      <4>1. \A o \in Slots : Owns(o, v)' <=> Owns(o, v)
        BY <1>1, <1>4, <2>2, <3>3 DEF Owns
      <4>2. \A o \in Slots : Owns(o, v) => edit'[o] = edit[o]
        BY <1>1, <1>4 DEF Owns
      <4>3. \A o \in Slots : Owns(o, v) /\ WillSettle(edit[o]) => WillSettle(edit[o])'
        BY <1>3, <3>3, <4>2 DEF WillSettle, Owns
      <4> QED BY <1>1, <1>3, <2>1, <3>1, <3>3, <4>1, <4>3 DEF Serving
    <3> QED BY <3>2, <3>3
  <2>7. Serving'
    BY <2>3, <2>4, <2>6 DEF Serving
  <2> QED BY <1>1, <1>5, <2>1, <2>7 DEF TriggerInv
<1> QED BY <1>6, <1>7

LEMMA RpcCreateOK ==
  ASSUME TriggerInv, NEW w \in Workflows, NEW d \in Defs, RpcCreate(w, d)
  PROVE  TriggerInv'
<1>1. /\ HttpUp /\ Stored(w, d) /\ apart' = apart \cup {w} /\ UNCHANGED <<reg, lock, start, edit, first>>
  BY DEF RpcCreate
<1>2. TriggerTypes
  BY DEF TriggerInv
<1>3. /\ store' \in [Workflows -> Defs \cup {None}] /\ past' \in [Workflows -> SUBSET Defs]
      /\ store'[w] = d /\ \A v \in Workflows \ {w} : store'[v] = store[v]
      /\ \A v \in Workflows : past[v] \subseteq past'[v] /\ (store'[v] # None => store'[v] \in past'[v])
  BY <1>1, <1>2, StoredOK
<1>4. TriggerTypes'
  BY <1>1, <1>2, <1>3 DEF TriggerTypes
<1>5. CASE ~first
  BY <1>1, <1>4, <1>5, NotFirstOK
<1>6. CASE first
  <2>1. start.pc = "up" /\ Serving
    BY <1>1, <1>6 DEF HttpUp, TriggerInv
  <2>2. ASSUME NEW o \in Slots PROVE EditOK(o)'
    <3>1. EditOK(o)
      BY <2>1 DEF Serving
    <3>2. edit[o] # NoEdit => IsEdit(edit[o]) /\ edit[o].wf \in Workflows
      BY <3>1 DEF EditOK, IsEdit
    <3> QED BY <1>1, <1>3, <3>1, <3>2 DEF EditOK
  <2>3. \A v \in Workflows : BetweenRefreshes(v)' => \E c \in past'[v] \cup {None} : reg'[v] = RegOf(c)
    BY <1>1, <1>3, <2>1 DEF Serving, BetweenRefreshes
  <2>4. ASSUME NEW v \in Workflows \ apart'
        PROVE  /\ \A t, o \in Slots : Owns(t, v)' /\ Owns(o, v)' => t = o
               /\ \A t \in Slots : Owns(t, v)' => WillSettle(edit[t])'
               /\ (\A t \in Slots : ~Owns(t, v)') => reg'[v] = RegOf(store[v])'
    <3>1. v \in Workflows \ apart /\ v # w /\ store'[v] = store[v]
      BY <1>1, <1>3, <2>4
    <3>2. \A o \in Slots : Owns(o, v)' <=> Owns(o, v)
      BY <1>1 DEF Owns
    <3>3. \A o \in Slots : Owns(o, v) /\ WillSettle(edit[o]) => WillSettle(edit[o])'
      BY <1>1, <3>1 DEF WillSettle, Owns
    <3> QED BY <1>1, <2>1, <3>1, <3>2, <3>3 DEF Serving
  <2>5. Serving'
    BY <2>2, <2>3, <2>4 DEF Serving
  <2> QED BY <1>1, <1>4, <2>1, <2>5 DEF TriggerInv
<1> QED BY <1>5, <1>6

\* A slot with a request in progress is past the start.
LEMMA InProgress ==
  ASSUME TriggerInv, first, NEW s \in Slots, edit[s].op # "none"
  PROVE  start.pc = "up" /\ Serving /\ EditOK(s) /\ edit[s] # NoEdit /\ IsEdit(edit[s])
<1>1. edit[s] # NoEdit
  BY EditShapes
<1>2. start.pc = "up" /\ Serving
  BY <1>1 DEF TriggerInv, Starting
<1> QED BY <1>1, <1>2 DEF Serving, EditOK

LEMMA ReloadOK == ASSUME TriggerInv, NEW s \in Slots, Reload(s) PROVE TriggerInv'
<1> PICK e, w : e = edit[s] /\ w = e.wf
  OBVIOUS
<1> PICK c : c = IF store[w] = None THEN NoEdit ELSE [e EXCEPT !.step = "lock", !.copy = store[w]]
  OBVIOUS
<1>1. /\ e.op = "refresh" /\ e.step = "reload" /\ edit' = [edit EXCEPT ![s] = c]
      /\ UNCHANGED <<store, list, reg, lock, start, past, apart, first>>
  BY DEF Reload
<1>2. TriggerTypes
  BY DEF TriggerInv
<1>3. edit'[s] = c /\ (\A o \in Slots \ {s} : edit'[o] = edit[o]) /\ edit' = [o \in Slots |-> edit'[o]]
  BY <1>1, <1>2 DEF TriggerTypes
<1>4. TriggerTypes'
  BY <1>1, <1>2, <1>3 DEF TriggerTypes
<1>5. CASE ~first
  BY <1>1, <1>4, <1>5, NotFirstOK
<1>6. CASE first
  <2>1. start.pc = "up" /\ Serving /\ EditOK(s) /\ e # NoEdit /\ IsEdit(e) /\ w \in Workflows
    BY <1>1, <1>6, InProgress DEF IsEdit
  <2>2. store[w] # None => /\ c = [op |-> "refresh", step |-> "lock", wf |-> w, copy |-> store[w]]
                           /\ IsEdit(c) /\ c # NoEdit /\ store[w] \in past[w]
    <3>1. store[w] # None => c = [op |-> "refresh", step |-> "lock", wf |-> w, copy |-> store[w]]
      BY <1>1, <2>1 DEF IsEdit
    <3>2. store[w] # None => IsEdit(c)
      BY <2>1, <3>1 DEF IsEdit
    <3> QED BY <1>2, <2>1, <3>1, <3>2, EditShapes DEF TriggerTypes
  <2>3. ASSUME NEW o \in Slots PROVE EditOK(o)'
    <3>1. CASE o = s
      BY <1>1, <1>3, <2>2, <3>1 DEF EditOK
    <3>2. CASE o # s
      BY <1>1, <1>3, <2>1, <3>2 DEF EditOK, Serving
    <3> QED BY <3>1, <3>2
  <2>4. ASSUME NEW v \in Workflows, BetweenRefreshes(v)' PROVE \E d \in past'[v] \cup {None} : reg'[v] = RegOf(d)
    <3>1. BetweenRefreshes(v)
      BY <1>1, <1>3, <2>4 DEF BetweenRefreshes
    <3> QED BY <1>1, <2>1, <3>1 DEF Serving
  <2>5. ASSUME NEW v \in Workflows \ apart
        PROVE  /\ \A t, o \in Slots : Owns(t, v)' /\ Owns(o, v)' => t = o
               /\ \A t \in Slots : Owns(t, v)' => WillSettle(edit[t])'
               /\ (\A t \in Slots : ~Owns(t, v)') => reg'[v] = RegOf(store[v])'
    <3>1. v = w => store[w] # None
      BY <1>1, <2>1, <2>5 DEF Serving, Owns, WillSettle
    <3>2. \A o \in Slots : Owns(o, v)' <=> Owns(o, v)
      <4>1. Owns(s, v)' <=> Owns(s, v)
        BY <1>3, <2>1, <2>2, <3>1 DEF Owns
      <4>2. \A o \in Slots \ {s} : Owns(o, v)' <=> Owns(o, v)
        BY <1>3 DEF Owns
      <4> QED BY <4>1, <4>2
    <3>3. ASSUME NEW o \in Slots, Owns(o, v) PROVE WillSettle(edit[o])'
      <4>1. CASE o = s
        <5>1. v = w
          BY <3>3, <4>1 DEF Owns
        <5> QED BY <1>1, <1>3, <2>2, <3>1, <4>1, <5>1 DEF WillSettle
      <4>2. CASE o # s
        BY <1>1, <1>3, <2>1, <2>5, <3>3, <4>2 DEF WillSettle, Serving
      <4> QED BY <4>1, <4>2
    <3> QED BY <1>1, <2>1, <3>2, <3>3 DEF Serving
  <2>6. Serving'
    BY <1>1, <2>3, <2>4, <2>5 DEF Serving
  <2> QED BY <1>1, <1>4, <2>1, <2>6 DEF TriggerInv
<1> QED BY <1>5, <1>6

LEMMA TakeDownOK == ASSUME TriggerInv, NEW s \in Slots, TakeDown(s) PROVE TriggerInv'
<1> PICK e, w : e = edit[s] /\ w = e.wf
  OBVIOUS
<1> PICK c : c = IF e.op = "delete" THEN NoEdit ELSE [e EXCEPT !.step = "register"]
  OBVIOUS
<1>1. /\ e.op # "none" /\ e.step = "lock" /\ lock = None
      /\ reg' = [reg EXCEPT ![w] = NoRegistrations]
      /\ lock' = IF e.op = "delete" THEN None ELSE s
      /\ UNCHANGED <<store, list, start, past, apart, first>>
  BY DEF TakeDown, Unregister
<1>2. edit' = [edit EXCEPT ![s] = c]
  <2>1. CASE e.op = "delete"
    BY <2>1 DEF TakeDown
  <2>2. CASE e.op # "delete"
    BY <2>2 DEF TakeDown
  <2> QED BY <2>1, <2>2
<1>3. TriggerTypes
  BY DEF TriggerInv
<1>4. edit'[s] = c /\ (\A o \in Slots \ {s} : edit'[o] = edit[o]) /\ edit' = [o \in Slots |-> edit'[o]]
  BY <1>2, <1>3 DEF TriggerTypes
<1>5. reg' = [v \in Workflows |-> reg'[v]] /\ \A v \in Workflows : reg'[v] = IF v = w THEN NoRegistrations ELSE reg[v]
  BY <1>1, <1>3 DEF TriggerTypes
<1>6. TriggerTypes'
  BY <1>1, <1>3, <1>4, <1>5 DEF TriggerTypes
<1>7. CASE ~first
  BY <1>1, <1>6, <1>7, NotFirstOK
<1>8. CASE first
  <2>1. start.pc = "up" /\ Serving /\ EditOK(s) /\ e # NoEdit /\ IsEdit(e) /\ w \in Workflows
    BY <1>1, <1>8, InProgress DEF IsEdit
  <2>2. e.op # "delete" => /\ c = [op |-> "refresh", step |-> "register", wf |-> w, copy |-> e.copy]
                           /\ IsEdit(c) /\ c # NoEdit /\ e.copy \in past[w]
    <3>1. e.op # "delete" => c = [op |-> "refresh", step |-> "register", wf |-> w, copy |-> e.copy]
      BY <2>1 DEF IsEdit
    <3>2. e.op # "delete" => IsEdit(c)
      BY <2>1, <3>1 DEF IsEdit
    <3>3. e.op # "delete" => e.copy \in past[w]
      BY <1>1, <2>1 DEF EditOK, IsEdit
    <3> QED BY <3>1, <3>2, <3>3, EditShapes
  <2>3. \A o \in Slots : ~(edit[o] # NoEdit /\ edit[o].step = "register")
    BY <1>1, <2>1, TriggersAssumption DEF Serving, EditOK
  <2>4. ASSUME NEW o \in Slots PROVE EditOK(o)'
    <3>1. CASE o = s
      BY <1>1, <1>4, <1>5, <2>1, <2>2, <3>1 DEF EditOK
    <3>2. CASE o # s
      BY <1>1, <1>4, <2>1, <2>3, <3>2 DEF EditOK, Serving
    <3> QED BY <3>1, <3>2
  <2>5. ASSUME NEW v \in Workflows PROVE \E d \in past'[v] \cup {None} : reg'[v] = RegOf(d)
    <3>1. CASE v = w
      <4>1. reg'[v] = RegOf(None)
        BY <1>5, <3>1 DEF RegOf
      <4> QED BY <4>1
    <3>2. CASE v # w
      <4>1. BetweenRefreshes(v)
        BY <2>3, EditShapes DEF BetweenRefreshes
      <4> QED BY <1>1, <1>5, <2>1, <3>2, <4>1 DEF Serving
    <3> QED BY <3>1, <3>2
  <2>6. ASSUME NEW v \in Workflows \ apart
        PROVE  /\ \A t, o \in Slots : Owns(t, v)' /\ Owns(o, v)' => t = o
               /\ \A t \in Slots : Owns(t, v)' => WillSettle(edit[t])'
               /\ (\A t \in Slots : ~Owns(t, v)') => reg'[v] = RegOf(store[v])'
    <3>1. \A o \in Slots : Owns(o, v)' => Owns(o, v)
      <4>1. Owns(s, v)' => Owns(s, v)
        BY <1>4, <2>1, <2>2 DEF Owns
      <4>2. \A o \in Slots \ {s} : Owns(o, v)' => Owns(o, v)
        BY <1>4 DEF Owns
      <4> QED BY <4>1, <4>2
    <3>2. ASSUME NEW o \in Slots, Owns(o, v)' PROVE WillSettle(edit[o])'
      <4>1. WillSettle(edit[o])
        BY <2>1, <2>6, <3>1, <3>2 DEF Serving
      <4>2. CASE o = s
        <5>1. c # NoEdit /\ e.op # "delete" /\ v = w
          BY <1>4, <2>2, <3>2, <4>2 DEF Owns
        <5>2. store[w] # None /\ e.copy = store[w]
          BY <1>1, <4>1, <4>2, <5>1 DEF WillSettle
        <5> QED BY <1>1, <1>4, <2>2, <4>2, <5>1, <5>2 DEF WillSettle
      <4>3. CASE o # s
        BY <1>1, <1>4, <4>1, <4>3 DEF WillSettle
      <4> QED BY <4>2, <4>3
    <3>3. ASSUME \A o \in Slots : ~Owns(o, v)' PROVE reg'[v] = RegOf(store[v])'
      <4>1. CASE v = w
        <5>1. e.op = "delete"
          BY <1>4, <2>2, <3>3, <4>1 DEF Owns
        <5>2. store[w] = None
          BY <2>1, <2>6, <4>1, <5>1 DEF Serving, Owns, WillSettle
        <5> QED BY <1>1, <1>5, <4>1, <5>2 DEF RegOf
      <4>2. CASE v # w
        <5>1. \A o \in Slots : ~Owns(o, v)
          BY <1>4, <3>3, <4>2 DEF Owns
        <5>2. reg[v] = RegOf(store[v])
          BY <2>1, <2>6, <5>1 DEF Serving
        <5> QED BY <1>1, <1>5, <4>2, <5>2
      <4> QED BY <4>1, <4>2
    <3>4. \A t, o \in Slots : Owns(t, v) /\ Owns(o, v) => t = o
      BY <2>1, <2>6 DEF Serving
    <3> QED BY <3>1, <3>2, <3>3, <3>4
  <2>7. Serving'
    BY <1>1, <2>4, <2>5, <2>6 DEF Serving
  <2> QED BY <1>1, <1>6, <2>1, <2>7 DEF TriggerInv
<1> QED BY <1>7, <1>8

LEMMA PutUpOK == ASSUME TriggerInv, NEW s \in Slots, PutUp(s) PROVE TriggerInv'
<1> PICK e, w : e = edit[s] /\ w = e.wf
  OBVIOUS
<1>1. /\ e.op # "none" /\ e.step = "register" /\ lock' = None
      /\ reg' = [reg EXCEPT ![w] = RegisterActive(@, e.copy)] /\ edit' = [edit EXCEPT ![s] = NoEdit]
      /\ UNCHANGED <<store, list, start, past, apart, first>>
  BY DEF PutUp
<1>2. TriggerTypes
  BY DEF TriggerInv
<1>3. edit'[s] = NoEdit /\ (\A o \in Slots \ {s} : edit'[o] = edit[o]) /\ edit' = [o \in Slots |-> edit'[o]]
  BY <1>1, <1>2 DEF TriggerTypes
<1>4. /\ reg' = [v \in Workflows |-> reg'[v]]
      /\ \A v \in Workflows : reg'[v] = IF v = w THEN RegisterActive(reg[w], e.copy) ELSE reg[v]
  BY <1>1, <1>2 DEF TriggerTypes
<1>5. TriggerTypes'
  BY <1>1, <1>2, <1>3, <1>4 DEF TriggerTypes
<1>6. CASE ~first
  BY <1>1, <1>5, <1>6, NotFirstOK
<1>7. CASE first
  <2>1. start.pc = "up" /\ Serving /\ EditOK(s) /\ e # NoEdit /\ IsEdit(e) /\ w \in Workflows
    BY <1>1, <1>7, InProgress DEF IsEdit
  <2>2. e.op = "refresh" /\ e.copy \in past[w] /\ lock = s /\ reg[w] = NoRegistrations
    BY <1>1, <2>1 DEF EditOK, IsEdit
  <2>3. e.copy \in Defs /\ reg'[w] = RegOf(e.copy)
    <3>1. e.copy \in Defs
      BY <1>2, <2>1, <2>2 DEF TriggerTypes
    <3> QED BY <1>4, <2>1, <2>2, <3>1, RegisteredAnew
  <2>4. \A o \in Slots \ {s} : ~(edit[o] # NoEdit /\ edit[o].step = "register")
    BY <2>1, <2>2 DEF Serving, EditOK
  <2>5. ASSUME NEW o \in Slots PROVE EditOK(o)'
    <3>1. CASE o = s
      BY <1>3, <3>1 DEF EditOK
    <3>2. CASE o # s
      BY <1>1, <1>3, <2>1, <2>4, <3>2 DEF EditOK, Serving
    <3> QED BY <3>1, <3>2
  <2>6. ASSUME NEW v \in Workflows PROVE \E d \in past'[v] \cup {None} : reg'[v] = RegOf(d)
    <3>1. CASE v = w
      BY <1>1, <2>2, <2>3, <3>1
    <3>2. CASE v # w
      <4>1. BetweenRefreshes(v)
        BY <2>4, <3>2, EditShapes DEF BetweenRefreshes
      <4> QED BY <1>1, <1>4, <2>1, <3>2, <4>1 DEF Serving
    <3> QED BY <3>1, <3>2
  <2>7. ASSUME NEW v \in Workflows \ apart
        PROVE  /\ \A t, o \in Slots : Owns(t, v)' /\ Owns(o, v)' => t = o
               /\ \A t \in Slots : Owns(t, v)' => WillSettle(edit[t])'
               /\ (\A t \in Slots : ~Owns(t, v)') => reg'[v] = RegOf(store[v])'
    <3>1. \A o \in Slots : Owns(o, v)' => Owns(o, v) /\ o # s /\ edit'[o] = edit[o]
      BY <1>3 DEF Owns
    <3>2. \A o \in Slots : Owns(o, v)' /\ WillSettle(edit[o]) => WillSettle(edit[o])'
      BY <1>1, <3>1 DEF WillSettle
    <3>3. ASSUME \A o \in Slots : ~Owns(o, v)' PROVE reg'[v] = RegOf(store[v])'
      <4>1. CASE v = w
        <5>1. e.copy = store[w]
          BY <1>1, <2>1, <2>2, <2>7, <4>1 DEF Serving, Owns, WillSettle
        <5> QED BY <1>1, <2>3, <4>1, <5>1
      <4>2. CASE v # w
        <5>1. \A o \in Slots : ~Owns(o, v)
          BY <1>3, <3>3, <4>2 DEF Owns
        <5>2. reg[v] = RegOf(store[v])
          BY <2>1, <2>7, <5>1 DEF Serving
        <5> QED BY <1>1, <1>4, <4>2, <5>2
      <4> QED BY <4>1, <4>2
    <3>4. /\ \A t, o \in Slots : Owns(t, v) /\ Owns(o, v) => t = o
          /\ \A t \in Slots : Owns(t, v) => WillSettle(edit[t])
      BY <2>1, <2>7 DEF Serving
    <3> QED BY <3>1, <3>2, <3>3, <3>4
  <2>8. Serving'
    BY <1>1, <2>5, <2>6, <2>7 DEF Serving
  <2> QED BY <1>1, <1>5, <2>1, <2>8 DEF TriggerInv
<1> QED BY <1>6, <1>7

LEMMA NextTriggerInv == TriggerInv /\ [TriggersNext]_triggerVars => TriggerInv'
<1> SUFFICES ASSUME TriggerInv, [TriggersNext]_triggerVars PROVE TriggerInv'
  OBVIOUS
<1>1. CASE UNCHANGED triggerVars
  BY <1>1, NothingEdited DEF triggerVars
<1>2. CASE StartPage
  <2>1. CASE first
    <3>1. start.pc # "up"
      BY <1>2 DEF StartPage
    <3> QED BY <1>2, <2>1, <3>1, StartPageOK
  <2>2. CASE ~first
    <3>1. UNCHANGED <<store, edit, past, first>> /\ reg' = [w \in Workflows |-> reg'[w]]
      BY <1>2 DEF StartPage
    <3>2. start' = [pc |-> start'.pc, offset |-> start'.offset]
      BY <1>2 DEF StartPage, TriggerInv, TriggerTypes
    <3>3. TriggerTypes'
      BY <3>1, <3>2 DEF TriggerInv, TriggerTypes
    <3> QED BY <2>2, <3>1, <3>3, NotFirstOK
  <2> QED BY <2>1, <2>2
<1>3. CASE \/ \E w \in Workflows, n \in TriggerNodes : CronFires(w, n) \/ WebhookFound(w, n)
           \/ \E n \in TriggerNodes : EmitEvent(Key[n])
           \/ \E h \in hooks : WebhookFires(h)
           \/ \E f \in fired : FireTrigger(f)
  <2>1. UNCHANGED <<Quiet, lock>>
    BY <1>3 DEF CronFires, WebhookFound, EmitEvent, WebhookFires, FireTrigger
  <2> QED BY <2>1, NothingEdited DEF Quiet
<1> QED BY <1>1, <1>2, <1>3, StartTakesLockOK, SaveOK, ReloadOK, TakeDownOK, PutUpOK, RpcCreateOK DEF TriggersNext

LEMMA TriggerInvAlways == TriggersSpec => []TriggerInv
  BY InitTriggerInv, NextTriggerInv, PTL DEF TriggersSpec

\* What is registered follows what is stored: never a mixture of two definitions, and
\* the stored one as soon as the edits of a workflow, one after another, are answered.
\* It needs the mutex (a refresh is not interrupted by another) and that the copy a
\* refresh registers was loaded after its own write.
THEOREM TriggersFollowStoreAlways == TriggersSpec => []TriggersFollowStore
<1>1. TriggerInv => TriggersFollowStore
  <2> SUFFICES ASSUME TriggerInv, StartedFirst PROVE TriggersFollowStore
    BY DEF TriggersFollowStore, NoMixture, SettlesOnStored
  <2>1. Serving
    BY DEF StartedFirst, TriggerInv
  <2>2. \A w \in Workflows : ~Busy(w) => \A s \in Slots : ~Owns(s, w)
    BY <2>1, EditShapes DEF Busy, Owns, Serving, EditOK
  <2> QED BY <2>1, <2>2 DEF TriggersFollowStore, NoMixture, SettlesOnStored, Serving
<1> QED BY <1>1, TriggerInvAlways, PTL

(***************************************************************************)
(* Migrations: every server that is past an entry found its name recorded  *)
(* or recorded it, and a name is recorded only after its SQL.              *)
(***************************************************************************)
\* A server's run_migrations: it stands at an entry of the list, everything before the
\* entry is recorded, and what it is about to record it has committed.
StarterOK(p, done, committed) ==
    /\ p.at \in MigrationNames
    /\ p.step \in {"down", "check", "apply", "record", "up"}
    /\ p.step # "down" => \A k \in 1..(p.at - 1) : k \in done
    /\ p.step = "record" => p.at \in committed
    /\ p.step = "up" => p.at + 1 \notin MigrationNames /\ p.at \in done

MigrationInv ==
    /\ schema \subseteq MigrationNames /\ recorded \subseteq schema
    /\ starter = [s \in Starters |-> starter[s]]
    /\ \A s \in Starters : StarterOK(starter[s], recorded, schema)

\* What a start relies on: a recorded name stands for committed SQL, and a server
\* serves requests only on a schema with every entry of the list, committed and recorded.
UpOnWholeSchema ==
    /\ recorded \subseteq schema
    /\ \A s \in Starters : starter[s].step = "up" => recorded = MigrationNames /\ schema = MigrationNames

LEMMA NamesAre == MigrationNames = {1, 2, 3}
  BY DEF MigrationNames, Migrations

\* Nothing is taken back from the database, so the other servers stand where they stood.
LEMMA StarterOKMono ==
  ASSUME NEW p, NEW d, NEW c, NEW d2, NEW c2, d \subseteq d2, c \subseteq c2, StarterOK(p, d, c)
  PROVE  StarterOK(p, d2, c2)
  BY DEF StarterOK

LEMMA NextEntryOK ==
  ASSUME NEW p, NEW d, NEW c, StarterOK(p, d, c), p.step # "down", p.at \in d
  PROVE  IF p.at + 1 \in MigrationNames THEN StarterOK([step |-> "check", at |-> p.at + 1], d, c)
         ELSE StarterOK([step |-> "up", at |-> p.at], d, c)
  BY NamesAre DEF StarterOK

LEMMA StepOK ==
  ASSUME MigrationInv, NEW s \in Starters, NEW p, starter' = [starter EXCEPT ![s] = p],
         recorded \subseteq recorded', schema \subseteq schema',
         schema' \subseteq MigrationNames, recorded' \subseteq schema',
         StarterOK(p, recorded', schema')
  PROVE  MigrationInv'
<1>1. \A t \in Starters : StarterOK(starter[t], recorded', schema')
  BY StarterOKMono DEF MigrationInv
<1>2. starter' = [t \in Starters |-> IF t = s THEN p ELSE starter[t]]
  BY DEF MigrationInv
<1>3. \A t \in Starters : StarterOK(starter'[t], recorded', schema')
  BY <1>1, <1>2
<1>4. starter' = [t \in Starters |-> starter'[t]]
  BY <1>2
<1> QED BY <1>3, <1>4 DEF MigrationInv

LEMMA ExitOK ==
  ASSUME NEW d, NEW c PROVE StarterOK([step |-> "down", at |-> 1], d, c)
  BY NamesAre DEF StarterOK

LEMMA MigrationStepOK ==
  ASSUME MigrationInv, NEW s \in Starters, MigrationStep(s) \/ MigrationCrash(s)
  PROVE  MigrationInv'
<1> DEFINE k == starter[s].at
<1>0. /\ StarterOK(starter[s], recorded, schema) /\ k \in MigrationNames
      /\ recorded \subseteq schema /\ schema \subseteq MigrationNames
  BY DEF MigrationInv, StarterOK
<1>1. CASE Connect(s)
  <2>1. StarterOK([step |-> "check", at |-> 1], recorded, schema)
    BY NamesAre DEF StarterOK
  <2> QED BY <1>0, <1>1, <2>1, StepOK DEF Connect, StarterAt
<1>2. CASE CheckRecorded(s)
  <2>1. CASE k \in recorded
    <3>1. starter[s].step # "down"
      BY <1>2 DEF CheckRecorded
    <3>2. /\ IF k + 1 \in MigrationNames THEN starter' = [starter EXCEPT ![s] = [step |-> "check", at |-> k + 1]]
             ELSE starter' = [starter EXCEPT ![s] = [step |-> "up", at |-> k]]
          /\ UNCHANGED <<schema, recorded>>
      BY <1>2, <2>1 DEF CheckRecorded, NextEntry, StarterAt
    <3>3. IF k + 1 \in MigrationNames THEN StarterOK([step |-> "check", at |-> k + 1], recorded, schema)
          ELSE StarterOK([step |-> "up", at |-> k], recorded, schema)
      BY <1>0, <2>1, <3>1, NextEntryOK
    <3> HIDE DEF k
    <3> QED BY <1>0, <3>2, <3>3, StepOK
  <2>2. CASE k \notin recorded
    <3>1. StarterOK([step |-> "apply", at |-> k], recorded, schema)
      BY <1>0, <1>2 DEF CheckRecorded, StarterOK
    <3> QED BY <1>0, <1>2, <2>2, <3>1, StepOK DEF CheckRecorded, StarterAt
  <2> QED BY <2>1, <2>2
<1>3. CASE ApplySql(s)
  <2>1. CASE k \in schema /\ ~Repeatable(k)
    BY <1>0, <1>3, <2>1, ExitOK, StepOK DEF ApplySql, StarterExits, StarterAt
  <2>2. CASE ~(k \in schema /\ ~Repeatable(k))
    <3>1. /\ starter' = [starter EXCEPT ![s] = [step |-> "record", at |-> k]]
          /\ schema' = schema \cup {k} /\ recorded' = recorded /\ starter[s].step = "apply"
      BY <1>3, <2>2 DEF ApplySql, StarterAt
    <3>2. StarterOK([step |-> "record", at |-> k], recorded, schema')
      BY <1>0, <3>1 DEF StarterOK
    <3> QED BY <1>0, <3>1, <3>2, StepOK
  <2> QED BY <2>1, <2>2
<1>4. CASE RecordName(s)
  <2>0. k \in schema /\ starter[s].step # "down"
    BY <1>0, <1>4 DEF RecordName, StarterOK
  <2>1. CASE k \in recorded
    BY <1>0, <1>4, <2>1, ExitOK, StepOK DEF RecordName, StarterExits, StarterAt
  <2>2. CASE k \notin recorded
    <3>2. /\ IF k + 1 \in MigrationNames THEN starter' = [starter EXCEPT ![s] = [step |-> "check", at |-> k + 1]]
             ELSE starter' = [starter EXCEPT ![s] = [step |-> "up", at |-> k]]
          /\ schema' = schema /\ recorded' = recorded \cup {k}
      BY <1>4, <2>2 DEF RecordName, NextEntry, StarterAt
    <3>3. StarterOK(starter[s], recorded', schema')
      BY <1>0, <3>2, StarterOKMono
    <3>4. IF k + 1 \in MigrationNames THEN StarterOK([step |-> "check", at |-> k + 1], recorded', schema')
          ELSE StarterOK([step |-> "up", at |-> k], recorded', schema')
      BY <2>0, <3>2, <3>3, NextEntryOK
    <3> HIDE DEF k
    <3>5. recorded \subseteq recorded' /\ schema \subseteq schema' /\ schema' \subseteq MigrationNames /\ recorded' \subseteq schema'
      BY <1>0, <2>0, <3>2
    <3> QED BY <3>2, <3>4, <3>5, StepOK
  <2> QED BY <2>1, <2>2
<1>5. CASE MigrationCrash(s)
  BY <1>0, <1>5, ExitOK, StepOK DEF MigrationCrash, StarterExits, StarterAt
<1> QED BY <1>1, <1>2, <1>3, <1>4, <1>5 DEF MigrationStep

\* However many servers migrate one database at the same time, and wherever they die, a
\* server that serves has the whole schema under it, and a name in _orbflow_migrations
\* stands for committed SQL: what the liveness property UpUnlessHalfMigrated promises of
\* servers that come up, here as a safety property of every number of servers.
THEOREM UpOnWholeSchemaAlways == MigrationsSpec => []UpOnWholeSchema
<1>1. MigrationsInit => MigrationInv
  BY ExitOK DEF MigrationsInit, MigrationInv
<1>2. MigrationInv /\ [MigrationsNext]_migrationVars => MigrationInv'
  <2>1. MigrationInv /\ MigrationsNext => MigrationInv'
    BY MigrationStepOK DEF MigrationsNext
  <2>2. MigrationInv /\ UNCHANGED migrationVars => MigrationInv'
    BY DEF MigrationInv, migrationVars
  <2> QED BY <2>1, <2>2
<1>3. MigrationInv => UpOnWholeSchema
  BY NamesAre DEF MigrationInv, StarterOK, UpOnWholeSchema
<1> QED BY <1>1, <1>2, <1>3, PTL DEF MigrationsSpec

================================================================================
