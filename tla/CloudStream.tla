---------------------------- MODULE CloudStream ----------------------------
(***************************************************************************)
(* CloudSse: the console's reader of TokenFuse Cloud's live stream, an     *)
(* EventSource over server-sent events (connectors/src/cloud_sse.rs) and   *)
(* the frame decoder under it (connectors/src/sse_decoder.rs).             *)
(*                                                                         *)
(* One thread connects, feeds whatever bytes the transport hands over to a *)
(* decoder, sends each decoded event down a channel and, when the          *)
(* connection ends, reconnects with the last id it saw.  The ingest thread *)
(* drains the channel with poll.  The bytes of a frame are the tokens      *)
(*     id line, end of line, data line, end of line, end of line           *)
(* where an end of line is LF, CR LF or CR, one choice per server, and a   *)
(* chunk ends between any two tokens, a CR and its LF included.            *)
(***************************************************************************)
EXTENDS Integers, Sequences, FiniteSetsExt

CONSTANTS
    MaxEvents,    \* events the server publishes
    MaxChunk,     \* tokens one read of the socket hands over, at most
    MaxAttempts,  \* CloudSseConfig.max_attempts
    MaxCuts       \* connections that end, or are refused

ASSUME CloudAssumption ==
    MaxEvents \in Nat /\ MaxChunk \in Nat /\ MaxAttempts \in Nat /\ MaxCuts \in Nat

VARIABLES
    ending,     \* the server's end of line: "lf", "crlf" or "cr"
    numbering,  \* which events carry an id line: "each", "odd" or "none"
    head,       \* the newest event published
    link,       \* the open connection: the event it began at, and tokens read
    decoder,    \* SseDecoder of that connection
    worker,     \* the background thread: "dialling", "streaming" or "ended"
    attempt,    \* consecutive attempts, as run_loop counts them
    lastEventId,\* the id the next connection asks to continue after
    newestId,   \* the id the open connection would hand on
    gotEvent,   \* an event was decoded on this connection
    channel,    \* events decoded and not yet polled
    polled,     \* events poll has handed over, in order
    surfaced,   \* poll has answered with the error
    barren,     \* attempts since the last decoded event: what gives up
    cuts

cloudVars == <<ending, numbering, head, link, decoder, worker, attempt, lastEventId, newestId,
               gotEvent, channel, polled, surfaced, barren, cuts>>

Tok(c, n) == [c |-> c, n |-> n]
Cr == Tok("cr", 0)
Lf == Tok("lf", 0)
NoId == 0

EndOfLine == CASE ending = "lf" -> <<Lf>> [] ending = "crlf" -> <<Cr, Lf>> [] ending = "cr" -> <<Cr>>

Numbered(n) == numbering = "each" \/ (numbering = "odd" /\ n % 2 = 1)

\* What the server writes for event n: a keepalive comment precedes an unnumbered event.
Frame(n) ==
    <<Tok(IF Numbered(n) THEN "id" ELSE "comment", n)>> \o EndOfLine
      \o <<Tok("data", n)>> \o EndOfLine \o EndOfLine

FrameLength == 2 + 3 * Len(EndOfLine)

\* The token at position i of the stream a connection that began at event `from` reads.
TokenAt(from, i) == Frame(from + (i - 1) \div FrameLength)[((i - 1) % FrameLength) + 1]

(***************************************************************************)
(* The decoder                                                             *)
(***************************************************************************)
NewDecoder == [buffer |-> <<>>, data |-> NoId, lastId |-> NoId]

Found(line, consumed) == [found |-> TRUE, line |-> line, consumed |-> consumed]
NotFound == [found |-> FALSE, line |-> 0, consumed |-> 0]

\* Mutant: a lone CR at the end of what arrived ends the line at once.
LineEndEager(buffer) ==
    LET ends == {i \in DOMAIN buffer : buffer[i] \in {Cr, Lf}}
        i == Min(ends)
    IN  IF ends = {} THEN NotFound
        ELSE IF buffer[i] = Cr /\ i < Len(buffer) /\ buffer[i + 1] = Lf THEN Found(i - 1, i + 1)
        ELSE Found(i - 1, i)

\* find_line_end: a trailing lone CR waits for the next byte, which may be its LF.
LineEnd(buffer) ==
    LET ends == {i \in DOMAIN buffer : buffer[i] \in {Cr, Lf}}
        i == Min(ends)
    IN  IF ends = {} THEN NotFound
        ELSE IF buffer[i] = Lf THEN Found(i - 1, i)
        ELSE IF i = Len(buffer) THEN NotFound
        ELSE IF buffer[i + 1] = Lf THEN Found(i - 1, i + 1)
        ELSE Found(i - 1, i)

\* process_line and dispatch on the decoder dec; events gains what a blank line completes.
ProcessLine(st, line) ==
    IF line = <<>>
    THEN [dec |-> [st.dec EXCEPT !.data = NoId],
          events |-> IF st.dec.data = NoId THEN st.events
                     ELSE Append(st.events, [data |-> st.dec.data, id |-> st.dec.lastId])]
    ELSE CASE line[1].c = "data" -> [st EXCEPT !.dec.data = line[1].n]
           [] line[1].c = "id" -> [st EXCEPT !.dec.lastId = line[1].n]
           [] OTHER -> st

\* One turn of feed's loop: the first line the buffer completes is taken out and processed.
TakeLine(st) ==
    LET end == LineEnd(st.dec.buffer)
        rest == SubSeq(st.dec.buffer, end.consumed + 1, Len(st.dec.buffer))
    IN  IF ~end.found THEN st
        ELSE ProcessLine([st EXCEPT !.dec.buffer = rest], SubSeq(st.dec.buffer, 1, end.line))

\* SseDecoder::feed: every line the buffer now completes, in order.
Feed(chunk) ==
    LET begin == [dec |-> [decoder EXCEPT !.buffer = @ \o chunk], events |-> <<>>]
        Steps == Len(begin.dec.buffer)
        after[k \in 0..Steps] == IF k = 0 THEN begin ELSE TakeLine(after[k - 1])
    IN  after[Steps]

(***************************************************************************)
(* The background thread                                                   *)
(***************************************************************************)
CloudInit ==
    /\ ending \in {"lf", "crlf", "cr"}
    /\ numbering \in {"each", "odd", "none"}
    /\ head = 0
    /\ link = [from |-> 1, read |-> 0]
    /\ decoder = NewDecoder
    /\ worker = "dialling"
    /\ attempt = 0 /\ barren = 0
    /\ lastEventId = NoId /\ newestId = NoId
    /\ gotEvent = FALSE /\ surfaced = FALSE
    /\ channel = <<>> /\ polled = <<>>
    /\ cuts = 0

\* The server publishes the next event.
Publish ==
    /\ head < MaxEvents
    /\ head' = head + 1
    /\ UNCHANGED <<ending, numbering, link, decoder, worker, attempt, lastEventId, newestId,
                   gotEvent, channel, polled, surfaced, barren, cuts>>

\* run_loop stops when max_attempts attempts in a row have decoded nothing.
GiveUp ==
    /\ worker = "dialling"
    /\ attempt >= MaxAttempts
    /\ worker' = "ended"
    /\ UNCHANGED <<ending, numbering, head, link, decoder, attempt, lastEventId, newestId,
                   gotEvent, channel, polled, surfaced, barren, cuts>>

\* Where the server takes the stream up: after the id it is given, else from what comes next.
ResumeAt(id) == IF id = NoId THEN head + 1 ELSE id + 1

\* connect_and_stream up to a success status.  Every connection has a decoder of its own.
Connect ==
    /\ worker = "dialling"
    /\ attempt < MaxAttempts
    /\ worker' = "streaming"
    /\ attempt' = attempt + 1 /\ barren' = barren + 1
    /\ link' = [from |-> ResumeAt(lastEventId), read |-> 0]
    /\ decoder' = NewDecoder
    /\ newestId' = lastEventId
    /\ gotEvent' = FALSE
    /\ UNCHANGED <<ending, numbering, head, lastEventId, channel, polled, surfaced, cuts>>

\* A connection that is never established, or answers an error status.
Refused ==
    /\ worker = "dialling"
    /\ attempt < MaxAttempts
    /\ cuts < MaxCuts
    /\ attempt' = attempt + 1 /\ barren' = barren + 1
    /\ cuts' = cuts + 1
    /\ UNCHANGED <<ending, numbering, head, link, decoder, worker, lastEventId, newestId,
                   gotEvent, channel, polled, surfaced>>

Available == FrameLength * (head - link.from + 1) - link.read

\* Mutant: the id line of an event still half received is taken as seen.
NewestFromDecoder(fed) == IF fed.dec.lastId # NoId THEN fed.dec.lastId ELSE newestId

\* The id of the last event decoded, if it had one.
NewestIdOf(fed) ==
    LET ids == {i \in DOMAIN fed.events : fed.events[i].id # NoId}
    IN  IF ids = {} THEN newestId ELSE fed.events[Max(ids)].id

\* The socket hands over k tokens.
Deliver(k) ==
    /\ worker = "streaming"
    /\ k <= Available
    /\ LET fed == Feed([i \in 1..k |-> TokenAt(link.from, link.read + i)])
       IN  /\ decoder' = fed.dec
           /\ newestId' = NewestIdOf(fed)
           /\ gotEvent' = (gotEvent \/ fed.events # <<>>)
           /\ channel' = channel \o [i \in DOMAIN fed.events |-> fed.events[i].data]
           /\ barren' = IF fed.events # <<>> THEN 0 ELSE barren
    /\ link' = [link EXCEPT !.read = @ + k]
    /\ UNCHANGED <<ending, numbering, head, worker, attempt, lastEventId, polled, surfaced, cuts>>

\* Mutant: a drop does not give the budget back.
AttemptStacked == attempt

\* A connection that decoded anything gives the whole budget back.
AttemptAfter == IF gotEvent THEN 0 ELSE attempt

\* The connection ends, cleanly or not; half a frame goes with its decoder.
Cut ==
    /\ worker = "streaming"
    /\ cuts < MaxCuts
    /\ cuts' = cuts + 1
    /\ worker' = "dialling"
    /\ attempt' = AttemptAfter
    /\ lastEventId' = IF newestId # NoId THEN newestId ELSE lastEventId
    /\ UNCHANGED <<ending, numbering, head, link, decoder, newestId, gotEvent, channel, polled,
                   surfaced, barren>>

\* shutdown, or the handle dropped: noticed at the next await.
Shutdown ==
    /\ worker # "ended"
    /\ cuts < MaxCuts
    /\ cuts' = MaxCuts
    /\ worker' = "ended"
    /\ UNCHANGED <<ending, numbering, head, link, decoder, attempt, lastEventId, newestId,
                   gotEvent, channel, polled, surfaced, barren>>

\* Mutant: poll answers the error the moment the thread is gone.
PollErrs == worker = "ended"

\* poll answers the error only when nothing decoded is left to hand over.
PollFails == worker = "ended" /\ channel = <<>>

PollStream ==
    /\ IF PollFails
       THEN surfaced' = TRUE /\ UNCHANGED polled
       ELSE polled' = polled \o channel /\ UNCHANGED surfaced
    /\ channel' = IF PollFails THEN channel ELSE <<>>
    /\ UNCHANGED <<ending, numbering, head, link, decoder, worker, attempt, lastEventId,
                   newestId, gotEvent, barren, cuts>>

CloudNext ==
    \/ Publish \/ GiveUp \/ Connect \/ Refused \/ Cut \/ Shutdown \/ PollStream
    \/ \E k \in 1..MaxChunk : Deliver(k)

CloudSpec == CloudInit /\ [][CloudNext]_cloudVars

(***************************************************************************)
(* Properties                                                              *)
(***************************************************************************)
Received == polled \o channel

\* However the bytes of a connection are cut into chunks, the events decoded from it are the
\* frames whose end has arrived: none early, none late, none twice.  With CR alone as the end
\* of line a frame's end is known with the byte after it.
ChunkingIsInvisible ==
    worker = "streaming" =>
      LET known == IF ending = "cr" /\ link.read > 0 THEN link.read - 1 ELSE link.read
          complete == known \div FrameLength
          tail == SubSeq(Received, Len(Received) - complete + 1, Len(Received))
      IN  /\ complete <= Len(Received)
          /\ tail = [i \in 1..complete |-> link.from + i - 1]
          /\ gotEvent = (complete > 0)

\* Across drops, half-received frames and reconnections, a server that numbers its events and
\* honours Last-Event-ID is read without a gap: from the first event with an id on, each event
\* handed over follows one that was, and when every event carries an id none is handed over
\* twice.  Before the first id a connection that drops has nothing to ask the server for.
NoGap ==
    \A i \in 1..(Len(Received) - 1) :
      /\ (\E j \in 1..i : Numbered(Received[j])) => Received[i + 1] <= Received[i] + 1
      /\ numbering = "each" => Received[i + 1] = Received[i] + 1

\* The error poll ends with is told only after every decoded event has been handed over, so
\* ending the thread never loses what it had already read.
ErrorComesLast == surfaced => channel = <<>>

\* The thread gives up only after max_attempts attempts in a row that decoded nothing: a stream
\* that works and drops again and again is never abandoned for its drops.
OnlyBarrenGivesUp == worker = "dialling" /\ attempt >= MaxAttempts => barren >= MaxAttempts

\* The stream is handed over as it was sent, whatever the chunks, the drops and the
\* reconnections, and is given up only when nothing comes (connectors/src/cloud_sse.rs, sse_decoder.rs).
StreamIsFaithful ==
    /\ ChunkingIsInvisible
    /\ NoGap
    /\ ErrorComesLast
    /\ OnlyBarrenGivesUp
=============================================================================
