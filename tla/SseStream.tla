----------------------------- MODULE SseStream -----------------------------
(***************************************************************************)
(* The two readers of a streamed answer: forwardSseEvents, which passes    *)
(* events on and collects their usage, and StreamCompletion, which decides *)
(* whether the answer was complete.  The network cuts the text anywhere.   *)
(* A text is a sequence of lines and of the characters CR and LF.          *)
(***************************************************************************)
EXTENDS Naturals, Sequences

CONSTANTS Texts,     \* answers of the upstream
          Json,      \* data lines that hold a JSON object
          Terminal,  \* those of the path's terminal event, or [DONE]
          Failing,   \* those with an error
          Done,      \* the line data: [DONE]
          ErrorName, \* the line event: error
          Renamed,   \* a JSON line with the canonical model
          UsageOf,   \* the usage a JSON line reports, 0 for none
          CR, LF

VARIABLES text, at,                \* the answer and how much of it has arrived
          filterDone,              \* Claude Code clients get no [DONE]
          sseStart, forwarded, usage,          \* forwardSseEvents
          drainStart, failed, terminal,        \* StreamCompletion
          ended

streamVars == <<text, at, filterDone, sseStart, forwarded, usage, drainStart, failed, terminal, ended>>

StreamInit ==
  /\ text \in Texts /\ at = 0 /\ filterDone \in BOOLEAN
  /\ sseStart = 1 /\ forwarded = <<>> /\ usage = 0
  /\ drainStart = 1 /\ failed = FALSE /\ terminal = FALSE /\ ended = FALSE

-----------------------------------------------------------------------------
None == [at |-> 0, length |-> 0]
Found(i, n) == [at |-> i, length |-> n]
First(S) == CHOOSE i \in S : \A j \in S : i <= j

(* indexOf *)
IndexOf(pattern, from, to) ==
  LET n == Len(pattern)
      hits == {i \in from..(to + 1 - n) : SubSeq(text, i, i + n - 1) = pattern}
  IN  IF hits = {} THEN None ELSE Found(First(hits), n)

(* nextSseEventBoundary: the first blank line in either line ending. *)
NextSseEventBoundary(from, to) ==
  LET lf == IndexOf(<<LF, LF>>, from, to)
      crlf == IndexOf(<<CR, LF, CR, LF>>, from, to)
  IN  IF crlf # None /\ (lf = None \/ crlf.at < lf.at) THEN crlf ELSE lf

(* /\r?\n\r?\n/ of drain(). *)
NextDrainBoundary(from, to) ==
  LET hits == {IndexOf(p, from, to) :
                 p \in {<<LF, LF>>, <<LF, CR, LF>>, <<CR, LF, LF>>, <<CR, LF, CR, LF>>}} \ {None}
  IN  IF hits = {} THEN None
      ELSE CHOOSE b \in hits : \A c \in hits : b.at < c.at \/ (b.at = c.at /\ b.length >= c.length)

IsLine(t) == t \notin {CR, LF}

(* sseData: the data lines of an event, joined. *)
SseData(event) == SelectSeq(event, LAMBDA t : IsLine(t) /\ t # ErrorName)

JsonEvent(event) == Len(SseData(event)) = 1 /\ SseData(event)[1] \in Json

(* collectSseEventUsage and mergeUsage: a later report wins. *)
CollectUsage(event, before) ==
  IF JsonEvent(event) /\ UsageOf[SseData(event)[1]] # 0 THEN UsageOf[SseData(event)[1]] ELSE before

(* canonicalizeSseEvent: the data line is rewritten and the lines are joined
   with LF. *)
CanonicalizeSseEvent(event) ==
  IF ~JsonEvent(event) THEN event
  ELSE LET lines == SelectSeq(event, LAMBDA t : t # CR)
       IN  [i \in 1..Len(lines) |-> IF lines[i] \in Json THEN Renamed[lines[i]] ELSE lines[i]]

(* isCopilotDoneEvent *)
IsCopilotDoneEvent(event) ==
  SseData(event) = <<Done>> /\ \A i \in 1..Len(event) : event[i] # ErrorName

Forwarded(event, delimiter) ==
  IF filterDone /\ IsCopilotDoneEvent(event) THEN <<>>
  ELSE CanonicalizeSseEvent(event) \o delimiter

(* event(): what a drained event says of the answer.  [DONE] is terminal on
   the path where Terminal holds it. *)
Fails(event) ==
  \/ \E i \in 1..Len(event) : event[i] = ErrorName
  \/ /\ SseData(event) \notin {<<>>, <<Done>>}
     /\ ~JsonEvent(event) \/ SseData(event)[1] \in Failing

Terminates(event) == Len(SseData(event)) = 1 /\ SseData(event)[1] \in Terminal \ Failing

-----------------------------------------------------------------------------
Splitting == \/ NextSseEventBoundary(sseStart, at) # None
             \/ NextDrainBoundary(drainStart, at) # None

(* Mutant: the rest of a chunk is not kept for the next one. *)
ReadForgets(n) ==
  /\ ~ended /\ ~Splitting /\ at + n <= Len(text)
  /\ at' = at + n
  /\ sseStart' = at + 1
  /\ UNCHANGED <<text, filterDone, forwarded, usage, drainStart, failed, terminal, ended>>

(* A chunk is appended to both buffers. *)
Read(n) ==
  /\ ~ended /\ ~Splitting /\ at + n <= Len(text)
  /\ at' = at + n
  /\ UNCHANGED <<text, filterDone, sseStart, forwarded, usage, drainStart, failed, terminal, ended>>

(* One turn of the loop of forwardSseEvents. *)
ForwardSseEvent ==
  LET b == NextSseEventBoundary(sseStart, at)
      event == SubSeq(text, sseStart, b.at - 1)
  IN  /\ b # None
      /\ forwarded' = forwarded \o Forwarded(event, SubSeq(text, b.at, b.at + b.length - 1))
      /\ usage' = CollectUsage(event, usage)
      /\ sseStart' = b.at + b.length
      /\ UNCHANGED <<text, at, filterDone, drainStart, failed, terminal, ended>>

(* One turn of the loop of drain(). *)
Drain ==
  LET b == NextDrainBoundary(drainStart, at)
      event == SubSeq(text, drainStart, b.at - 1)
  IN  /\ b # None
      /\ failed' = (failed \/ Fails(event))
      /\ terminal' = (terminal \/ Terminates(event))
      /\ drainStart' = b.at + b.length
      /\ UNCHANGED <<text, at, filterDone, sseStart, forwarded, usage, ended>>

(* The stream is done: flushSseRemainder and finish(). *)
EndStream ==
  LET rest == SubSeq(text, sseStart, at)
      undrained == SubSeq(text, drainStart, at)
  IN  /\ ~ended /\ ~Splitting /\ at = Len(text)
      /\ forwarded' = forwarded \o Forwarded(rest, <<>>)
      /\ usage' = CollectUsage(rest, usage)
      /\ failed' = (failed \/ \E i \in 1..Len(undrained) : IsLine(undrained[i]))
      /\ ended' = TRUE
      /\ UNCHANGED <<text, at, filterDone, sseStart, drainStart, terminal>>

StreamNext == (\E n \in 1..Len(text) : Read(n)) \/ ForwardSseEvent \/ Drain \/ EndStream

-----------------------------------------------------------------------------
(* The events of the whole text, split by a boundary function. *)
EventsOf(Boundary(_, _)) ==
  LET events[i \in 1..(Len(text) + 1)] ==
        LET b == Boundary(i, Len(text)) IN
          IF b = None THEN <<[event |-> SubSeq(text, i, Len(text)), delimiter |-> <<>>]>>
          ELSE <<[event |-> SubSeq(text, i, b.at - 1),
                  delimiter |-> SubSeq(text, b.at, b.at + b.length - 1)]>>
               \o events[b.at + b.length]
  IN  events[1]

Concatenated(parts) ==
  LET upTo[i \in 0..Len(parts)] ==
        IF i = 0 THEN <<>> ELSE upTo[i - 1] \o Forwarded(parts[i].event, parts[i].delimiter)
  IN  upTo[Len(parts)]

LastUsage(parts) ==
  LET upTo[i \in 0..Len(parts)] == IF i = 0 THEN 0 ELSE CollectUsage(parts[i].event, upTo[i - 1])
  IN  upTo[Len(parts)]

(* However the network cuts an answer, what is forwarded, the usage and the
   verdict on its completeness are those of the text read in one piece; a
   successful answer ended with an empty buffer. *)
CutsDoNotMatter ==
  ended =>
    LET parts == EventsOf(NextSseEventBoundary)
        drained == EventsOf(NextDrainBoundary)
        last == Len(drained)
    IN  /\ forwarded = Concatenated(parts)
        /\ usage = LastUsage(parts)
        /\ terminal = (\E i \in 1..(last - 1) : Terminates(drained[i].event))
        /\ failed = \/ \E i \in 1..(last - 1) : Fails(drained[i].event)
                    \/ \E i \in 1..Len(drained[last].event) : IsLine(drained[last].event[i])
=============================================================================
