----------------------------- MODULE StreamText -----------------------------
(***************************************************************************)
(* How the providers cut the bytes of a response into events, and how      *)
(* MiniMax hides thought blocks.  The network may cut a body anywhere, in  *)
(* the middle of a character, of a line end or of a marker; both readers   *)
(* keep what they cannot decide yet.  A body is a sequence of characters:  *)
(* for the event readers "data" and "event" are the field names with their *)
(* colon, "x" any other character, "h1" and "h2" the bytes of one          *)
(* character of two bytes; for the filter, markers keep their shape: two   *)
(* openers, one of which begins with its own closer ("q"), a shared "<".   *)
(***************************************************************************)
EXTENDS Naturals, Sequences, SequencesExt

CONSTANTS
  MaxBody,     \* bound: characters of a body
  MaxChunk,    \* bound: characters of a chunk
  MaxBytes     \* MAX_RESPONSE_BYTES

\* What the constants must satisfy, assumed where they get their values.
StreamTextAssumption == {MaxBody, MaxChunk, MaxBytes} \subseteq Nat

VARIABLES
  reader,   \* "named" (anthropic), "data" (gemini, compatible, minimax), "responses", "thought"
  state,    \* what the reader holds
  out,      \* events read, or characters shown
  body,     \* everything received and not refused
  status    \* "open", "ended", "refused"

vars == <<reader, state, out, body, status>>

EventChars == {"data", "event", "x", "LF", "CR", "h1", "h2"}
ThoughtChars == {"<", "/", "t", "q", "x", "LF"}
Chars == IF reader = "thought" THEN ThoughtChars ELSE EventChars

Drop(s, n) == SubSeq(s, n + 1, Len(s))
First(S) == CHOOSE i \in S : \A j \in S : i <= j
At(m, s, i) == i + Len(m) - 1 <= Len(s) /\ SubSeq(s, i, i + Len(m) - 1) = m
Found(m, s) == {i \in 1..Len(s) : At(m, s, i)}
RECURSIVE Strip(_, _), StripEnd(_, _)
Strip(s, C) == IF s # <<>> /\ Head(s) \in C THEN Strip(Tail(s), C) ELSE s
StripEnd(s, C) == IF s # <<>> /\ Last(s) \in C THEN StripEnd(Front(s), C) ELSE s

-----------------------------------------------------------------------------
(* The incremental UTF-8 decoder: a first byte waits for the second.       *)

Decoded(held, chunk) ==
  FoldLeft(LAMBDA d, c : IF d.bad THEN d
                         ELSE IF c = "h2" THEN [d EXCEPT !.bad = ~d.held, !.held = FALSE, !.text = Append(@, "w")]
                         ELSE IF d.held THEN [d EXCEPT !.bad = TRUE]
                         ELSE IF c = "h1" THEN [d EXCEPT !.held = TRUE]
                         ELSE [d EXCEPT !.text = Append(@, c)],
           [held |-> held, bad |-> FALSE, text |-> <<>>], chunk)

-----------------------------------------------------------------------------
(* Lines.  Two readers end a line at LF and drop the CRs before it; the    *)
(* third ends it at LF, CR or CR LF and waits when CR is the last it has.  *)

Cut(line, rest) == <<[line |-> line, rest |-> rest]>>

PopLf(s) ==
  LET at == Found(<<"LF">>, s) IN
    IF at = {} THEN <<>> ELSE Cut(StripEnd(SubSeq(s, 1, First(at) - 1), {"CR"}), Drop(s, First(at)))

PopAny(s, final) ==
  LET ends == Found(<<"LF">>, s) \cup Found(<<"CR">>, s) IN
    IF ends = {} THEN <<>>
    ELSE LET i == First(ends) IN
           IF s[i] = "CR" /\ i = Len(s) /\ ~final THEN <<>>
           ELSE Cut(SubSeq(s, 1, i - 1), Drop(s, IF At(<<"CR", "LF">>, s, i) THEN i + 1 ELSE i))

\* Mutated form of Pop: a CR at the end of a chunk ends the line at once.
PopEager(s, final) == IF reader = "responses" THEN PopAny(s, TRUE) ELSE PopLf(s)

Pop(s, final) == IF reader = "responses" THEN PopAny(s, final) ELSE PopLf(s)

\* A line of an event; the event is given out at the empty line.
NamedLine(s, line) ==
  IF line = <<>> THEN
    IF s.data = <<>> THEN [s EXCEPT !.name = <<>>]
    ELSE [s EXCEPT !.name = <<>>, !.data = <<>>, !.events = Append(@, <<s.name, s.data>>)]
  ELSE CASE Head(line) = "event" -> [s EXCEPT !.name = Tail(line)]
         [] Head(line) = "data" -> [s EXCEPT !.data = Append(@, Tail(line))]
         [] OTHER -> s

DataLine(s, line) ==
  IF line = <<>> THEN
    IF s.data = <<>> THEN s ELSE [s EXCEPT !.data = <<>>, !.events = Append(@, <<<<>>, s.data>>)]
  ELSE IF Head(line) = "data" THEN [s EXCEPT !.data = Append(@, Tail(line))] ELSE s

Line(s, line) == IF reader = "named" THEN NamedLine(s, line) ELSE DataLine(s, line)

RECURSIVE Lines(_, _)
Lines(s, final) ==
  LET cut == Pop(s.buffer, final) IN
    IF cut = <<>> THEN s ELSE Lines(Line([s EXCEPT !.buffer = cut[1].rest], cut[1].line), final)

Nothing == [buffer |-> <<>>, held |-> FALSE, name |-> <<>>, data |-> <<>>, events |-> <<>>,
            closer |-> <<>>]

\* The end of the body: what is left is a line, and what it leaves is an event.
LastLines(s) ==
  LET t == Lines(s, TRUE)
      u == IF t.buffer = <<>> THEN t
           ELSE Line([t EXCEPT !.buffer = <<>>], IF reader = "responses" THEN t.buffer ELSE StripEnd(t.buffer, {"CR"})) IN
    IF u.data = <<>> THEN u ELSE [u EXCEPT !.data = <<>>, !.events = Append(@, <<u.name, u.data>>)]

-----------------------------------------------------------------------------
(* The thought filter.                                                     *)

Markers == {[opener |-> <<"<", "t">>, closer |-> <<"<", "/">>],
            [opener |-> <<"q", "q", "t">>, closer |-> <<"q", "q">>]}

\* Mutated form of Held: nothing is kept back.
HeldNothing(s, markers) == 0

\* The length of the longest end of s that may be the beginning of a marker.
Held(s, markers) ==
  LET n == {k \in 0..Len(s) : k = 0 \/ \E m \in markers : k < Len(m) /\ SubSeq(m, 1, k) = Drop(s, Len(s) - k)} IN
    CHOOSE k \in n : \A j \in n : j <= k

RECURSIVE Filter(_)
Filter(s) ==
  LET b == s.buffer
      opens == {m \in Markers : Found(m.opener, b) # {}}
      next == CHOOSE m \in opens : \A o \in opens : First(Found(m.opener, b)) <= First(Found(o.opener, b)) IN
    IF b = <<>> THEN s
    ELSE IF s.closer # <<>> THEN
      IF Found(s.closer, b) = {}
      THEN [s EXCEPT !.buffer = Drop(b, Len(b) - Held(b, {s.closer}))]
      ELSE Filter([s EXCEPT !.closer = <<>>,
                     !.buffer = Strip(Drop(b, First(Found(s.closer, b)) + Len(s.closer) - 1), {"LF", "CR"})])
    ELSE IF opens # {} THEN
      LET i == First(Found(next.opener, b)) IN
        Filter([s EXCEPT !.closer = next.closer, !.events = @ \o SubSeq(b, 1, i - 1),
                         !.buffer = Drop(b, i + Len(next.opener) - 1)])
    ELSE LET n == Len(b) - Held(b, {m.opener : m \in Markers}) IN
           [s EXCEPT !.events = @ \o SubSeq(b, 1, n), !.buffer = Drop(b, n)]

\* The end of the stream: an unfinished thought is dropped, an unfinished marker is text.
Finish(s) == IF s.closer # <<>> THEN s.events ELSE s.events \o s.buffer

-----------------------------------------------------------------------------
Init ==
  /\ reader \in {"named", "data", "responses", "thought"}
  /\ state = Nothing /\ out = <<>> /\ body = <<>> /\ status = "open"

Read(s, chunk) ==
  IF reader = "thought" THEN Filter([s EXCEPT !.buffer = @ \o chunk])
  ELSE LET d == Decoded(s.held, chunk) IN
         Lines([s EXCEPT !.buffer = @ \o d.text, !.held = d.held], FALSE)

Broken(s, chunk) == reader # "thought" /\ (Decoded(s.held, chunk).bad \/ Len(body) + Len(chunk) > MaxBytes)

Feed(chunk) ==
  /\ status = "open" /\ Len(body) + Len(chunk) <= MaxBody
  /\ IF Broken(state, chunk) THEN status' = "refused" /\ UNCHANGED <<state, out, body>>
     ELSE LET s == Read(state, chunk) IN
            /\ state' = [s EXCEPT !.events = <<>>] /\ out' = out \o s.events
            /\ body' = body \o chunk /\ status' = status
  /\ UNCHANGED reader

End ==
  /\ status = "open"
  /\ IF reader = "thought" THEN out' = out \o Finish(state) /\ status' = "ended"
     ELSE IF state.held THEN status' = "refused" /\ UNCHANGED out
     ELSE out' = out \o LastLines(state).events /\ status' = "ended"
  /\ UNCHANGED <<reader, state, body>>

Next == \/ \E n \in 1..MaxChunk : \E chunk \in [1..n -> Chars] : Feed(chunk)
        \/ End

Spec == Init /\ [][Next]_vars

-----------------------------------------------------------------------------
Without(s, C) == SelectSeq(s, LAMBDA c : c \notin C)

\* The text outside thoughts, read from the markers' places alone.
RECURSIVE Visible(_)
Visible(s) ==
  LET starts == UNION {Found(m.opener, s) : m \in Markers} IN
    IF starts = {} THEN s
    ELSE LET i == First(starts)
             m == CHOOSE n \in Markers : At(n.opener, s, i)
             rest == Drop(s, i + Len(m.opener) - 1) IN
           SubSeq(s, 1, i - 1) \o
           IF Found(m.closer, rest) = {} THEN <<>>
           ELSE Visible(Drop(rest, First(Found(m.closer, rest)) + Len(m.closer) - 1))

(* How the network cuts a body does not change what is read from it: the   *)
(* events are those of the body received at once (_iter_sse_events,        *)
(* _iter_event_data, _pop_sse_line), and of a text with thoughts           *)
(* everything outside them is shown and nothing inside; only the line ends *)
(* after a block are dropped or kept depending on the cut                  *)
(* (_ThoughtBlockFilter).                                                  *)
CutsDoNotMatter ==
  status = "ended" =>
    IF reader = "thought" THEN Without(out, {"LF"}) = Without(Visible(body), {"LF"})
    ELSE out = LastLines(Read(Nothing, body)).events
=============================================================================
