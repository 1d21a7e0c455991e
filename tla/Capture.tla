------------------------------- MODULE Capture -------------------------------
(***************************************************************************)
(* From the bytes of a terminal to log records: the reader loop of         *)
(* scheduler/pty.rs with its ANSI filter, its line discipline and, while a *)
(* program uses the alternate screen, its rate-limited screen snapshots.   *)
(*                                                                         *)
(* Bytes are symbols, one for each class the code tells apart: "st" is the *)
(* backslash that ends a string after an ESC, "c1" the byte 0x9c that ends *)
(* it alone, "lead" and "cont" are the two bytes of one UTF-8 character,   *)
(* whose second byte may be "c1" too.  The alternate screen is the         *)
(* emulator's business: CSI h enters it here, CSI l leaves it.             *)
(***************************************************************************)
EXTENDS Naturals, FiniteSets, Sequences, SequencesExt

CONSTANTS
  Streams,     \* kinds of input: [bytes: a set of symbols, length: a bound]
  LineMax,     \* PTY_LOG_LINE_MAX_BYTES
  PayloadMax,  \* ANSI_SEQUENCE_PAYLOAD_MAX_BYTES
  UpdatesMax   \* ALT_SCREEN_MAX_UPDATES_PER_SEC

\* Assumed by the modules that instantiate this one.
CaptureAssumption ==
  /\ \A s \in Streams : DOMAIN s = {"bytes", "length"}
  /\ {LineMax, PayloadMax, UpdatesMax} \subseteq Nat \ {0}

VARIABLES
  stream,   \* the kind of input of this behaviour
  input,    \* history: the bytes read so far
  ansi,     \* AnsiFilter: state, escSeen, the CSI buffer, stringLen
  line,     \* the partial record
  cr,       \* prevWasCr and pendingBlank
  alt,      \* snapshot_mode
  dirty,    \* the screen changed since its last snapshot
  rate,     \* RateLimit: snapshot id, sent and warned in this window
  records,  \* what went to the run's sink
  silent,   \* history: bytes since the filter was last in its ground state
  open      \* the stream has not ended

vars == <<stream, input, ansi, line, cr, alt, dirty, rate, records, silent,
          open>>

Controls == {"esc", "bel", "cr", "lf"}
Strings == [c \in {"]", "P", "^", "_"} |->
  CASE c = "]" -> "osc" [] c = "P" -> "dcs" [] c = "^" -> "pm" [] c = "_" -> "apc"]
\* The symbols whose bytes are in 0x40..0x7e: any of them ends a CSI sequence.
Finals == {"m", "J", "h", "l", "x", "[", "st"} \cup DOMAIN Strings
Ground == [state |-> "ground", escSeen |-> FALSE, csi |-> <<>>, len |-> 0]
NoCr == [prev |-> FALSE, blank |-> FALSE]

Text(l) == [kind |-> "append", line |-> l]
Screen(id) == [kind |-> "snapshot", id |-> id]
Warning == [kind |-> "warning"]

-----------------------------------------------------------------------------
(***************************************************************************)
(* AnsiFilter::push: the filter's next state, what it lets through, and    *)
(* whether a screen was cleared.                                           *)
(***************************************************************************)

\* AnsiFilter::advance_string_len.
Longer(f) ==
  IF f.len + 1 > PayloadMax THEN Ground ELSE [f EXCEPT !.len = @ + 1]

\* AnsiFilter::push_string: inside OSC, DCS, PM and APC.
PushString(f, b) ==
  LET g == [f EXCEPT !.escSeen = FALSE]
      h == IF f.escSeen THEN Longer(g) ELSE g   \* that ESC was payload
  IN  CASE f.escSeen /\ b = "st" -> Ground
        [] ~(f.escSeen /\ b = "st") /\ h.state = "ground" -> h
        [] h.state # "ground" /\ b = "c1" -> Ground
        [] h.state = "osc" /\ b = "bel" -> Ground
        [] h.state # "ground" /\ b = "esc" -> [h EXCEPT !.escSeen = TRUE]
        [] OTHER -> Longer(h)

PushEscape(b) ==
  CASE b = "[" -> [Ground EXCEPT !.state = "csi", !.csi = <<"esc", "[">>]
    [] b \in DOMAIN Strings -> [Ground EXCEPT !.state = Strings[b]]
    [] b = "(" -> [Ground EXCEPT !.state = "charset"]
    [] OTHER -> Ground

PushCsi(f, b) ==
  IF Len(f.csi) + 1 > PayloadMax + 2 \/ b \in Finals
    THEN Ground ELSE [f EXCEPT !.csi = Append(@, b)]

Filtered(f, b) ==
  CASE f.state = "ground" /\ b = "esc" -> [Ground EXCEPT !.state = "esc"]
    [] f.state = "ground" /\ b # "esc" -> Ground
    [] f.state = "esc" -> PushEscape(b)
    [] f.state = "charset" -> Ground
    [] f.state = "csi" -> PushCsi(f, b)
    [] OTHER -> PushString(f, b)

CsiEnds(f, b) ==
  f.state = "csi" /\ b \in Finals /\ Len(f.csi) + 1 <= PayloadMax + 2

Passed(f, b) ==
  CASE f.state = "ground" /\ b \notin Controls -> <<b>>
    [] CsiEnds(f, b) /\ b = "m" -> Append(f.csi, b)
    [] OTHER -> <<>>

ClearsScreen(f, b) == CsiEnds(f, b) /\ b = "J"

-----------------------------------------------------------------------------
(* Records. *)

RECURSIVE WithoutTrailing(_, _)
WithoutTrailing(l, bytes) ==
  IF l # <<>> /\ Last(l) \in bytes THEN WithoutTrailing(Front(l), bytes) ELSE l

\* flush: a partial line, without its trailing blanks, and nothing if empty.
Flushed(l) ==
  LET t == WithoutTrailing(l, {" "})
  IN  IF t = <<>> THEN <<>> ELSE <<Text(t)>>

\* bounded_line_split: not between the bytes of a character.
RECURSIVE BackToBoundary(_, _)
BackToBoundary(l, n) ==
  IF n > 0 /\ n < Len(l) /\ l[n + 1] \in {"cont", "c1"}
    THEN BackToBoundary(l, n - 1) ELSE n

BoundedLineSplit(l) ==
  LET limit == IF Len(l) < LineMax THEN Len(l) ELSE LineMax
      n == BackToBoundary(l, limit)
  IN  IF n = 0 THEN limit ELSE n

\* Mutant: a second CR defers a blank line too.
CarriageReturnAlwaysBlank ==
  /\ IF line = <<>> THEN UNCHANGED records ELSE records' = Append(records, Text(line))
  /\ line' = <<>>
  /\ cr' = [prev |-> TRUE, blank |-> cr.blank \/ line = <<>>]

\* A CR at the start of a line is a cursor no-op unless an LF completes it.
CarriageReturn ==
  /\ IF line = <<>> THEN UNCHANGED records ELSE records' = Append(records, Text(line))
  /\ line' = <<>>
  /\ cr' = [prev |-> TRUE,
            blank |-> cr.blank \/ (line = <<>> /\ ~cr.prev)]

LineFeed ==
  /\ IF cr.blank \/ ~cr.prev
       THEN records' = Append(records, Text(line)) /\ line' = <<>>
       ELSE UNCHANGED <<records, line>>
  /\ cr' = NoCr

\* Any other byte outside the alternate screen.
Visible(b) ==
  LET l == line \o Passed(ansi, b)
      flushed == IF ClearsScreen(ansi, b) THEN Flushed(l) ELSE <<>>
      rest == IF flushed # <<>> \/ (ClearsScreen(ansi, b) /\ Flushed(l) = <<>>)
                THEN <<>> ELSE l
      n == BoundedLineSplit(rest)
  IN  /\ IF Len(rest) >= LineMax
           THEN /\ records' = records \o Flushed(SubSeq(rest, 1, n))
                /\ line' = SubSeq(rest, n + 1, Len(rest))
           ELSE /\ records' = records \o flushed
                /\ line' = rest
      /\ cr' = NoCr

LineBreakVisible == ~alt /\ ansi.state = "ground"

\* What a byte does to the records before the emulator sees it.
Captured(b) ==
  CASE LineBreakVisible /\ b = "cr" -> CarriageReturn
    [] LineBreakVisible /\ b = "lf" -> LineFeed
    [] ~alt /\ ~(LineBreakVisible /\ b \in {"cr", "lf"}) -> Visible(b)
    [] OTHER -> cr' = NoCr /\ UNCHANGED <<records, line>>

FilterNext(b) ==
  IF LineBreakVisible /\ b \in {"cr", "lf"} THEN ansi ELSE Filtered(ansi, b)

-----------------------------------------------------------------------------
Feed(b) ==
  /\ open /\ Len(input) < stream.length
  /\ input' = Append(input, b)
  /\ ansi' = FilterNext(b)
  /\ silent' = IF ansi'.state = "ground" THEN 0 ELSE silent + 1
  /\ UNCHANGED <<stream, open>>

\* A byte that leaves the emulator's screen mode as it is.
Read(b) ==
  /\ ~(CsiEnds(ansi, b) /\ b = IF alt THEN "l" ELSE "h")
  /\ Feed(b)
  /\ Captured(b)
  /\ dirty' = (dirty \/ alt)
  /\ UNCHANGED <<alt, rate>>

\* The last byte of a switch between the screens, RateLimit::set_alt_screen.
Switch(b) ==
  /\ CsiEnds(ansi, b) /\ b = IF alt THEN "l" ELSE "h"
  /\ Feed(b)
  /\ alt' = ~alt /\ dirty' = ~alt
  /\ records' = IF ~alt /\ line # <<>> THEN Append(records, Text(line)) ELSE records
  /\ line' = <<>> /\ cr' = NoCr
  /\ rate' = [id |-> rate.id + 1, sent |-> 0, warned |-> FALSE]

\* emit_snapshot at the end of a chunk, when 250 ms have passed, with
\* RateLimit::snapshot_decision.
Snapshot ==
  /\ open /\ alt /\ dirty
  /\ dirty' = FALSE
  /\ \/ /\ rate.sent < UpdatesMax
        /\ records' = Append(records, Screen(rate.id))
        /\ rate' = [rate EXCEPT !.sent = @ + 1]
     \/ /\ rate.sent >= UpdatesMax
        /\ records' = IF rate.warned THEN records ELSE Append(records, Warning)
        /\ rate' = [rate EXCEPT !.warned = TRUE]
  /\ UNCHANGED <<stream, input, ansi, line, cr, alt, silent, open>>

\* A new one-second window of the rate limit.
NewWindow ==
  /\ open /\ alt /\ rate.sent > 0
  /\ rate' = [rate EXCEPT !.sent = 0, !.warned = FALSE]
  /\ UNCHANGED <<stream, input, ansi, line, cr, alt, dirty, records, silent,
                 open>>

\* finish_stream: the last frame, whatever the rate, or the last partial line.
Finish ==
  /\ open
  /\ open' = FALSE
  /\ records' = IF alt THEN Append(records, Screen(rate.id))
                       ELSE records \o Flushed(line)
  /\ dirty' = FALSE
  /\ UNCHANGED <<stream, input, ansi, line, cr, alt, rate, silent>>

Init ==
  /\ stream \in Streams
  /\ input = <<>> /\ ansi = Ground /\ line = <<>> /\ cr = NoCr
  /\ alt = FALSE /\ dirty = FALSE
  /\ rate = [id |-> 0, sent |-> 0, warned |-> FALSE]
  /\ records = <<>> /\ silent = 0 /\ open = TRUE

Next ==
  \/ \E b \in stream.bytes : Read(b) \/ Switch(b)
  \/ Snapshot \/ NewWindow \/ Finish

Spec == Init /\ [][Next]_vars

-----------------------------------------------------------------------------
(* The reference: what a terminal shows of plain text.  A newline ends a line; *)
(* its carriage returns cut it into the parts that were visible one after the  *)
(* other; a line with no visible part is blank, and the rest at the end of the *)
(* stream counts only as far as something is in it.                            *)
Pieces(l) ==
  LET cuts == {0, Len(l) + 1} \cup {i \in DOMAIN l : l[i] = "cr"}
      inner == {<<i, j>> \in cuts \X cuts :
                  i + 1 < j /\ \A k \in cuts : k <= i \/ k >= j}
  IN  [n \in 1..Cardinality(inner) |->
         LET p == CHOOSE q \in inner :
                    Cardinality({r \in inner : r[1] < q[1]}) = n - 1
         IN  SubSeq(l, p[1] + 1, p[2] - 1)]

RECURSIVE Shown(_)
Shown(bytes) ==
  LET feeds == {i \in DOMAIN bytes : bytes[i] = "lf"}
  IN  IF feeds = {}
        THEN LET p == Pieces(bytes)
                 closed == p # <<>> /\ Last(bytes) = "cr"
             IN  IF p = <<>> THEN <<>>
                 ELSE IF closed THEN p
                 ELSE LET t == WithoutTrailing(Last(p), {" "})
                      IN  Front(p) \o (IF t = <<>> THEN <<>> ELSE <<t>>)
        ELSE LET n == CHOOSE i \in feeds : \A j \in feeds : i <= j
                 p == Pieces(SubSeq(bytes, 1, n - 1))
             IN  (IF p = <<>> THEN <<<<>>>> ELSE p)
                   \o Shown(SubSeq(bytes, n + 1, Len(bytes)))

Plain == {"cr", "lf", "x", " "}

(* The records of a plain stream are the lines that a terminal shows of it:   *)
(* a CR doubled on either side of its newline adds none, a blank line is not   *)
(* lost (the reader loop's deferred CR); and a control sequence that never     *)
(* ends silences the log only for as long as its payload may be: then text is  *)
(* captured again (AnsiFilter).                                                *)
RecordsFaithful ==
  /\ (~open /\ stream.bytes = Plain /\ Len(input) < LineMax)
       => records = [n \in DOMAIN Shown(input) |-> Text(Shown(input)[n])]
  /\ silent <= PayloadMax + 3
=============================================================================
