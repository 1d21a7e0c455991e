-------------------------------- MODULE Replies --------------------------------
(***************************************************************************)
(* How the control server makes an answer fit a frame: pages of logs and   *)
(* events, a history of health attempts and a description are cut by       *)
(* binary searches over their encoded length, and what is still too long   *)
(* is refused.  A length is counted in bytes of JSON; a character has the  *)
(* length of its escaped form.                                             *)
(***************************************************************************)
EXTENDS Naturals, Sequences
LOCAL INSTANCE SequencesExt

CONSTANTS
  Kinds,      \* the requests asked
  Sources,    \* what they find: sequences of items [command, body]
  Asked,      \* the tails asked for
  TailMax,    \* MAX_LOG_TAIL, MAX_EVENT_TAIL
  Fixed,      \* the length of an item without its texts
  Envelope,   \* the length of an answer without items and truncated flag
  FrameMax    \* RESPONSE_MAX_BYTES

RepliesAssumption ==
  /\ Kinds \subseteq {"logs", "run", "latest", "follow", "events", "events after",
                      "health", "history", "description"}
  /\ {TailMax, Fixed, Envelope, FrameMax} \subseteq Nat \ {0}
  /\ Asked \subseteq Nat \ {0}
  /\ Envelope + Fixed + 5 <= FrameMax  \* an item without text fits

VARIABLES request, reply, wire
vars == <<request, reply, wire>>

-----------------------------------------------------------------------------
(* Lengths.                                                                 *)

Sum(widths) == FoldLeft(LAMBDA total, width : total + width, 0, widths)
Smaller(m, n) == IF m < n THEN m ELSE n
FirstOf(seq, n) == SubSeq(seq, 1, Smaller(n, Len(seq)))
LastOf(seq, n) == SubSeq(seq, Len(seq) - Smaller(n, Len(seq)) + 1, Len(seq))

Separators(items) == IF items = <<>> THEN 0 ELSE Len(items) - 1
Length(item) == Fixed + Sum(item.command) + Sum(item.body)

\* The JSON words true and false.
Flag(kind, truncated) ==
  IF kind \in {"health", "history"} THEN 0 ELSE IF truncated THEN 4 ELSE 5

\* encoded_len.
Encoded(kind, items, truncated) ==
  Envelope + Flag(kind, truncated) + Separators(items)
    + Sum([i \in DOMAIN items |-> Length(items[i])])

\* logs_fit, events_response_fits, health_history_fits.
Fits(kind, items, truncated) == Encoded(kind, items, truncated) <= FrameMax

\* The searches: the largest of 0..n that fits, zero untried, and the smallest.
Largest(fits, n) ==
  LET search[range \in (0 .. n) \X (0 .. n)] ==
        LET low == range[1]
            high == range[2]
            middle == low + (high - low + 1) \div 2
        IN  IF low >= high THEN low
            ELSE IF fits[middle] THEN search[<<middle, high>>] ELSE search[<<low, middle - 1>>]
  IN  search[<<0, n>>]

Smallest(fits, n) ==
  LET search[range \in (0 .. n) \X (0 .. n)] ==
        LET low == range[1]
            high == range[2]
            middle == low + (high - low) \div 2
        IN  IF low >= high THEN low
            ELSE IF fits[middle] THEN search[<<low, middle>>] ELSE search[<<middle + 1, high>>]
  IN  search[<<0, n>>]

-----------------------------------------------------------------------------
(* Cutting.                                                                 *)

\* fit_single_log_line: whole characters of one end.
FitSingle(kind, item, keepTail) ==
  LET n == Len(item.body)
      cut(k) == [item EXCEPT !.body = IF keepTail THEN LastOf(@, k) ELSE FirstOf(@, k)]
      fits == [k \in 0 .. n |-> Fits(kind, <<cut(k)>>, TRUE)]
      best == cut(Largest(fits, n))
  IN  IF Fits(kind, <<best>>, TRUE) THEN <<best>> ELSE <<>>

\* bound_tail_response_lines: the most recent lines, or the end of the last.
BoundTail(kind, lines) ==
  LET n == Len(lines)
      fits == [k \in 0 .. n |-> Fits(kind, LastOf(lines, n - k), TRUE)]
      dropped == Smallest(fits, n)
  IN  IF Fits(kind, lines, TRUE) THEN [items |-> lines, cut |-> FALSE]
      ELSE [cut |-> TRUE, items |->
              IF dropped = n THEN FitSingle(kind, lines[n], TRUE) ELSE LastOf(lines, n - dropped)]

\* bound_follow_response_lines: the oldest, or the beginning of the first.
BoundFollow(kind, lines) ==
  LET n == Len(lines)
      fits == [k \in 0 .. n |-> Fits(kind, FirstOf(lines, k), TRUE)]
      kept == Largest(fits, n)
  IN  IF Fits(kind, lines, TRUE) THEN [items |-> lines, cut |-> FALSE]
      ELSE [cut |-> TRUE, items |->
              IF kept = 0 THEN FitSingle(kind, lines[1], FALSE) ELSE FirstOf(lines, kept)]

\* bound_events: whole events of one end.
BoundEvents(kind, events, truncated, keepTail) ==
  LET n == Len(events)
      keep(k) == IF keepTail THEN LastOf(events, k) ELSE FirstOf(events, k)
      fits == [k \in 0 .. n |-> Fits(kind, keep(k), TRUE)]
  IN  IF Fits(kind, events, truncated) THEN [items |-> events, truncated |-> truncated]
      ELSE [items |-> keep(Largest(fits, n)), truncated |-> TRUE]

\* Mutant: only the output is shortened.
TrimOutputOnly(kind, attempt) ==
  LET n == Len(attempt.body)
      output(k) == [attempt EXCEPT !.body = LastOf(@, k)]
  IN  output(Largest([k \in 0 .. n |-> Fits(kind, <<output(k)>>, TRUE)], n))

\* trim_health_attempt_to_fit: the last lines of output, then the end of the command.
TrimAttempt(kind, attempt) ==
  LET n == Len(attempt.body)
      m == Len(attempt.command)
      output(k) == [attempt EXCEPT !.body = LastOf(@, k)]
      trimmed == output(Largest([k \in 0 .. n |-> Fits(kind, <<output(k)>>, TRUE)], n))
      command(k) == [trimmed EXCEPT !.command = LastOf(@, m - k)]
      fits == [k \in 0 .. m |-> Fits(kind, <<command(k)>>, TRUE)]
  IN  IF Fits(kind, <<trimmed>>, TRUE) THEN trimmed ELSE command(Smallest(fits, m))

\* bound_health_history, and bound_health_attempt of one attempt.
BoundHistory(kind, attempts) ==
  LET n == Len(attempts)
      kept == Largest([k \in 0 .. n |-> Fits(kind, LastOf(attempts, k), TRUE)], n)
      page == LastOf(attempts, IF kept = 0 THEN 1 ELSE kept)
  IN  IF Fits(kind, attempts, TRUE) THEN attempts
      ELSE IF Fits(kind, page, TRUE) THEN page
      ELSE [page EXCEPT ![1] = TrimAttempt(kind, @)]

-----------------------------------------------------------------------------
(* The answers, as the handlers make them.                                  *)

TailFor(asked) == Smaller(asked, TailMax)

\* get_logs, of the visible log or of a run.
GetLogs(kind, lines, asked) ==
  LET page == LastOf(lines, TailFor(asked))
      more == \/ asked > TailMax /\ Len(page) >= TailFor(asked)
              \/ kind = "run" /\ TailFor(asked) = TailMax /\ Len(lines) > Len(page)
      bound == BoundTail(kind, page)
  IN  [page |-> page, items |-> bound.items, truncated |-> more \/ bound.cut]

\* follow_logs, from the latest lines or after a cursor; lines are those behind
\* it.  A page after a cursor that leaves out lines is not bounded: the || of
\* bound_follow_response_lines_page does not come to it.
FollowLogs(kind, lines) ==
  LET capped == Len(lines) > TailMax
      page == IF kind = "latest" THEN LastOf(lines, TailMax) ELSE FirstOf(lines, TailMax)
      bound == CASE kind = "latest" -> BoundTail(kind, page)
                 [] kind = "follow" /\ capped -> [items |-> page, cut |-> FALSE]
                 [] OTHER -> BoundFollow(kind, page)
  IN  [page |-> page, items |-> bound.items, truncated |-> capped \/ bound.cut]

\* get_events, the latest or those after a cursor.
GetEvents(kind, events, asked) ==
  LET page == IF kind = "events" THEN LastOf(events, TailFor(asked)) ELSE FirstOf(events, TailFor(asked))
      bound == BoundEvents(kind, page, Len(events) > TailFor(asked), kind = "events")
  IN  [page |-> page, items |-> bound.items, truncated |-> bound.truncated]

Health(kind, attempts) ==
  LET page == IF kind = "health" THEN LastOf(attempts, 1) ELSE attempts
  IN  [page |-> page, items |-> BoundHistory(kind, page), truncated |-> FALSE]

Reply(kind, source, asked) ==
  CASE kind \in {"logs", "run"} -> GetLogs(kind, source, asked)
    [] kind \in {"latest", "follow"} -> FollowLogs(kind, source)
    [] kind \in {"events", "events after"} -> GetEvents(kind, source, asked)
    [] kind \in {"health", "history"} -> Health(kind, source)
    [] OTHER -> [page |-> source, items |-> source, truncated |-> FALSE]

\* response_within_frame: only a description is still shortened, by its services.
WithinFrame(kind, answer) ==
  LET n == Len(answer.items)
      kept == Largest([k \in 0 .. n |-> Fits(kind, FirstOf(answer.items, k), TRUE)], n)
  IN  IF Fits(kind, answer.items, answer.truncated)
      THEN [is |-> "sent", items |-> answer.items, truncated |-> answer.truncated]
      ELSE IF kind = "description"
      THEN [is |-> "sent", items |-> FirstOf(answer.items, kept), truncated |-> TRUE]
      ELSE [is |-> "refused", items |-> <<>>, truncated |-> FALSE]

Nothing == [page |-> <<>>, items |-> <<>>, truncated |-> FALSE]
Unsent == [is |-> "unsent", items |-> <<>>, truncated |-> FALSE]

Init ==
  /\ request \in [kind : Kinds, source : Sources, asked : Asked]
  \* Only an attempt has a command.
  /\ request.kind \notin {"health", "history"} =>
       \A i \in DOMAIN request.source : request.source[i].command = <<>>
  \* The scheduler's event details are short.
  /\ request.kind \in {"events", "events after"} =>
       \A i \in DOMAIN request.source : Fits(request.kind, <<request.source[i]>>, TRUE)
  /\ reply = Nothing /\ wire = Unsent

\* dispatch and write_response.
Answer ==
  /\ wire = Unsent
  /\ reply' = Reply(request.kind, request.source, request.asked)
  /\ wire' = WithinFrame(request.kind, reply')
  /\ UNCHANGED request

Next == Answer
Spec == Init /\ [][Next]_vars

-----------------------------------------------------------------------------
(* Properties.                                                              *)

Newest == {"logs", "run", "latest", "events", "health", "history"}
End(seq, n) == IF request.kind \in Newest THEN LastOf(seq, n) ELSE FirstOf(seq, n)

\* An answer is the longest run of whole items, from the end that the request
\* is about, that fits a frame; of a single item that does not fit as much
\* text is kept as fits, and never nothing; and an answer that leaves out
\* anything of its page says so (the bound_ functions). Otherwise a
\* follower's cursor passes over lines, or it asks for the same page for ever.
\* The page that FollowReachesAll is about is not bounded.
Kept == IF request.kind = "description" THEN wire ELSE reply
Longest ==
  LET whole == {i \in DOMAIN reply.page : Fits(request.kind, End(reply.page, i), TRUE)}
  IN  IF whole = {} THEN 0 ELSE CHOOSE i \in whole : \A j \in whole : j <= i

OnlyText ==
  LET item == End(reply.page, 1)[1]
      one == Kept.items[1]
      n == Len(one.body) + 1
      longer == [item EXCEPT !.body = IF request.kind = "follow" THEN FirstOf(@, n) ELSE LastOf(@, n)]
  IN  Len(Kept.items) = 1 /\ ~ Fits(request.kind, <<longer>>, TRUE)

Capped == request.kind = "follow" /\ Len(request.source) > TailMax

PagesFit ==
  wire # Unsent /\ ~ Capped =>
    /\ Fits(request.kind, Kept.items, TRUE)
    /\ \/ Kept.items = End(reply.page, Longest) /\ (Longest > 0 \/ reply.page = <<>>)
       \/ Longest = 0 /\ reply.page # <<>> /\ OnlyText
       \/ Longest = 0 /\ request.kind = "description"
    /\ Kept.items # reply.page => Kept.truncated \/ request.kind \in {"health", "history"}

\* "a run longer than MAX_LOG_TAIL is fully reachable by following `next_seq`"
\* (server/unix.rs:713): a follower with more lines behind its cursor than go
\* into a page is sent a page.  It is refused if they are long.
FollowReachesAll == Capped => wire.is # "refused"
=============================================================================
