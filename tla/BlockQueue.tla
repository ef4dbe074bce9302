----------------------------- MODULE BlockQueue -----------------------------
(***************************************************************************)
(* The download queue of the sync (cryptonote_protocol/block_queue.cpp).   *)
(* A queue q is a record of                                                *)
(*   spans       start height -> span; std::set<span> orders spans by      *)
(*               their start height alone, so there is one per height      *)
(*   requested   requested_hashes                                          *)
(*   have        have_blocks                                               *)
(* A span has the connection it was given to, the hashes asked for and the *)
(* blocks received; it is scheduled as long as it has no blocks.  old says *)
(* that the time since it was asked for has passed the threshold after     *)
(* which it may be asked for again.  Every operation holds the queue's     *)
(* mutex, and is an operator from a queue to a queue.                      *)
(***************************************************************************)
EXTENDS Integers, Sequences, FiniteSetsExt, TLC

Last(s) == s[Len(s)]

EmptyQueue == [spans |-> <<>>, requested |-> {}, have |-> {}]

Filled(s) == s.blocks # <<>>
nblocks(s) == IF Filled(s) THEN Len(s.blocks) ELSE Len(s.hashes)

HashesOf(q, H) == UNION {Range(q.spans[h].hashes) : h \in H}

(* Mutant of erase_block: requested_hashes is not cleaned.                 *)
EraseKeepsRequested(q, H) ==
  [spans |-> Restrict(q.spans, DOMAIN q.spans \ H),
   requested |-> q.requested,
   have |-> q.have \ HashesOf(q, H)]

(* Erase the spans at the heights H, with their hashes.                    *)
erase_block(q, H) ==
  [spans |-> Restrict(q.spans, DOMAIN q.spans \ H),
   requested |-> q.requested \ HashesOf(q, H),
   have |-> q.have \ HashesOf(q, H)]

(* The heights of c's spans, and of the filled ones; get_next_span returns *)
(* the lowest of these.                                                    *)
SpansOf(q, c) == {h \in DOMAIN q.spans : q.spans[h].conn = c}
FilledAt(q) == {h \in DOMAIN q.spans : Filled(q.spans[h])}

flush_spans(q, c, all) ==
  erase_block(q, IF all THEN SpansOf(q, c) ELSE SpansOf(q, c) \ FilledAt(q))

flush_stale_spans(q, live) ==
  erase_block(q, (DOMAIN q.spans \ FilledAt(q)) \ UNION {SpansOf(q, c) : c \in live})

remove_spans(q, c, start) ==
  erase_block(q, {h \in SpansOf(q, c) : h <= start})

(* blocks.insert of a span at a height that has none.                      *)
Insert(spans, start, s) ==
  [h \in DOMAIN spans \cup {start} |-> IF h = start THEN s ELSE spans[h]]

(* Mutant of set_span_hashes: whoever's the span is.                       *)
SetAnyones(q, start, c, hs) ==
  IF start \notin DOMAIN q.spans THEN q
  ELSE LET r == erase_block(q, {start})
       IN  [r EXCEPT !.spans = Insert(@, start, [q.spans[start] EXCEPT !.hashes = hs]),
                     !.requested = @ \cup Range(hs)]

(* The span at start, if it is c's, gets new hashes.                       *)
set_span_hashes(q, start, c, hs) ==
  IF start \notin DOMAIN q.spans THEN q
  ELSE IF q.spans[start].conn # c THEN q
  ELSE LET r == erase_block(q, {start})
       IN  [r EXCEPT !.spans = Insert(@, start, [q.spans[start] EXCEPT !.hashes = hs]),
                     !.requested = @ \cup Range(hs)]

(* The blocks bs came from c: the span at that height, whoever it was      *)
(* given to, is replaced by a filled one that takes over its hashes.       *)
add_blocks(q, start, bs, c) ==
  LET known == start \in DOMAIN q.spans
      hs == IF known THEN q.spans[start].hashes ELSE <<>>
      r == erase_block(q, {start} \cap DOMAIN q.spans)
      s == [conn |-> c, hashes |-> <<>>, blocks |-> bs, old |-> FALSE]
      n == [r EXCEPT !.spans = Insert(@, start, s)]
  IN  IF ~known THEN n
      ELSE set_span_hashes([n EXCEPT !.requested = @ \cup Range(hs),
                                     !.have = @ \cup Range(hs)], start, c, hs)

(* The scheduled-span overload of add_blocks: insert does nothing at a     *)
(* height that has a span.                                                 *)
Schedule(q, start, c) ==
  IF start \in DOMAIN q.spans THEN q
  ELSE [q EXCEPT !.spans = Insert(@, start,
          [conn |-> c, hashes |-> <<>>, blocks |-> <<>>, old |-> FALSE])]

(* The elements of hs that are in S, in their order (SelectSeq, unrolled). *)
Among(hs, S) ==
  LET kept[n \in 0 .. Len(hs)] ==
        IF n = 0 THEN <<>>
        ELSE IF hs[n] \in S THEN Append(kept[n - 1], hs[n]) ELSE kept[n - 1]
  IN  kept[Len(hs)]

(* How many leading elements of hs are in S.                               *)
Leading(hs, S) ==
  LET stops == {i \in DOMAIN hs : hs[i] \notin S}
  IN  IF stops = {} THEN Len(hs) ELSE Min(stops) - 1

NoSpan(q) == [n |-> 0, start |-> 0, hashes |-> <<>>, q |-> q]

(* Give c the first hashes of hs that nobody has asked for, at most max.   *)
(* hs ends at height last.                                                 *)
reserve_span(q, last, max, c, hs) ==
  LET skip == Leading(hs, q.requested)
      start == last - Len(hs) + 1 + skip
      take == SubSeq(hs, skip + 1, Min({skip + max, Len(hs)}))
  IN  IF hs = <<>> \/ Len(hs) > last \/ take = <<>> THEN NoSpan(q)
      ELSE [n |-> Len(take), start |-> start, hashes |-> take,
            q |-> set_span_hashes(Schedule(q, start, c), start, c, take)]

(* blocks.begin().                                                         *)
First(q) == Min(DOMAIN q.spans)

(* The hashes of the first span if it is scheduled.                        *)
get_next_span_if_scheduled(q) ==
  IF q.spans = <<>> THEN <<>>
  ELSE IF Filled(q.spans[First(q)]) THEN <<>> ELSE q.spans[First(q)].hashes

(* Would reset_next_span_time throw?                                       *)
ResetThrows(q) == q.spans = <<>> \/ Filled(q.spans[First(q)])

reset_next_span_time(q) == [q EXCEPT !.spans[First(q)].old = FALSE]

(* has_next_span(height): is there a span at or below height?              *)
has_next_span(q, height) == q.spans # <<>> /\ First(q) <= height

get_data_size(q) ==
  MapThenSumSet(LAMBDA h : Len(q.spans[h].blocks), DOMAIN q.spans)

(* The first height from bc on that the queue does not cover without a     *)
(* gap, or whose span heads the queue and is only scheduled.               *)
get_next_needed_height(q, bc) ==
  LET ends == {h \in DOMAIN q.spans : h + nblocks(q.spans[h]) - 1 >= bc}
      after(h) == {k \in ends : k > h}
      run[h \in ends] ==
        LET e == h + nblocks(q.spans[h])
        IN  IF after(h) = {} \/ Min(after(h)) # e THEN e ELSE run[e]
  IN  IF ends = {} THEN bc
      ELSE IF Min(ends) # bc \/ ~Filled(q.spans[bc]) THEN bc ELSE run[bc]
=============================================================================
