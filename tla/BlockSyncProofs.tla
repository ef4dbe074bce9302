-------------------------- MODULE BlockSyncProofs ----------------------------
(***************************************************************************)
(* Proofs about the sync for any connections, chains and limits, and any   *)
(* interleaving of handlers, timers, answers and closed connections.       *)
(* First, by operation of the queue: what requested_hashes and have_blocks *)
(* say is backed by spans.  Second, by what each action does to a context: *)
(* what a connection has asked for is on its way.  Third, what the         *)
(* operations do to the hashes of a span: they stay a run of blocks, each  *)
(* the parent of the next.                                                 *)
(***************************************************************************)
EXTENDS BlockSync, WellFoundedInduction, TLAPS

(* What the operations need to know of a queue's shape.                    *)
IsQueue(r) ==
  /\ r = [spans |-> r.spans, requested |-> r.requested, have |-> r.have]
  /\ r.spans = [h \in DOMAIN r.spans |-> r.spans[h]]
  /\ \A h \in DOMAIN r.spans :
       r.spans[h] = [conn |-> r.spans[h].conn, hashes |-> r.spans[h].hashes,
                     blocks |-> r.spans[h].blocks, old |-> r.spans[h].old]

Backed(r) ==
  /\ r.requested \subseteq HashesOf(r, DOMAIN r.spans)
  /\ r.have \subseteq HashesOf(r, FilledAt(r))

Sound(r) == IsQueue(r) /\ Backed(r)
-----------------------------------------------------------------------------
(* Whose hash a member of HashesOf is.                                     *)
LEMMA InHashes ==
  ASSUME NEW r, NEW H, NEW b
  PROVE  b \in HashesOf(r, H) <=> \E h \in H : b \in Range(r.spans[h].hashes)
BY DEF HashesOf

(* Erasing spans with their hashes.                                        *)
LEMMA EraseSound ==
  ASSUME NEW r, Sound(r), NEW H
  PROVE  /\ Sound(erase_block(r, H))
         /\ DOMAIN erase_block(r, H).spans = DOMAIN r.spans \ H
<1> DEFINE e == erase_block(r, H)
           D == DOMAIN r.spans
<1>1. /\ e = [spans |-> e.spans, requested |-> e.requested, have |-> e.have]
      /\ e.spans = [h \in D \ H |-> r.spans[h]]
      /\ e.requested = r.requested \ HashesOf(r, H)
      /\ e.have = r.have \ HashesOf(r, H)
  BY DEF erase_block, Restrict
<1>2. DOMAIN e.spans = D \ H /\ \A h \in D \ H : e.spans[h] = r.spans[h]
  BY <1>1
<1>3. IsQueue(e)
  BY <1>1, <1>2 DEF Sound, IsQueue
<1>4. ASSUME NEW b \in e.requested PROVE b \in HashesOf(e, DOMAIN e.spans)
  <2>1. b \in r.requested /\ b \notin HashesOf(r, H)
    BY <1>1, <1>4
  <2>2. PICK h \in D : b \in Range(r.spans[h].hashes)
    BY <2>1, InHashes DEF Sound, Backed
  <2>3. h \in D \ H
    BY <2>1, <2>2, InHashes
  <2> QED BY <1>2, <2>2, <2>3, InHashes
<1>5. ASSUME NEW b \in e.have PROVE b \in HashesOf(e, FilledAt(e))
  <2>1. b \in r.have /\ b \notin HashesOf(r, H)
    BY <1>1, <1>5
  <2>2. PICK h \in FilledAt(r) : b \in Range(r.spans[h].hashes)
    BY <2>1, InHashes DEF Sound, Backed
  <2>3. h \in FilledAt(e)
    BY <1>2, <2>1, <2>2, InHashes DEF FilledAt
  <2>4. e.spans[h] = r.spans[h]
    BY <1>2, <2>3 DEF FilledAt
  <2> QED BY <2>2, <2>3, <2>4, InHashes
<1> QED BY <1>2, <1>3, <1>4, <1>5 DEF Sound, Backed

(* The operations that only erase.                                         *)
LEMMA FlushSound ==
  ASSUME NEW r, Sound(r), NEW c, NEW S, NEW n
  PROVE  /\ Sound(flush_spans(r, c, TRUE)) /\ Sound(flush_spans(r, c, FALSE))
         /\ Sound(flush_stale_spans(r, S))
         /\ Sound(remove_spans(r, c, n))
BY EraseSound DEF flush_spans, flush_stale_spans, remove_spans

(* A span put at a height that has none; the sets gain only its hashes.    *)
LEMMA InsertSound ==
  ASSUME NEW r, Sound(r), NEW start, start \notin DOMAIN r.spans,
         NEW s, s = [conn |-> s.conn, hashes |-> s.hashes,
                     blocks |-> s.blocks, old |-> s.old],
         NEW R, R \subseteq r.requested \cup Range(s.hashes),
         NEW V, V \subseteq r.have \/ (/\ V \subseteq r.have \cup Range(s.hashes)
                                      /\ Filled(s))
  PROVE  Sound([spans |-> Insert(r.spans, start, s), requested |-> R, have |-> V])
<1> DEFINE e == [spans |-> Insert(r.spans, start, s), requested |-> R, have |-> V]
           D == DOMAIN r.spans
<1>1. e.spans = [h \in D \cup {start} |-> IF h = start THEN s ELSE r.spans[h]]
  BY DEF Insert
<1>2. /\ DOMAIN e.spans = D \cup {start} /\ e.spans[start] = s
      /\ \A h \in D : h # start /\ e.spans[h] = r.spans[h]
  BY <1>1
<1>3. IsQueue(e)
  BY <1>1, <1>2 DEF Sound, IsQueue
<1>4. ASSUME NEW b \in R PROVE b \in HashesOf(e, DOMAIN e.spans)
  <2>1. CASE b \in Range(s.hashes)
    BY <1>2, <2>1, InHashes
  <2>2. CASE b \in r.requested
    <3>1. PICK h \in D : b \in Range(r.spans[h].hashes)
      BY <2>2, InHashes DEF Sound, Backed
    <3> QED BY <1>2, <3>1, InHashes
  <2> QED BY <1>4, <2>1, <2>2
<1>5. ASSUME NEW b \in V PROVE b \in HashesOf(e, FilledAt(e))
  <2>1. CASE b \in Range(s.hashes) /\ Filled(s)
    <3>1. start \in FilledAt(e)
      BY <1>2, <2>1 DEF FilledAt
    <3> QED BY <1>2, <2>1, <3>1, InHashes
  <2>2. CASE b \in r.have
    <3>1. PICK h \in FilledAt(r) : b \in Range(r.spans[h].hashes)
      BY <2>2, InHashes DEF Sound, Backed
    <3>2. h \in FilledAt(e) /\ e.spans[h] = r.spans[h]
      BY <1>2, <3>1 DEF FilledAt
    <3> QED BY <3>1, <3>2, InHashes
  <2> QED BY <1>5, <2>1, <2>2
<1> QED BY <1>3, <1>4, <1>5 DEF Sound, Backed

(* Two of the three fields of a queue updated.                             *)
LEMMA UpdateTwo ==
  ASSUME NEW r, r = [spans |-> r.spans, requested |-> r.requested, have |-> r.have],
         NEW x, NEW y
  PROVE  [r EXCEPT !.spans = x, !.requested = y]
           = [spans |-> x, requested |-> y, have |-> r.have]
<1>1. [r EXCEPT !.spans = x]
        = [spans |-> x, requested |-> r.requested, have |-> r.have]
  OBVIOUS
<1>2. [[spans |-> x, requested |-> r.requested, have |-> r.have] EXCEPT !.requested = y]
        = [spans |-> x, requested |-> y, have |-> r.have]
  OBVIOUS
<1> QED BY <1>1, <1>2, Zenon

(* Giving a span other hashes.                                             *)
LEMMA SetHashesSound ==
  ASSUME NEW r, Sound(r), NEW start, NEW c, NEW hs
  PROVE  Sound(set_span_hashes(r, start, c, hs))
<1>1. CASE start \notin DOMAIN r.spans \/ r.spans[start].conn # c
  BY <1>1 DEF set_span_hashes
<1>2. CASE start \in DOMAIN r.spans /\ r.spans[start].conn = c
  <2> DEFINE e == erase_block(r, {start})
             s == [r.spans[start] EXCEPT !.hashes = hs]
             n == [spans |-> Insert(e.spans, start, s),
                   requested |-> e.requested \cup Range(hs), have |-> e.have]
  <2>1. Sound(e) /\ start \notin DOMAIN e.spans
    BY EraseSound
  <2>2. /\ s = [conn |-> s.conn, hashes |-> s.hashes, blocks |-> s.blocks, old |-> s.old]
        /\ s.hashes = hs
    BY <1>2 DEF Sound, IsQueue
  <2> HIDE DEF e, s
  <2>3. Sound(n)
    BY <2>1, <2>2, InsertSound
  <2>4. [e EXCEPT !.spans = Insert(@, start, s), !.requested = @ \cup Range(hs)] = n
    <3>1. e = [spans |-> e.spans, requested |-> e.requested, have |-> e.have]
      BY <2>1 DEF Sound, IsQueue
    <3> QED BY Zenon, <3>1, UpdateTwo
  <2> QED BY <1>2, <2>3, <2>4 DEF set_span_hashes, e, s
<1> QED BY <1>1, <1>2

(* A scheduled span without hashes.                                        *)
LEMMA ScheduleSound ==
  ASSUME NEW r, Sound(r), NEW start, NEW c
  PROVE  Sound(Schedule(r, start, c))
<1>1. CASE start \in DOMAIN r.spans
  BY <1>1 DEF Schedule
<1>2. CASE start \notin DOMAIN r.spans
  <2> DEFINE s == [conn |-> c, hashes |-> <<>>, blocks |-> <<>>, old |-> FALSE]
             n == [spans |-> Insert(r.spans, start, s),
                   requested |-> r.requested, have |-> r.have]
  <2>1. s = [conn |-> s.conn, hashes |-> s.hashes, blocks |-> s.blocks, old |-> s.old]
    OBVIOUS
  <2> HIDE DEF s
  <2>2. Sound(n)
    BY <1>2, <2>1, InsertSound
  <2>3. [r EXCEPT !.spans = Insert(@, start, s)] = n
    BY DEF Sound, IsQueue
  <2> QED BY <1>2, <2>2, <2>3 DEF Schedule, s
<1> QED BY <1>1, <1>2

(* Whatever reserve_span is asked for.                                     *)
LEMMA ReserveSound ==
  ASSUME NEW r, Sound(r), NEW last, NEW max, NEW c, NEW hs
  PROVE  Sound(reserve_span(r, last, max, c, hs).q)
BY ScheduleSound, SetHashesSound DEF reserve_span, NoSpan
(* The blocks of an answer, if it has any.                                 *)
LEMMA AddSound ==
  ASSUME NEW r, Sound(r), NEW start, NEW bs, bs # <<>>, NEW c
  PROVE  Sound(add_blocks(r, start, bs, c))
<1> DEFINE e == erase_block(r, {start} \cap DOMAIN r.spans)
           SpanOf(hs) == [conn |-> c, hashes |-> hs, blocks |-> bs, old |-> FALSE]
           n == [e EXCEPT !.spans = Insert(@, start, SpanOf(<<>>))]
<1>1. Sound(e) /\ start \notin DOMAIN e.spans
  BY EraseSound
<1>2. e = [spans |-> e.spans, requested |-> e.requested, have |-> e.have]
  BY <1>1 DEF Sound, IsQueue
<1> HIDE DEF e
<1>3. CASE start \notin DOMAIN r.spans
  <2> DEFINE s == SpanOf(<<>>)
  <2>1. s = [conn |-> s.conn, hashes |-> s.hashes, blocks |-> s.blocks, old |-> s.old]
    OBVIOUS
  <2>2. n = [spans |-> Insert(e.spans, start, s),
             requested |-> e.requested, have |-> e.have]
    BY <1>2
  <2> HIDE DEF s
  <2>3. Sound([spans |-> Insert(e.spans, start, s),
               requested |-> e.requested, have |-> e.have])
    BY Zenon, <1>1, <2>1, InsertSound
  <2> QED BY <1>3, <2>2, <2>3 DEF add_blocks, e
<1>4. CASE start \in DOMAIN r.spans
  <2> DEFINE hs == r.spans[start].hashes
             m == [n EXCEPT !.requested = @ \cup Range(hs), !.have = @ \cup Range(hs)]
             s == SpanOf(hs)
             z == [spans |-> Insert(e.spans, start, s),
                   requested |-> (e.requested \cup Range(hs)) \cup Range(hs),
                   have |-> e.have \cup Range(hs)]
             g == erase_block(m, {start})
  <2>1. s = [conn |-> s.conn, hashes |-> s.hashes, blocks |-> s.blocks, old |-> s.old]
    OBVIOUS
  <2>2. Filled(s) /\ s.hashes = hs
    BY DEF Filled
  <2>3. n = [spans |-> Insert(e.spans, start, SpanOf(<<>>)),
             requested |-> e.requested, have |-> e.have]
    BY <1>2
  <2>4. m = [spans |-> Insert(e.spans, start, SpanOf(<<>>)),
             requested |-> e.requested \cup Range(hs),
             have |-> e.have \cup Range(hs)]
    <3>0. n = [spans |-> n.spans, requested |-> n.requested, have |-> n.have]
      BY <2>3
    <3>1. /\ n.spans = Insert(e.spans, start, SpanOf(<<>>))
          /\ n.requested = e.requested /\ n.have = e.have
      BY <2>3
    <3> HIDE DEF n
    <3> DEFINE x == n.requested \cup Range(hs)
               y == n.have \cup Range(hs)
    <3>2. m = [n EXCEPT !.requested = x, !.have = y]
      OBVIOUS
    <3> HIDE DEF x, y
    <3>3. [n EXCEPT !.requested = x]
            = [spans |-> n.spans, requested |-> x, have |-> n.have]
      BY <3>0
    <3>4. [[spans |-> n.spans, requested |-> x, have |-> n.have] EXCEPT !.have = y]
            = [spans |-> n.spans, requested |-> x, have |-> y]
      OBVIOUS
    <3>5. [n EXCEPT !.requested = x, !.have = y]
            = [spans |-> n.spans, requested |-> x, have |-> y]
      BY <3>3, <3>4, Zenon
    <3> QED BY <3>1, <3>2, <3>5 DEF x, y
  <2> HIDE DEF m, n
  <2>5. /\ start \in DOMAIN m.spans /\ m.spans[start] = SpanOf(<<>>)
        /\ DOMAIN m.spans \ {start} = DOMAIN e.spans
        /\ \A h \in DOMAIN e.spans : m.spans[h] = e.spans[h]
    BY <1>1, <2>4 DEF Insert
  <2>6. HashesOf(m, {start}) = {}
    BY <2>5 DEF HashesOf, Range
  <2>7. /\ g = [spans |-> g.spans, requested |-> g.requested, have |-> g.have]
        /\ g.requested = e.requested \cup Range(hs)
        /\ g.have = e.have \cup Range(hs)
        /\ g.spans = [h \in DOMAIN e.spans |-> e.spans[h]]
    BY Zenon, <2>4, <2>5, <2>6 DEF erase_block, Restrict
  <2>8. g.spans = e.spans
    BY <1>1, <2>7 DEF Sound, IsQueue
  <2>9. [m.spans[start] EXCEPT !.hashes = hs] = s
    <3> DEFINE b == <<>>
               f == FALSE
               x == hs
    <3> HIDE DEF b, f, x
    <3>1. [[conn |-> c, hashes |-> b, blocks |-> bs, old |-> f] EXCEPT !.hashes = x]
            = [conn |-> c, hashes |-> x, blocks |-> bs, old |-> f]
      OBVIOUS
    <3>2. [SpanOf(<<>>) EXCEPT !.hashes = hs] = s
      BY <3>1, Zenon DEF b, f, x
    <3> QED BY <2>5, <3>2, Zenon
  <2>10. set_span_hashes(m, start, c, hs)
           = [g EXCEPT !.spans = Insert(@, start, [m.spans[start] EXCEPT !.hashes = hs]),
                       !.requested = @ \cup Range(hs)]
    BY <2>5 DEF set_span_hashes
  <2>11. add_blocks(r, start, bs, c) = set_span_hashes(m, start, c, hs)
    BY <1>4 DEF add_blocks, e, m, n
  <2> HIDE DEF s, g
  <2>12. set_span_hashes(m, start, c, hs) = z
    BY Zenon, <2>7, <2>8, <2>9, <2>10, UpdateTwo
  <2>13. Sound(z)
    BY Zenon, <1>1, <2>1, <2>2, InsertSound
  <2> QED BY <2>11, <2>12, <2>13
<1> QED BY <1>3, <1>4
(* The age of a span changes; at a height without one nothing does.        *)
LEMMA RetimeSound ==
  ASSUME NEW r, Sound(r), NEW h, NEW v
  PROVE  Sound([r EXCEPT !.spans[h].old = v])
<1> DEFINE f == [r.spans EXCEPT ![h] = [r.spans[h] EXCEPT !.old = v]]
           e == [spans |-> f, requested |-> r.requested, have |-> r.have]
           D == DOMAIN r.spans
<1>1. [r EXCEPT !.spans[h].old = v] = e
  BY DEF Sound, IsQueue
<1>2. DOMAIN f = D /\ f = [k \in D |-> f[k]]
  BY DEF Sound, IsQueue
<1>3. ASSUME NEW k \in D
      PROVE  /\ f[k].hashes = r.spans[k].hashes /\ f[k].blocks = r.spans[k].blocks
             /\ f[k] = [conn |-> f[k].conn, hashes |-> f[k].hashes,
                        blocks |-> f[k].blocks, old |-> f[k].old]
  <2>1. r.spans[k] = [conn |-> r.spans[k].conn, hashes |-> r.spans[k].hashes,
                      blocks |-> r.spans[k].blocks, old |-> r.spans[k].old]
    BY DEF Sound, IsQueue
  <2>2. CASE k # h
    BY <2>1, <2>2
  <2>3. CASE k = h
    <3>1. f[k] = [r.spans[k] EXCEPT !.old = v]
      BY <2>3
    <3> QED BY <2>1, <3>1
  <2> QED BY <2>2, <2>3
<1> HIDE DEF f
<1>4. IsQueue(e)
  BY <1>2, <1>3 DEF IsQueue
<1>5. ASSUME NEW b \in r.requested PROVE b \in HashesOf(e, D)
  <2>1. PICK k \in D : b \in Range(r.spans[k].hashes)
    BY InHashes DEF Sound, Backed
  <2> QED BY Zenon, <1>3, <2>1, InHashes
<1>6. ASSUME NEW b \in r.have PROVE b \in HashesOf(e, FilledAt(e))
  <2>1. PICK k \in FilledAt(r) : b \in Range(r.spans[k].hashes)
    BY InHashes DEF Sound, Backed
  <2>2. k \in FilledAt(e)
    BY Zenon, <1>2, <1>3, <2>1 DEF FilledAt, Filled
  <2> QED BY Zenon, <1>3, <2>1, <2>2, InHashes DEF FilledAt
<1> QED BY <1>1, <1>2, <1>4, <1>5, <1>6 DEF Sound, Backed
-----------------------------------------------------------------------------
(* The ways a step leaves the queue.                                       *)
LEMMA DropSound ==
  ASSUME NEW r, Sound(r), NEW c, Drop(c, r)
  PROVE  Sound(q')
BY Zenon, FlushSound DEF Drop

(* The end of request_missing_objects.                                     *)
LEMMA FinishSound ==
  ASSUME Sound(q), NEW c, NEW x, Finish(c, x, q)
  PROVE  Sound(q')
BY DropSound DEF Finish

(* Every step of the sync keeps the queue sound.                           *)
LEMMA SoundStep ==
  ASSUME Sound(q), AnswersHaveBlocks, [Next]_vars
  PROVE  Sound(q')
<1>0. CASE q' = q
  BY <1>0
<1>1. ASSUME NEW c \in Conn,
             \/ TryLock(c) \/ Unlock(c) \/ ForceNext(c) \/ SyncData(c)
             \/ on_callback(c) \/ kick_idle_peers(c) \/ check_standby_peers(c)
             \/ handle_response_chain_entry(c)
      PROVE  q' = q
  BY <1>1 DEF TryLock, Unlock, ForceNext, SyncData, on_callback, kick_idle_peers,
              check_standby_peers, handle_response_chain_entry
<1>2. ASSUME NEW c \in Conn, NextSpan(c) PROVE Sound(q')
  BY Zenon, <1>2, FlushSound DEF NextSpan
<1>3. ASSUME NEW c \in Conn, AddBlocks(c) PROVE Sound(q')
  BY Zenon, <1>3, FlushSound DEF AddBlocks
<1>4. ASSUME NEW c \in Conn, AddFails(c) PROVE Sound(q')
  BY Zenon, <1>4, FlushSound DEF AddFails, DropSpan
<1>5. ASSUME NEW c \in Conn, RequestMissing(c) PROVE Sound(q')
  <2> DEFINE qq == flush_stale_spans(q, live)
  <2>1. Sound(qq)
    BY Zenon, FlushSound
  <2>2. q' = qq \/ Drop(c, qq)
    BY <1>5 DEF RequestMissing
  <2> QED BY <2>1, <2>2, DropSound
<1>6. ASSUME NEW c \in Conn, ResetTime(c) PROVE Sound(q')
  <2>1. q' = q \/ q' = reset_next_span_time(q)
    BY <1>6 DEF ResetTime
  <2>2. Sound(reset_next_span_time(q))
    BY RetimeSound, Zenon DEF reset_next_span_time
  <2> QED BY <2>1, <2>2
<1>7. ASSUME NEW c \in Conn, Reserve(c) PROVE Sound(q')
  <2> DEFINE y == skip_unneeded_hashes(ctx[c], known)
  <2>1. \/ q' = q \/ \E x : Finish(c, x, q)
        \/ q' = reserve_span(q, y.last, COUNT_LIMIT, c, y.needed).q
    BY <1>7 DEF Reserve
  <2> QED BY <2>1, FinishSound, ReserveSound
<1>8. ASSUME NEW c \in Conn, handle_response_get_objects(c) PROVE Sound(q')
  <2> DEFINE bs == SentBlocks(c)
  <2>1. CASE Range(bs) # ctx[c].asked
    BY <1>8, <2>1, DropSound DEF handle_response_get_objects
  <2>2. CASE Range(bs) = ctx[c].asked
    <3>1. bs # <<>>
      BY <1>8, <2>2 DEF handle_response_get_objects, AnswersHaveBlocks
    <3>2. q' = add_blocks(q, Height[bs[1]], bs, c)
      BY <1>8, <2>2 DEF handle_response_get_objects
    <3> QED BY <3>1, <3>2, AddSound
  <2> QED BY <2>1, <2>2
<1>9. ASSUME NEW c \in Conn, on_connection_close(c) PROVE Sound(q')
  BY Zenon, <1>9, FlushSound DEF on_connection_close
<1>10. ASSUME NEW h, Age(h) PROVE Sound(q')
  BY <1>10, RetimeSound DEF Age
<1>11. CASE UNCHANGED vars
  BY <1>0, <1>11 DEF vars
<1> QED
  BY <1>0, <1>1, <1>2, <1>3, <1>4, <1>5, <1>6, <1>7, <1>8, <1>9, <1>10, <1>11
  DEF Next, Handler, Answer

-----------------------------------------------------------------------------
(* What a connection has asked for, and what is on its way to it.          *)

Fields == {"state", "needed", "last", "asked", "hash", "timed", "callbacks", "wire",
           "open", "pc", "force", "ask"}
IsSeq(w) == \E S : w \in Seq(S)

Objects(w) == {j \in DOMAIN w : w[j].type = "objects"}
Coming(w) == UNION {Range(w[i].hashes) : i \in Objects(w)}

(* Between force_next_span's insertion into m_requested_objects and its    *)
(* request, the hashes are in the handler's hand.                          *)
InHand(x) == IF x.pc = "reset" THEN Range(x.ask) ELSE {}

(* The context of a connection that is still served.                       *)
Good(x) ==
  /\ DOMAIN x = Fields /\ IsSeq(x.wire)
  /\ x.open /\ x.pc # "dead" => x.asked \subseteq Coming(x.wire) \cup InHand(x)

AllGood == ctx = [c \in Conn |-> ctx[c]] /\ \A c \in Conn : Good(ctx[c])

(* Whose hash a member of Coming is.                                       *)
LEMMA InComing ==
  ASSUME NEW w, NEW b
  PROVE  b \in Coming(w) <=> \E i \in Objects(w) : b \in Range(w[i].hashes)
BY DEF Coming

(* A request adds to what is coming.                                       *)
LEMMA AppendComing ==
  ASSUME NEW w, IsSeq(w), NEW m
  PROVE  LET v == Append(w, m) IN
         /\ IsSeq(v) /\ Coming(w) \subseteq Coming(v)
         /\ m.type = "objects" => Range(m.hashes) \subseteq Coming(v)
<1> DEFINE v == Append(w, m)
<1>1. PICK S : w \in Seq(S)
  BY DEF IsSeq
<1> DEFINE T == S \cup {m}
<1>2. w \in Seq(T) /\ m \in T
  BY <1>1
<1>3. v \in Seq(T) /\ Len(v) = Len(w) + 1 /\ v[Len(v)] = m /\ Len(w) \in Nat
  BY <1>2
<1>4. \A i \in 1 .. Len(w) : v[i] = w[i]
  BY <1>2
<1>5. DOMAIN w = 1 .. Len(w) /\ DOMAIN v = 1 .. Len(v)
  BY <1>2, <1>3
<1> HIDE DEF v
<1>6. ASSUME NEW b \in Coming(w) PROVE b \in Coming(v)
  <2>1. PICK i \in Objects(w) : b \in Range(w[i].hashes)
    BY InComing
  <2>2. i \in Objects(v) /\ v[i] = w[i]
    BY <1>3, <1>4, <1>5 DEF Objects
  <2> QED BY <2>1, <2>2, InComing
<1>7. ASSUME m.type = "objects", NEW b \in Range(m.hashes) PROVE b \in Coming(v)
  <2>1. Len(v) \in Objects(v)
    BY <1>3, <1>5, <1>7 DEF Objects
  <2> QED BY <1>3, <1>7, <2>1, InComing
<1>8. IsSeq(v)
  BY <1>3 DEF IsSeq
<1> QED BY <1>6, <1>7, <1>8 DEF v

(* The answer to a chain request takes nothing from what is coming.        *)
LEMMA TailComing ==
  ASSUME NEW w, IsSeq(w), w # <<>>
  PROVE  /\ IsSeq(Tail(w))
         /\ Head(w).type # "objects" => Coming(w) \subseteq Coming(Tail(w))
<1> DEFINE v == Tail(w)
<1>1. PICK S : w \in Seq(S)
  BY DEF IsSeq
<1>2. /\ v \in Seq(S) /\ Len(w) \in Nat /\ Len(v) = Len(w) - 1
      /\ \A i \in 1 .. Len(v) : v[i] = w[i + 1]
      /\ Head(w) = w[1]
  BY <1>1
<1>3. DOMAIN w = 1 .. Len(w) /\ DOMAIN v = 1 .. Len(v)
  BY <1>1, <1>2
<1> HIDE DEF v
<1>4. ASSUME Head(w).type # "objects", NEW b \in Coming(w) PROVE b \in Coming(v)
  <2>1. PICK i \in Objects(w) : b \in Range(w[i].hashes)
    BY InComing
  <2>2. i \in 2 .. Len(w) /\ w[i].type = "objects"
    BY <1>2, <1>3, <1>4, <2>1 DEF Objects
  <2>3. i - 1 \in 1 .. Len(v) /\ v[i - 1] = w[i]
    BY <1>2, <2>2
  <2>4. i - 1 \in Objects(v)
    BY <1>3, <2>2, <2>3 DEF Objects
  <2> QED BY <2>1, <2>3, <2>4, InComing
<1>5. IsSeq(v)
  BY <1>2 DEF IsSeq
<1> QED BY <1>4, <1>5 DEF v
(* A handler goes on: nothing asked for or answered, except that it may    *)
(* take hashes into its hand.                                              *)
LEMMA CarryGood ==
  ASSUME NEW x, Good(x), x.pc # "reset", x.pc # "dead",
         NEW y, DOMAIN y = Fields, y.wire = x.wire, y.open => x.open,
         y.asked \subseteq x.asked \cup InHand(y)
  PROVE  Good(y)
BY DEF Good, InHand

(* A step of a timer, or of another connection.                            *)
LEMMA TimerGood ==
  ASSUME NEW x, Good(x), NEW y, DOMAIN y = Fields, y.wire = x.wire, y.open => x.open,
         y.asked = x.asked, y.ask = x.ask, y.pc = x.pc
  PROVE  Good(y)
BY DEF Good, InHand

(* A request is sent, of what was asked for or of the chain.               *)
LEMMA RequestGood ==
  ASSUME NEW x, Good(x), x.pc # "dead", NEW m,
         NEW y, DOMAIN y = Fields, y.wire = Append(x.wire, m), y.open => x.open,
         NEW A, y.asked \subseteq x.asked \cup A, InHand(x) \subseteq A,
         A = {} \/ (m.type = "objects" /\ A \subseteq Range(m.hashes))
  PROVE  Good(y)
BY AppendComing DEF Good

(* The connection is given up.                                             *)
LEMMA GoneGood ==
  ASSUME NEW x, Good(x), NEW y, DOMAIN y = Fields, y.wire = x.wire,
         ~y.open \/ y.pc = "dead"
  PROVE  Good(y)
BY DEF Good

(* One context changes.                                                    *)
LEMMA BecomesGood ==
  ASSUME AllGood, NEW c \in Conn, NEW x, Good(x), Becomes(c, x)
  PROVE  AllGood'
<1>1. ctx' = [d \in Conn |-> IF d = c THEN x ELSE ctx[d]]
  BY DEF AllGood, Becomes
<1> QED BY <1>1 DEF AllGood

(* A dropped connection.                                                   *)
LEMMA DropGood ==
  ASSUME AllGood, NEW c \in Conn, NEW r, Drop(c, r)
  PROVE  AllGood'
<1> DEFINE y == [ctx[c] EXCEPT !.open = FALSE, !.pc = "idle"]
<1>1. Good(ctx[c])
  BY DEF AllGood
<1>2. DOMAIN y = Fields /\ y.wire = ctx[c].wire /\ ~y.open
  BY <1>1 DEF Good, Fields
<1>3. Becomes(c, y)
  BY DEF Drop
<1> HIDE DEF y
<1> QED BY <1>1, <1>2, <1>3, GoneGood, BecomesGood

(* The end of request_missing_objects, for the contexts.                   *)
LEMMA FinishGood ==
  ASSUME AllGood, NEW c \in Conn, NEW x, Good(x), x.pc # "reset", x.pc # "dead",
         NEW r, Finish(c, x, r)
  PROVE  AllGood'
<1> DEFINE y == [x EXCEPT !.needed = <<>>, !.pc = "idle", !.ask = <<>>]
           m == [type |-> "chain", start |-> SplitHeight(c, x.hash)]
           z == [RequestChain(y, c, x.hash) EXCEPT !.timed = TRUE]
           n == [y EXCEPT !.state = "normal"]
<1>1. /\ DOMAIN z = Fields /\ z.wire = Append(x.wire, m) /\ z.open = x.open
      /\ z.asked = x.asked
  BY DEF Good, Fields, RequestChain
<1>2. DOMAIN n = Fields /\ n.wire = x.wire /\ n.open = x.open /\ n.asked = x.asked
  BY DEF Good, Fields
<1>3. \/ Becomes(c, z) \/ Drop(c, r) \/ Becomes(c, n)
  BY DEF Finish
<1> HIDE DEF z, n, m
<1>4. Good(z)
  BY Zenon, <1>1, RequestGood DEF InHand
<1>5. Good(n)
  BY <1>2, CarryGood
<1> QED BY <1>3, <1>4, <1>5, DropGood, BecomesGood
(* The steps that only move a handler on.                                  *)
LEMMA MoveStep ==
  ASSUME AllGood, NEW c \in Conn,
         \/ SyncData(c) \/ TryLock(c) \/ NextSpan(c) \/ Unlock(c) \/ AddBlocks(c)
  PROVE  AllGood'
<1> DEFINE Moved(y) == /\ DOMAIN y = Fields /\ y.wire = ctx[c].wire
              /\ y.open = ctx[c].open /\ y.asked = ctx[c].asked
<1>0. Good(ctx[c]) /\ DOMAIN ctx[c] = Fields /\ DOMAIN ctx = Conn
  BY DEF AllGood, Good
<1>1. ctx[c].pc # "reset" /\ ctx[c].pc # "dead"
  BY DEF SyncData, TryLock, NextSpan, Unlock, AddBlocks, At
<1>2. UNCHANGED ctx \/ (Becomes(c, ctx'[c]) /\ Moved(ctx'[c]))
  <2>1. CASE SyncData(c)
    BY Zenon, <1>0, <2>1 DEF SyncData, Fields, Becomes
  <2>2. CASE TryLock(c)
    <3>1. Becomes(c, [ctx[c] EXCEPT !.pc = "next"])
          \/ Becomes(c, [ctx[c] EXCEPT !.pc = "request", !.force = FALSE])
      BY Zenon, <2>2 DEF TryLock
    <3>2. CASE Becomes(c, [ctx[c] EXCEPT !.pc = "next"])
      BY Zenon, <1>0, <3>2 DEF Fields, Becomes
    <3>3. CASE Becomes(c, [ctx[c] EXCEPT !.pc = "request", !.force = FALSE])
      BY Zenon, <1>0, <3>3 DEF Fields, Becomes
    <3> QED BY Zenon, <3>1, <3>2, <3>3
  <2>3. CASE NextSpan(c)
    BY Zenon, <1>0, <2>3 DEF NextSpan, Fields, Becomes
  <2>4. CASE Unlock(c)
    BY <1>0, <2>4 DEF Unlock, Fields, Becomes
  <2>5. CASE AddBlocks(c)
    BY <1>0, <2>5 DEF AddBlocks, Fields, Becomes
  <2> QED BY <2>1, <2>2, <2>3, <2>4, <2>5
<1>3. CASE Becomes(c, ctx'[c]) /\ Moved(ctx'[c])
  BY <1>0, <1>1, <1>3, CarryGood, BecomesGood
<1>4. CASE UNCHANGED ctx
  BY <1>4 DEF AllGood
<1> QED BY <1>2, <1>3, <1>4

(* The timers.                                                             *)
LEMMA TimerStep ==
  ASSUME AllGood, NEW c \in Conn, kick_idle_peers(c) \/ check_standby_peers(c)
  PROVE  AllGood'
<1>0. Good(ctx[c]) /\ DOMAIN ctx[c] = Fields /\ DOMAIN ctx = Conn
  BY DEF AllGood, Good
<1> DEFINE y == ctx'[c]
<1>1. /\ Becomes(c, y) /\ DOMAIN y = Fields /\ y.wire = ctx[c].wire
      /\ y.open = ctx[c].open /\ y.asked = ctx[c].asked
      /\ y.ask = ctx[c].ask /\ y.pc = ctx[c].pc
  <2>1. CASE kick_idle_peers(c)
    BY Zenon, <1>0, <2>1 DEF kick_idle_peers, Fields, Becomes
  <2>2. CASE check_standby_peers(c)
    BY Zenon, <1>0, <2>2 DEF check_standby_peers, Fields, Becomes
  <2> QED BY Zenon, <2>1, <2>2
<1> HIDE DEF y
<1> QED BY <1>0, <1>1, TimerGood, BecomesGood

(* on_callback, which may ask for the chain.                               *)
LEMMA CallbackStep ==
  ASSUME AllGood, NEW c \in Conn, on_callback(c)
  PROVE  AllGood'
<1> DEFINE m == [type |-> "chain", start |-> SplitHeight(c, NoBlock)]
<1>0. Good(ctx[c]) /\ DOMAIN ctx[c] = Fields /\ DOMAIN ctx = Conn /\ ctx[c].pc = "idle"
  BY DEF AllGood, Good, on_callback, Idle, At
<1> DEFINE y == ctx'[c]
<1>1. /\ Becomes(c, y) /\ DOMAIN y = Fields
      /\ y.wire = ctx[c].wire \/ y.wire = Append(ctx[c].wire, m)
      /\ y.open = ctx[c].open /\ y.asked = ctx[c].asked
  BY <1>0 DEF on_callback, RequestChain, Fields, Becomes
<1> HIDE DEF m, y
<1>2. CASE y.wire = ctx[c].wire
  BY <1>0, <1>1, <1>2, CarryGood, BecomesGood
<1>3. CASE y.wire = Append(ctx[c].wire, m)
  <2>1. InHand(ctx[c]) = {} /\ ctx[c].pc # "dead"
    BY <1>0 DEF InHand
  <2>2. y.asked \subseteq ctx[c].asked \cup {}
    BY <1>1
  <2>3. Good(y)
    BY Zenon, <1>0, <1>1, <1>3, <2>1, <2>2, RequestGood
  <2> QED BY Zenon, <1>1, <2>3, BecomesGood
<1> QED BY <1>1, <1>2, <1>3

(* The answer to a chain request.                                          *)
LEMMA ChainStep ==
  ASSUME AllGood, NEW c \in Conn, handle_response_chain_entry(c)
  PROVE  AllGood'
<1> DEFINE x == ctx[c]
<1>0. /\ Good(x) /\ DOMAIN x = Fields /\ DOMAIN ctx = Conn /\ x.pc = "idle" /\ x.wire # <<>>
      /\ Head(x.wire).type # "objects"
  BY DEF AllGood, Good, handle_response_chain_entry, Answered, Idle, At
<1> DEFINE y == ctx'[c]
<1>1. /\ Becomes(c, y) /\ DOMAIN y = Fields /\ y.wire = Tail(x.wire)
      /\ y.open = x.open /\ y.asked = x.asked
  BY Zenon, <1>0 DEF handle_response_chain_entry, Fields, Becomes
<1> HIDE DEF x, y
<1>2. Good(y)
  BY <1>0, <1>1, TailComing DEF Good, InHand
<1> QED BY <1>1, <1>2, BecomesGood

(* The answer to an objects request: complete, or the peer is dropped.     *)
LEMMA ObjectsStep ==
  ASSUME AllGood, NEW c \in Conn, handle_response_get_objects(c)
  PROVE  AllGood'
<1> DEFINE x == ctx[c]
<1>0. Good(x) /\ DOMAIN x = Fields /\ DOMAIN ctx = Conn /\ x.wire # <<>>
  BY DEF AllGood, Good, handle_response_get_objects, Answered
<1>1. CASE Range(SentBlocks(c)) # x.asked
  BY <1>1, DropGood DEF handle_response_get_objects
<1>2. CASE Range(SentBlocks(c)) = x.asked
  <2> DEFINE y == [x EXCEPT !.wire = Tail(@), !.timed = FALSE, !.asked = {},
                            !.hash = Last(SentBlocks(c)), !.pc = "try"]
  <2>1. Becomes(c, y)
    BY <1>2 DEF handle_response_get_objects
  <2>2. DOMAIN y = Fields /\ y.wire = Tail(x.wire) /\ y.asked = {}
    BY <1>0 DEF Fields
  <2> HIDE DEF y
  <2>3. Good(y)
    BY <1>0, <2>2, TailComing DEF Good
  <2> QED BY <2>1, <2>3, BecomesGood
<1> QED BY <1>1, <1>2

(* A bad block: its handler is done, its connection is dropped.            *)
LEMMA FailStep ==
  ASSUME AllGood, NEW c \in Conn, AddFails(c)
  PROVE  AllGood'
<1>1. PICK dropped :
        ctx' = [d \in Conn |-> [ctx[d] EXCEPT !.open = @ /\ d \notin dropped,
                                              !.pc = IF d = c THEN "idle" ELSE @]]
  BY Zenon DEF AddFails, DropSpan
<1>2. ASSUME NEW d \in Conn PROVE Good(ctx'[d])
  <2> DEFINE y == ctx'[d]
             x == ctx[d]
  <2>0. Good(x) /\ DOMAIN x = Fields
    BY DEF AllGood, Good
  <2>1. /\ DOMAIN y = Fields /\ y.wire = x.wire /\ y.asked = x.asked /\ y.ask = x.ask
        /\ y.open => x.open
        /\ d # c => y.pc = x.pc
    BY Zenon, <1>1, <2>0 DEF Fields
  <2>2. d = c => x.pc = "add"
    BY DEF AddFails, At
  <2> HIDE DEF x, y
  <2>3. ASSUME d = c PROVE Good(y)
    BY <2>0, <2>1, <2>2, <2>3, CarryGood
  <2>4. ASSUME d # c PROVE Good(y)
    BY <2>0, <2>1, <2>4, TimerGood
  <2> QED BY <2>3, <2>4 DEF y
<1> QED BY Zenon, <1>1, <1>2 DEF AllGood

(* The first half of request_missing_objects.                              *)
LEMMA MissingStep ==
  ASSUME AllGood, NEW c \in Conn, RequestMissing(c)
  PROVE  AllGood'
<1> DEFINE qq == flush_stale_spans(q, live)
<1>0. /\ Good(ctx[c]) /\ DOMAIN ctx[c] = Fields /\ DOMAIN ctx = Conn
      /\ ctx[c].pc = "request"
  BY DEF AllGood, Good, RequestMissing, At
<1>1. CASE Drop(c, qq)
  BY <1>1, DropGood
<1>2. CASE ~Drop(c, qq)
  <2> DEFINE x == skip_unneeded_hashes(ctx[c], known \cup qq.have)
             forced == [ctx[c] EXCEPT !.pc = "force"]
             resumed == [x EXCEPT !.state = "synchronizing", !.pc = "reserve"]
             next == [resumed EXCEPT !.force = TRUE, !.pc = "force"]
             paused == [x EXCEPT !.state = "standby", !.pc = "idle"]
             called == [paused EXCEPT !.callbacks = @ + 1]
             Moved(y) == /\ DOMAIN y = Fields /\ y.wire = ctx[c].wire
                         /\ y.open = ctx[c].open /\ y.asked = ctx[c].asked
  <2>1. \/ Becomes(c, forced) \/ Becomes(c, resumed) \/ Becomes(c, next)
        \/ Becomes(c, paused) \/ Becomes(c, called)
    BY <1>2 DEF RequestMissing
  <2>2. Moved(x)
    BY <1>0 DEF skip_unneeded_hashes, Fields
  <2> HIDE DEF x
  <2>3. Moved(forced) /\ Moved(resumed) /\ Moved(paused)
    BY <1>0, <2>2 DEF Fields
  <2>4. Moved(next) /\ Moved(called)
    BY <2>3 DEF Fields
  <2>5. ASSUME NEW y, Becomes(c, y), Moved(y) PROVE AllGood'
    BY <1>0, <2>5, CarryGood, BecomesGood
  <2> HIDE DEF forced, resumed, next, paused, called, Moved
  <2> QED BY <2>1, <2>3, <2>4, <2>5
<1> QED BY <1>1, <1>2

(* force_next_span.                                                        *)
LEMMA ForceStep ==
  ASSUME AllGood, NEW c \in Conn, ForceNext(c)
  PROVE  AllGood'
<1> DEFINE y == ctx'[c]
           x == ctx[c]
<1>0. Good(x) /\ DOMAIN x = Fields /\ DOMAIN ctx = Conn /\ x.pc = "force"
  BY DEF AllGood, Good, ForceNext, At
<1>1. /\ Becomes(c, y) /\ DOMAIN y = Fields /\ y.wire = x.wire /\ y.open = x.open
      /\ \/ y.asked = x.asked
         \/ y.pc = "reset" /\ y.asked = x.asked \cup Range(y.ask)
  BY <1>0 DEF ForceNext, Fields, Becomes
<1> HIDE DEF x, y
<1>2. y.asked \subseteq x.asked \cup InHand(y)
  BY <1>1 DEF InHand
<1> QED BY <1>0, <1>1, <1>2, CarryGood, BecomesGood

(* The second half of it.                                                  *)
LEMMA ResetStep ==
  ASSUME AllGood, NEW c \in Conn, ResetTime(c)
  PROVE  AllGood'
<1> DEFINE y == ctx'[c]
           x == ctx[c]
           m == [type |-> "objects", hashes |-> x.ask]
<1>0. Good(x) /\ DOMAIN x = Fields /\ DOMAIN ctx = Conn /\ x.pc = "reset"
  BY DEF AllGood, Good, ResetTime, At
<1>1. CASE ResetThrows(q)
  <2>1. Becomes(c, y) /\ DOMAIN y = Fields /\ y.wire = x.wire /\ y.pc = "dead"
    BY <1>0, <1>1 DEF ResetTime, Fields, Becomes
  <2> HIDE DEF x, y
  <2> QED BY <1>0, <2>1, GoneGood, BecomesGood
<1>2. CASE ~ResetThrows(q)
  <2>1. /\ Becomes(c, y) /\ DOMAIN y = Fields /\ y.wire = Append(x.wire, m)
        /\ y.open = x.open /\ y.asked = x.asked
    <3>1. Becomes(c, RequestObjects(x, x.ask))
      BY Zenon, <1>2 DEF ResetTime
    <3>2. y = RequestObjects(x, x.ask)
      BY Zenon, <1>0, <3>1 DEF Becomes
    <3>3. Becomes(c, y)
      BY Zenon, <3>1, <3>2
    <3> HIDE DEF x, y
    <3> QED BY <1>0, <3>2, <3>3 DEF RequestObjects, Fields
  <2>2. m.type = "objects" /\ m.hashes = x.ask
    OBVIOUS
  <2>3. InHand(x) = Range(x.ask)
    BY <1>0 DEF InHand
  <2> HIDE DEF x, y, m
  <2>4. Good(y)
    BY Zenon, <1>0, <2>1, <2>2, <2>3, RequestGood
  <2> QED BY <2>1, <2>4, BecomesGood
<1> QED BY <1>1, <1>2
(* The rest of request_missing_objects.                                    *)
LEMMA ReserveStep ==
  ASSUME AllGood, NEW c \in Conn, Reserve(c)
  PROVE  AllGood'
<1> DEFINE x == ctx[c]
           y == skip_unneeded_hashes(x, known)
           Moved(t) == /\ DOMAIN t = Fields /\ t.wire = x.wire
                       /\ t.open = x.open /\ t.asked = x.asked /\ t.pc = x.pc
<1>0. Good(x) /\ DOMAIN x = Fields /\ x.pc = "reserve"
  BY DEF AllGood, Good, Reserve, At
<1>1. Moved(x) /\ Moved(y) /\ Moved([x EXCEPT !.last = 0])
  BY <1>0 DEF skip_unneeded_hashes, Fields
<1>2. ASSUME NEW t, Moved(t), Finish(c, t, q) PROVE AllGood'
  <2>1. Good(t)
    BY <1>0, <1>2, CarryGood
  <2> HIDE DEF x
  <2> QED BY <1>0, <1>2, <2>1, FinishGood
<1>3. ASSUME NEW hs, NEW n,
             Becomes(c, RequestObjects([y EXCEPT !.needed = n,
                                                 !.asked = @ \cup Range(hs)], hs))
      PROVE  AllGood'
  <2> DEFINE m == [type |-> "objects", hashes |-> hs]
             t == RequestObjects([y EXCEPT !.needed = n, !.asked = @ \cup Range(hs)], hs)
  <2> HIDE DEF x, y
  <2>1. /\ DOMAIN t = Fields /\ t.wire = Append(x.wire, m) /\ t.open = x.open
        /\ t.asked = x.asked \cup Range(hs)
    BY <1>1 DEF RequestObjects, Fields
  <2>2. m.type = "objects" /\ m.hashes = hs
    OBVIOUS
  <2>3. Becomes(c, t)
    BY <1>3
  <2> HIDE DEF t, m
  <2>4. Good(t)
    BY Zenon, <1>0, <2>1, <2>2, RequestGood DEF InHand
  <2> QED BY <2>3, <2>4, BecomesGood
<1>4. \/ Finish(c, x, q) \/ Finish(c, [x EXCEPT !.last = 0], q) \/ Finish(c, y, q)
      \/ \E hs, n : Becomes(c, RequestObjects([y EXCEPT !.needed = n,
                                                        !.asked = @ \cup Range(hs)], hs))
  BY ZenonT(40) DEF Reserve
<1> HIDE DEF x, y, Moved
<1>5. CASE Finish(c, x, q)
  BY Zenon, <1>1, <1>2, <1>5
<1>6. CASE Finish(c, [x EXCEPT !.last = 0], q)
  BY Zenon, <1>1, <1>2, <1>6
<1>7. CASE Finish(c, y, q)
  BY Zenon, <1>1, <1>2, <1>7
<1>8. CASE \E hs, n : Becomes(c, RequestObjects([y EXCEPT !.needed = n,
                                                         !.asked = @ \cup Range(hs)], hs))
  BY Zenon, <1>3, <1>8
<1> QED BY Zenon, <1>4, <1>5, <1>6, <1>7, <1>8

(* Every step of the sync keeps the contexts good.                         *)
LEMMA GoodStep ==
  ASSUME AllGood, [Next]_vars
  PROVE  AllGood'
<1>1. ASSUME NEW c \in Conn, on_connection_close(c) PROVE AllGood'
  <2> DEFINE y == ClosedContext
  <2>1. Good(y)
    <3>1. DOMAIN y = Fields /\ y.wire = <<>> /\ y.asked = {}
      BY DEF ClosedContext, NewContext, Fields
    <3>2. IsSeq(<<>>)
      BY <<>> \in Seq({}) DEF IsSeq
    <3> QED BY <3>1, <3>2 DEF Good
  <2>2. Becomes(c, y)
    BY <1>1 DEF on_connection_close
  <2> HIDE DEF y
  <2> QED BY <2>1, <2>2, BecomesGood
<1>2. CASE UNCHANGED ctx
  BY <1>2 DEF AllGood
<1>3. ASSUME NEW h, Age(h) PROVE UNCHANGED ctx
  BY <1>3 DEF Age
<1>4. UNCHANGED vars => UNCHANGED ctx
  BY DEF vars
<1> QED
  BY <1>1, <1>2, <1>3, <1>4, MoveStep, TimerStep, CallbackStep, ChainStep, ObjectsStep,
     FailStep, MissingStep, ForceStep, ResetStep, ReserveStep
  DEF Next, Handler, Answer

(* Whatever was kicked, asked for twice or answered late, and whatever the *)
(* chains and limits: between its handlers, everything a connection has in *)
(* m_requested_objects is in a request whose answer is still to come.      *)
THEOREM AskedAlwaysComing == Spec => []AskedIsComing
<1>1. Init => AllGood
  <2> SUFFICES ASSUME Init PROVE AllGood
    OBVIOUS
  <2> DEFINE y == NewContext
  <2>1. DOMAIN y = Fields /\ y.wire = <<>> /\ y.asked = {}
    BY DEF NewContext, Fields
  <2>2. IsSeq(<<>>)
    BY <<>> \in Seq({}) DEF IsSeq
  <2>3. Good(y)
    BY <2>1, <2>2 DEF Good
  <2>4. ctx = [c \in Conn |-> y]
    BY DEF Init
  <2> HIDE DEF y
  <2> QED BY <2>3, <2>4 DEF AllGood
<1>2. AllGood /\ [Next]_vars => AllGood'
  BY GoodStep
<1>3. AllGood => AskedIsComing
  <2> SUFFICES ASSUME AllGood, NEW c \in Conn, Idle(c)
               PROVE  ctx[c].asked \subseteq Coming(ctx[c].wire)
    BY DEF AskedIsComing, Coming, Objects
  <2> QED BY DEF AllGood, Good, InHand, Idle, At
<1> QED BY <1>1, <1>2, <1>3, PTL DEF Spec
(* Induction over the natural numbers, of a set.                           *)
LEMMA SetInduction ==
  ASSUME NEW S, 0 \in S, \A n \in Nat : n \in S => n + 1 \in S
  PROVE  Nat \subseteq S
<1> SUFFICES ASSUME Nat \ S # {} PROVE FALSE
  OBVIOUS
<1> DEFINE T == Nat \ S
<1>1. PICK x \in T : \A y \in T : ~ (<<y, x>> \in OpToRel(<, Nat))
  BY Zenon, NatLessThanWellFounded, WFMin
<1>2. \A y \in T : ~ (y < x)
  BY Zenon, <1>1 DEF OpToRel
<1>3. x \in Nat /\ x \notin S /\ x # 0
  OBVIOUS
<1>4. x - 1 \in Nat /\ x - 1 < x /\ (x - 1) + 1 = x
  BY <1>3
<1>5. x - 1 \in S
  BY Zenon, <1>2, <1>4
<1> QED BY Zenon, <1>3, <1>4, <1>5

(* A nonempty set of natural numbers has a least element, Min.             *)
LEMMA LeastOf ==
  ASSUME NEW S, S \subseteq Nat, S # {}
  PROVE  Min(S) \in S /\ \A m \in S : Min(S) <= m
<1>1. PICK x \in S : \A y \in S : ~ (<<y, x>> \in OpToRel(<, Nat))
  BY Zenon, NatLessThanWellFounded, WFMin
<1>2. \A y \in S : ~ (y < x)
  BY Zenon, <1>1 DEF OpToRel
<1>3. \A y \in S : x <= y
  BY <1>2
<1> QED BY Zenon, <1>3 DEF Min

(* What the recursion in Among computes, up to its m-th step.              *)
Filters(k, hs, S, m) ==
  /\ k[0] = <<>>
  /\ \A n \in 1 .. m :
       k[n] = IF hs[n] \in S THEN Append(k[n - 1], hs[n]) ELSE k[n - 1]

(* There is such a recursion.                                              *)
LEMMA FilterExists ==
  ASSUME NEW T, NEW hs \in Seq(T), NEW S
  PROVE  \E k \in [0 .. Len(hs) -> Seq(T \cap S)] : Filters(k, hs, S, Len(hs))
<1> DEFINE L == Len(hs)
           U == T \cap S
           I == {m \in Nat : m <= L => \E k \in [0 .. m -> Seq(U)] : Filters(k, hs, S, m)}
<1>0. L \in Nat /\ \A i \in 1 .. L : hs[i] \in T
  OBVIOUS
<1>1. 0 \in I
  <2> DEFINE k == [n \in 0 .. 0 |-> <<>>]
  <2>1. k \in [0 .. 0 -> Seq(U)] /\ k[0] = <<>>
    OBVIOUS
  <2>2. Filters(k, hs, S, 0)
    BY <2>1 DEF Filters
  <2> QED BY Zenon, <2>1, <2>2
<1>2. ASSUME NEW m \in Nat, m \in I PROVE m + 1 \in I
  <2> SUFFICES ASSUME m + 1 <= L
               PROVE  \E k \in [0 .. m + 1 -> Seq(U)] : Filters(k, hs, S, m + 1)
    OBVIOUS
  <2>1. m <= L /\ m + 1 \in 1 .. L
    BY <1>0
  <2>2. PICK k \in [0 .. m -> Seq(U)] : Filters(k, hs, S, m)
    BY <1>2, <2>1
  <2> DEFINE V == Seq(U)
             v == IF hs[m + 1] \in S THEN Append(k[m], hs[m + 1]) ELSE k[m]
             g == [n \in 0 .. m + 1 |-> IF n = m + 1 THEN v ELSE k[n]]
  <2>3. v \in V
    <3>1. k[m] \in Seq(U)
      OBVIOUS
    <3>2. hs[m + 1] \in S => hs[m + 1] \in U
      BY <1>0, <2>1
    <3> QED BY <3>1, <3>2
  <2>4. k \in [0 .. m -> V]
    OBVIOUS
  <2> HIDE DEF v, V
  <2>5. g \in [0 .. m + 1 -> V]
    BY <2>3, <2>4
  <2>6. /\ g[m + 1] = v /\ g[0] = k[0]
        /\ \A n \in 1 .. m : g[n] = k[n] /\ g[n - 1] = k[n - 1]
        /\ g[(m + 1) - 1] = k[m]
    OBVIOUS
  <2> HIDE DEF g
  <2>7. Filters(g, hs, S, m + 1)
    <3>1. g[0] = <<>>
      BY <2>2, <2>6 DEF Filters
    <3>2. ASSUME NEW n \in 1 .. m + 1
          PROVE  g[n] = IF hs[n] \in S THEN Append(g[n - 1], hs[n]) ELSE g[n - 1]
      <4>1. CASE n = m + 1
        BY <2>6, <4>1, Zenon DEF v
      <4>2. CASE n # m + 1
        <5>1. n \in 1 .. m
          BY <4>2
        <5> QED BY <2>2, <2>6, <5>1, Zenon DEF Filters
      <4> QED BY <4>1, <4>2
    <3> QED BY Zenon, <3>1, <3>2 DEF Filters
  <2> QED BY Zenon, <2>5, <2>7 DEF V
<1>3. Nat \subseteq I
  <2> HIDE DEF I
  <2> QED BY Zenon, <1>1, <1>2, SetInduction
<1>4. L \in I
  <2> HIDE DEF I, L
  <2> QED BY Zenon, <1>0, <1>3
<1> QED BY <1>0, <1>4

(* Among is the last step of its recursion.                                *)
LEMMA AmongFilters ==
  ASSUME NEW T, NEW hs \in Seq(T), NEW S
  PROVE  \E k \in [0 .. Len(hs) -> Seq(T \cap S)] :
           Filters(k, hs, S, Len(hs)) /\ Among(hs, S) = k[Len(hs)]
<1> DEFINE L == Len(hs)
           Step(k, n) == IF n = 0 THEN <<>>
                         ELSE IF hs[n] \in S THEN Append(k[n - 1], hs[n]) ELSE k[n - 1]
           Body(k) == [n \in 0 .. L |-> Step(k, n)]
           F == CHOOSE k : k = Body(k)
           U == Seq(T \cap S)
<1>1. Among(hs, S) = F[L] /\ L \in Nat
  BY DEF Among
<1>2. PICK k \in [0 .. L -> U] : Filters(k, hs, S, L)
  BY Zenon, FilterExists
<1>3. k = Body(k)
  <2>1. ASSUME NEW n \in 0 .. L PROVE k[n] = Step(k, n)
    <3>1. CASE n = 0
      BY <1>2, <3>1 DEF Filters
    <3>2. CASE n # 0
      <4>1. n \in 1 .. L
        BY <1>1, <3>2
      <4> QED BY Zenon, <1>2, <3>2, <4>1 DEF Filters
    <3> QED BY <3>1, <3>2
  <2> HIDE DEF Step, U
  <2> QED BY <1>2, <2>1
<1>4. F = Body(F)
  <2> HIDE DEF Body
  <2> QED BY Zenon, <1>3
<1>5. ASSUME NEW a, NEW b, a = Body(a), b = Body(b) PROVE a = b
  <2> DEFINE I == {n \in Nat : n <= L => a[n] = b[n]}
  <2>1. \A n \in 0 .. L : a[n] = Step(a, n) /\ b[n] = Step(b, n)
    <3> HIDE DEF Step
    <3> QED BY Zenon, <1>5
  <2>2. 0 \in I
    <3>1. 0 \in 0 .. L
      BY <1>1
    <3>2. a[0] = Step(a, 0) /\ b[0] = Step(b, 0)
      BY <2>1, <3>1
    <3> QED BY <3>2
  <2>3. ASSUME NEW n \in Nat, n \in I PROVE n + 1 \in I
    <3> SUFFICES ASSUME n + 1 <= L PROVE a[n + 1] = b[n + 1]
      OBVIOUS
    <3>1. n + 1 \in 0 .. L /\ n + 1 # 0 /\ (n + 1) - 1 = n /\ n <= L
      BY <1>1
    <3>2. a[n] = b[n]
      BY <2>3, <3>1
    <3>3. a[n + 1] = Step(a, n + 1) /\ b[n + 1] = Step(b, n + 1)
      BY <2>1, <3>1
    <3> QED BY Zenon, <3>1, <3>2, <3>3
  <2>4. Nat \subseteq I
    <3> HIDE DEF I
    <3> QED BY Zenon, <2>2, <2>3, SetInduction
  <2>5. \A n \in 0 .. L : a[n] = b[n]
    BY <1>1, <2>4
  <2>6. \A n \in 0 .. L : Step(a, n) = Step(b, n)
    BY Zenon, <2>1, <2>5
  <2>7. Body(a) = Body(b)
    <3> HIDE DEF Step
    <3> QED BY <2>6
  <2> QED BY Zenon, <1>5, <2>7
<1>6. F = k
  <2> HIDE DEF F, Body
  <2> QED BY Zenon, <1>3, <1>4, <1>5
<1> HIDE DEF F
<1> QED BY Zenon, <1>1, <1>2, <1>6

(* A stretch that is one longer.                                           *)
LEMMA SubSeqAppend ==
  ASSUME NEW T, NEW s \in Seq(T), NEW a \in Nat \ {0}, NEW n \in Nat,
         a <= n + 1, n + 1 <= Len(s)
  PROVE  Append(SubSeq(s, a, n), s[n + 1]) = SubSeq(s, a, n + 1)
<1> DEFINE u == SubSeq(s, a, n)
           v == SubSeq(s, a, n + 1)
           w == Append(u, s[n + 1])
<1>1. /\ u \in Seq(T) /\ Len(u) = n - a + 1
      /\ \A i \in 1 .. n - a + 1 : u[i] = s[a + i - 1]
  OBVIOUS
<1>2. /\ v \in Seq(T) /\ Len(v) = n - a + 2
      /\ \A i \in 1 .. n - a + 2 : v[i] = s[a + i - 1]
  OBVIOUS
<1>3. s[n + 1] \in T
  OBVIOUS
<1> HIDE DEF u, v
<1>4. /\ w \in Seq(T) /\ Len(w) = n - a + 2 /\ w[n - a + 2] = s[n + 1]
      /\ \A i \in 1 .. n - a + 1 : w[i] = s[a + i - 1]
  <2>0. u \in Seq(T)
    BY <1>1
  <2>1. /\ w \in Seq(T) /\ w # <<>> /\ Len(w) = Len(u) + 1
        /\ \A i \in 1 .. Len(u) : w[i] = u[i]
        /\ w[Len(u) + 1] = s[n + 1]
    <3> DEFINE e == s[n + 1]
    <3>1. e \in T
      BY <1>3
    <3> HIDE DEF e
    <3>2. /\ Append(u, e) \in Seq(T) /\ Append(u, e) # <<>>
          /\ Len(Append(u, e)) = Len(u) + 1
          /\ \A i \in 1 .. Len(u) : Append(u, e)[i] = u[i]
          /\ Append(u, e)[Len(u) + 1] = e
      BY <2>0, <3>1
    <3> QED BY Zenon, <3>2 DEF e
  <2>3. Len(u) + 1 = n - a + 2
    BY <1>1
  <2> HIDE DEF w
  <2> QED BY <1>1, <2>1, <2>3
<1> HIDE DEF w
<1>5. ASSUME NEW i \in 1 .. n - a + 2 PROVE w[i] = v[i]
  <2>1. i \in 1 .. n - a + 1 \/ (i = n - a + 2 /\ a + i - 1 = n + 1)
    OBVIOUS
  <2>2. v[i] = s[a + i - 1]
    BY Zenon, <1>2
  <2> QED BY Zenon, <1>4, <2>1, <2>2
<1>6. w = v
  <2>1. DOMAIN w = 1 .. n - a + 2 /\ DOMAIN v = 1 .. n - a + 2
    BY <1>2, <1>4
  <2>2. w = [i \in 1 .. n - a + 2 |-> w[i]] /\ v = [i \in 1 .. n - a + 2 |-> v[i]]
    BY <1>2, <1>4, <2>1
  <2> QED BY Zenon, <1>5, <2>2
<1> QED BY <1>6 DEF u, v, w

(* What Among keeps is of both.                                            *)
LEMMA AmongType ==
  ASSUME NEW T, NEW hs \in Seq(T), NEW S
  PROVE  Among(hs, S) \in Seq(T \cap S)
<1> DEFINE U == Seq(T \cap S)
<1>1. PICK k \in [0 .. Len(hs) -> U] : Among(hs, S) = k[Len(hs)]
  BY Zenon, AmongFilters
<1>2. Len(hs) \in 0 .. Len(hs)
  OBVIOUS
<1> HIDE DEF U
<1> QED BY Zenon, <1>1, <1>2 DEF U

(* When what is in S is a stretch of the sequence, Among is that stretch.  *)
LEMMA AmongStretch ==
  ASSUME NEW T, NEW hs \in Seq(T), NEW S,
         NEW a \in Nat \ {0}, NEW b \in Nat, a <= b + 1, b <= Len(hs),
         \A i \in 1 .. Len(hs) : hs[i] \in S <=> a <= i /\ i <= b
  PROVE  Among(hs, S) = SubSeq(hs, a, b)
<1> DEFINE L == Len(hs)
           e(n) == IF n <= b THEN n ELSE b
<1>0. L \in Nat
  OBVIOUS
<1>1. PICK k \in [0 .. L -> Seq(T \cap S)] : Filters(k, hs, S, L) /\ Among(hs, S) = k[L]
  BY Zenon, AmongFilters
<1> DEFINE I == {n \in Nat : n <= L => k[n] = SubSeq(hs, a, e(n))}
<1>2. k[0] = <<>> /\ \A n \in 1 .. L :
        k[n] = IF hs[n] \in S THEN Append(k[n - 1], hs[n]) ELSE k[n - 1]
  BY Zenon, <1>1 DEF Filters
<1>3. 0 \in I
  <2>1. e(0) = 0
    OBVIOUS
  <2>2. SubSeq(hs, a, 0) = <<>>
    OBVIOUS
  <2> QED BY Zenon, <1>2, <2>1, <2>2
<1>4. ASSUME NEW n \in Nat, n \in I PROVE n + 1 \in I
  <2> SUFFICES ASSUME n + 1 <= L PROVE k[n + 1] = SubSeq(hs, a, e(n + 1))
    OBVIOUS
  <2>1. n + 1 \in 1 .. L /\ (n + 1) - 1 = n /\ n <= L
    BY <1>0
  <2>2. k[n] = SubSeq(hs, a, e(n))
    BY <1>4, <2>1
  <2>3. k[n + 1] = IF hs[n + 1] \in S THEN Append(k[n], hs[n + 1]) ELSE k[n]
    BY Zenon, <1>2, <2>1
  <2>4. hs[n + 1] \in S <=> a <= n + 1 /\ n + 1 <= b
    BY Zenon, <2>1
  <2>5. CASE a <= n + 1 /\ n + 1 <= b
    <3>1. e(n) = n /\ e(n + 1) = n + 1
      BY <2>5
    <3>2. Append(SubSeq(hs, a, n), hs[n + 1]) = SubSeq(hs, a, n + 1)
      BY <2>1, <2>5, SubSeqAppend
    <3> QED BY Zenon, <2>2, <2>3, <2>4, <2>5, <3>1, <3>2
  <2>6. CASE n + 1 < a
    <3>1. e(n) < a /\ e(n + 1) < a /\ e(n) \in Nat /\ e(n + 1) \in Nat
      BY <2>6
    <3>2. SubSeq(hs, a, e(n)) = <<>> /\ SubSeq(hs, a, e(n + 1)) = <<>>
      BY <3>1
    <3>3. ~(a <= n + 1)
      BY <2>6
    <3> QED BY Zenon, <2>2, <2>3, <2>4, <3>2, <3>3
  <2>7. CASE b < n + 1
    <3>1. e(n) = b /\ e(n + 1) = b /\ ~(n + 1 <= b)
      BY <2>7
    <3> QED BY Zenon, <2>2, <2>3, <2>4, <3>1
  <2> QED BY <2>5, <2>6, <2>7
<1>5. Nat \subseteq I
  <2> HIDE DEF I
  <2> QED BY Zenon, <1>3, <1>4, SetInduction
<1>6. k[L] = SubSeq(hs, a, e(L))
  <2>1. L <= L
    BY <1>0
  <2>2. L \in I
    <3> HIDE DEF I, L
    <3> QED BY Zenon, <1>0, <1>5
  <2> HIDE DEF L, e
  <2> QED BY Zenon, <2>1, <2>2
<1>7. e(L) = b
  BY <1>0
<1> QED BY Zenon, <1>1, <1>6, <1>7

-----------------------------------------------------------------------------
(* The largest of a bounded set of numbers.                                *)
LEMMA GreatestOf ==
  ASSUME NEW S, S \subseteq Nat, S # {}, NEW n \in Nat, \A m \in S : m <= n
  PROVE  Max(S) \in S /\ \A m \in S : m <= Max(S)
<1> DEFINE R == {k \in Nat : n - k \in S}
<1>1. \A m \in S : n - m \in R
  OBVIOUS
<1>2. R # {} /\ R \subseteq Nat
  BY Zenon, <1>1
<1>3. Min(R) \in R /\ \A k \in R : Min(R) <= k
  BY Zenon, <1>2, LeastOf
<1> DEFINE x == n - Min(R)
<1>4. x \in S /\ Min(R) \in Nat
  BY <1>3
<1> HIDE DEF R
<1>5. \A y \in S : x >= y
  BY <1>1, <1>3, <1>4
<1> HIDE DEF x
<1>6. Max(S) \in S /\ \A y \in S : Max(S) >= y
  BY Zenon, <1>4, <1>5 DEF Max
<1> QED BY <1>6

(* Blocks of one chain in a row, and a row that starts at a height.        *)
Run(s) ==
  /\ s \in Seq(Block)
  /\ \A i \in 2 .. Len(s) : Parent[s[i]] = s[i - 1]
  /\ \A i \in 1 .. Len(s) : Height[s[i]] = Height[s[1]] + i - 1
RunAt(s, n) == Run(s) /\ (s # <<>> => Height[s[1]] = n)

(* The heights in a row.                                                   *)
LEMMA RunHeights ==
  ASSUME NEW s, NEW n, RunAt(s, n), NEW i \in 1 .. Len(s)
  PROVE  s[i] \in Block /\ Height[s[i]] = n + i - 1 /\ Len(s) \in Nat
<1>1. s \in Seq(Block) /\ s # <<>>
  BY DEF RunAt, Run
<1>2. Height[s[1]] = n
  BY Zenon, <1>1 DEF RunAt
<1>3. Height[s[i]] = Height[s[1]] + i - 1
  BY Zenon DEF RunAt, Run
<1> QED BY <1>1, <1>2, <1>3

(* The empty row.                                                          *)
LEMMA RunEmpty ==
  ASSUME NEW n
  PROVE  RunAt(<<>>, n)
BY DEF RunAt, Run

(* A part of a row is a row.                                               *)
LEMMA RunSub ==
  ASSUME NEW s, NEW n \in Int, RunAt(s, n), NEW a \in Nat \ {0}, NEW b \in Nat, b <= Len(s)
  PROVE  /\ RunAt(SubSeq(s, a, b), n + a - 1)
         /\ Range(SubSeq(s, a, b)) \subseteq Range(s)
         /\ Len(SubSeq(s, a, b)) = IF a <= b THEN b - a + 1 ELSE 0
         /\ a <= b => SubSeq(s, a, b)[1] = s[a]
<1> DEFINE u == SubSeq(s, a, b)
<1>0. s \in Seq(Block) /\ Len(s) \in Nat /\ DOMAIN s = 1 .. Len(s)
  BY DEF RunAt, Run
<1>1. \A i \in a .. b : s[i] \in Block
  BY <1>0
<1>2. a \in Int /\ b \in Int
  OBVIOUS
<1>3. /\ u \in Seq(Block) /\ Len(u) = IF a <= b THEN b - a + 1 ELSE 0
      /\ \A i \in 1 .. b - a + 1 : u[i] = s[a + i - 1]
  BY <1>0
<1> HIDE DEF u
<1>4. DOMAIN u = 1 .. Len(u)
  BY <1>3
<1>5. CASE a > b
  <2>1. Len(u) = 0 /\ ~(a <= b)
    BY <1>3, <1>5
  <2>2. u = <<>>
    BY <1>3, <2>1
  <2>3. RunAt(u, n + a - 1)
    BY Zenon, <2>2, RunEmpty
  <2>4. DOMAIN u = {}
    BY <1>4, <2>1
  <2>5. Range(u) = {}
    BY Zenon, <2>4 DEF Range
  <2> QED BY Zenon, <1>3, <2>1, <2>3, <2>5 DEF u
<1>6. CASE a <= b
  <2>1. /\ Len(u) = b - a + 1 /\ u # <<>> /\ 1 \in 1 .. Len(u)
        /\ \A i \in 1 .. Len(u) : u[i] = s[a + i - 1] /\ a + i - 1 \in 1 .. Len(s)
    BY <1>0, <1>3, <1>6
  <2>2. ASSUME NEW i \in 1 .. Len(u) PROVE Height[u[i]] = n + (a + i - 1) - 1
    <3>1. u[i] = s[a + i - 1] /\ a + i - 1 \in 1 .. Len(s)
      BY Zenon, <2>1
    <3>2. Height[s[a + i - 1]] = n + (a + i - 1) - 1
      BY Zenon, <3>1, RunHeights
    <3> QED BY Zenon, <3>1, <3>2
  <2>3. \A i \in 1 .. Len(u) : Height[u[i]] = n + a - 1 + i - 1
    BY <2>2
  <2>4. u[1] = s[a] /\ Height[u[1]] = n + a - 1
    BY <2>1, <2>3
  <2>5. \A i \in 1 .. Len(u) : Height[u[i]] = Height[u[1]] + i - 1
    BY <2>3, <2>4
  <2>6. ASSUME NEW i \in 2 .. Len(u) PROVE Parent[u[i]] = u[i - 1]
    <3>1. /\ i \in 1 .. Len(u) /\ i - 1 \in 1 .. Len(u) /\ a + i - 1 \in 2 .. Len(s)
          /\ a + (i - 1) - 1 = (a + i - 1) - 1
      BY <1>0, <2>1
    <3>2. Parent[s[a + i - 1]] = s[(a + i - 1) - 1]
      BY Zenon, <3>1 DEF RunAt, Run
    <3> QED BY Zenon, <2>1, <3>1, <3>2
  <2>7. RunAt(u, n + a - 1)
    BY Zenon, <1>3, <2>4, <2>5, <2>6 DEF RunAt, Run
  <2>8. Range(u) \subseteq Range(s)
    BY Zenon, <1>0, <1>4, <2>1 DEF Range
  <2> QED BY Zenon, <1>3, <1>6, <2>4, <2>7, <2>8 DEF u
<1> QED BY <1>5, <1>6

(* A peer's chain is a row from height 0 on.                               *)
LEMMA ChainRun ==
  ASSUME NEW c \in Conn
  PROVE  RunAt(ChainOf[c], 0) /\ remote(c) \in Nat \ {0}
<1>1. ChainOf[c] \in Seq(Block) /\ ChainOf[c] # <<>> /\ ChainOf[c][1] = Genesis
  BY Zenon, BlockAssumption
<1>2. Height[Genesis] = 0
  BY Zenon, BlockAssumption
<1>3. \A i \in 1 .. Len(ChainOf[c]) : Height[ChainOf[c][i]] = i - 1
  BY Zenon, BlockAssumption
<1>4. \A i \in 2 .. Len(ChainOf[c]) : Parent[ChainOf[c][i]] = ChainOf[c][i - 1]
  BY Zenon, BlockAssumption
<1>5. \A i \in 1 .. Len(ChainOf[c]) : Height[ChainOf[c][i]] = Height[ChainOf[c][1]] + i - 1
  BY <1>1, <1>2, <1>3
<1>6. RunAt(ChainOf[c], 0)
  BY Zenon, <1>1, <1>2, <1>4, <1>5 DEF RunAt, Run
<1> QED BY <1>1, <1>6 DEF remote

(* Where a block of a peer's chain is.                                     *)
LEMMA OnChain ==
  ASSUME NEW c \in Conn, NEW b \in Range(ChainOf[c])
  PROVE  b \in Block /\ Height[b] \in Nat /\ Height[b] < remote(c)
<1>1. ChainOf[c] \in Seq(Block)
  BY Zenon, BlockAssumption
<1>2. \A i \in 1 .. Len(ChainOf[c]) : Height[ChainOf[c][i]] = i - 1
  BY Zenon, BlockAssumption
<1>3. PICK i \in DOMAIN ChainOf[c] : b = ChainOf[c][i]
  BY Zenon DEF Range
<1>4. i \in 1 .. Len(ChainOf[c]) /\ Len(ChainOf[c]) \in Nat /\ b \in Block
  BY <1>1, <1>3
<1>5. Height[b] = i - 1
  BY Zenon, <1>2, <1>3, <1>4
<1> QED BY <1>4, <1>5 DEF remote

(* How far Leading reaches.                                                *)
LEMMA LeadingReach ==
  ASSUME NEW T, NEW hs \in Seq(T), NEW S
  PROVE  /\ Leading(hs, S) \in 0 .. Len(hs)
         /\ \A i \in 1 .. Leading(hs, S) : hs[i] \in S
         /\ Leading(hs, S) < Len(hs) => hs[Leading(hs, S) + 1] \notin S
<1> DEFINE stops == {i \in DOMAIN hs : hs[i] \notin S}
<1>0. DOMAIN hs = 1 .. Len(hs) /\ Len(hs) \in Nat
  OBVIOUS
<1>1. CASE stops = {}
  <2>1. Leading(hs, S) = Len(hs)
    BY Zenon, <1>1 DEF Leading
  <2>2. \A i \in 1 .. Len(hs) : hs[i] \in S
    BY Zenon, <1>0, <1>1
  <2>3. \A i \in 1 .. Leading(hs, S) : hs[i] \in S
    BY Zenon, <2>1, <2>2
  <2> QED BY <1>0, <2>1, <2>3
<1>2. CASE stops # {}
  <2> DEFINE m == Min(stops)
  <2>1. Leading(hs, S) = m - 1
    BY Zenon, <1>2 DEF Leading
  <2>2. stops \subseteq Nat
    BY <1>0
  <2>3. m \in stops /\ \A i \in stops : m <= i
    BY Zenon, <1>2, <2>2, LeastOf
  <2>4. m \in 1 .. Len(hs) /\ hs[m] \notin S
    BY Zenon, <1>0, <2>3
  <2>5. \A i \in 1 .. Len(hs) : hs[i] \notin S => m <= i
    BY Zenon, <1>0, <2>3
  <2> HIDE DEF m
  <2>6. \A i \in 1 .. m - 1 : i \in 1 .. Len(hs) /\ ~(m <= i)
    BY <1>0, <2>4
  <2>7. \A i \in 1 .. m - 1 : hs[i] \in S
    BY Zenon, <2>5, <2>6
  <2>8. m - 1 \in 0 .. Len(hs) /\ (m - 1) + 1 = m
    BY <1>0, <2>4
  <2> QED BY Zenon, <2>1, <2>4, <2>7, <2>8
<1> QED BY <1>1, <1>2

-----------------------------------------------------------------------------
(* A span in its place: its hashes and its blocks are rows from its height *)
(* on.                                                                     *)
SpanOk(h, s) ==
  h \in Nat /\ s \in Span /\ RunAt(s.hashes, h) /\ RunAt(s.blocks, h)

Spans(r) == \A h \in DOMAIN r.spans : SpanOk(h, r.spans[h])

(* What a queue keeps of another.                                          *)
Part(e, r) ==
  DOMAIN e.spans \subseteq DOMAIN r.spans /\ \A h \in DOMAIN e.spans : e.spans[h] = r.spans[h]

(* Erasing spans.                                                          *)
LEMMA ErasePart ==
  ASSUME NEW r, NEW H
  PROVE  Part(erase_block(r, H), r) /\ DOMAIN erase_block(r, H).spans = DOMAIN r.spans \ H
BY DEF Part, erase_block, Restrict

(* What is left of spans in place is in place.                             *)
LEMMA PartSpans ==
  ASSUME NEW r, NEW e, Spans(r), Part(e, r)
  PROVE  Spans(e)
BY Zenon DEF Spans, Part

(* The operations that only erase.                                         *)
LEMMA FlushSpans ==
  ASSUME NEW r, Spans(r), NEW c, NEW S, NEW n
  PROVE  /\ Spans(flush_spans(r, c, TRUE)) /\ Spans(flush_spans(r, c, FALSE))
         /\ Spans(flush_stale_spans(r, S))
         /\ Spans(remove_spans(r, c, n))
<1>1. \A H : Spans(erase_block(r, H))
  BY Zenon, ErasePart, PartSpans
<1> QED BY Zenon, <1>1 DEF flush_spans, flush_stale_spans, remove_spans

(* A span put in its place.                                                *)
LEMMA InsertSpans ==
  ASSUME NEW r, Spans(r), NEW start, NEW s, SpanOk(start, s), NEW R, NEW V
  PROVE  Spans([spans |-> Insert(r.spans, start, s), requested |-> R, have |-> V])
<1> DEFINE f == Insert(r.spans, start, s)
           e == [spans |-> f, requested |-> R, have |-> V]
<1>1. /\ DOMAIN f = DOMAIN r.spans \cup {start} /\ f[start] = s
      /\ \A h \in DOMAIN r.spans : h # start => f[h] = r.spans[h]
  BY Zenon DEF Insert
<1> HIDE DEF f
<1>2. e.spans = f
  OBVIOUS
<1> HIDE DEF e
<1>3. ASSUME NEW h \in DOMAIN f PROVE SpanOk(h, f[h])
  BY Zenon, <1>1, <1>3 DEF Spans
<1>4. Spans(e)
  BY Zenon, <1>2, <1>3 DEF Spans
<1> QED BY <1>4 DEF e, f

(* The fields of the span that set_span_hashes inserts.                    *)
LEMMA SpanHashes ==
  ASSUME NEW h, NEW s, SpanOk(h, s), NEW hs, RunAt(hs, h)
  PROVE  SpanOk(h, [s EXCEPT !.hashes = hs])
<1>1. hs \in Seq(Block)
  BY DEF RunAt, Run
<1> DEFINE t == [s EXCEPT !.hashes = hs]
<1>2. t \in Span /\ t.hashes = hs /\ t.blocks = s.blocks
  BY Zenon, <1>1 DEF SpanOk, Span
<1> HIDE DEF t
<1>3. SpanOk(h, t)
  BY Zenon, <1>2 DEF SpanOk
<1> QED BY <1>3 DEF t

(* Giving a span other hashes of its height.                               *)
LEMMA SetHashesSpans ==
  ASSUME NEW r, Spans(r), NEW start, NEW c, NEW hs, RunAt(hs, start)
  PROVE  Spans(set_span_hashes(r, start, c, hs))
<1>1. CASE start \notin DOMAIN r.spans \/ r.spans[start].conn # c
  <2>1. set_span_hashes(r, start, c, hs) = r
    BY Zenon, <1>1 DEF set_span_hashes
  <2> QED BY Zenon, <2>1
<1>2. CASE start \in DOMAIN r.spans /\ r.spans[start].conn = c
  <2> DEFINE e == erase_block(r, {start})
             s == [r.spans[start] EXCEPT !.hashes = hs]
             x == Insert(e.spans, start, s)
             y == e.requested \cup Range(hs)
  <2>1. Spans(e)
    BY Zenon, ErasePart, PartSpans
  <2>2. SpanOk(start, s)
    BY Zenon, <1>2, SpanHashes DEF Spans
  <2>3. set_span_hashes(r, start, c, hs) = [e EXCEPT !.spans = x, !.requested = y]
    BY Zenon, <1>2 DEF set_span_hashes
  <2>4. e = [spans |-> e.spans, requested |-> e.requested, have |-> e.have]
    BY DEF erase_block
  <2> HIDE DEF e, s
  <2>5. Spans([spans |-> x, requested |-> y, have |-> e.have])
    BY Zenon, <2>1, <2>2, InsertSpans
  <2>6. [e EXCEPT !.spans = x, !.requested = y]
          = [spans |-> x, requested |-> y, have |-> e.have]
    BY Zenon, <2>4, UpdateTwo
  <2> QED BY Zenon, <2>3, <2>5, <2>6
<1> QED BY <1>1, <1>2

(* A scheduled span.                                                       *)
LEMMA ScheduleSpans ==
  ASSUME NEW r, Sound(r), Spans(r), NEW start \in Nat, NEW c \in Conn
  PROVE  Spans(Schedule(r, start, c))
<1>1. CASE start \in DOMAIN r.spans
  BY Zenon, <1>1 DEF Schedule
<1>2. CASE start \notin DOMAIN r.spans
  <2> DEFINE s == [conn |-> c, hashes |-> <<>>, blocks |-> <<>>, old |-> FALSE]
             x == Insert(r.spans, start, s)
             n == [spans |-> x, requested |-> r.requested, have |-> r.have]
  <2>1. SpanOk(start, s)
    <3>1. s \in Span /\ s.hashes = <<>> /\ s.blocks = <<>>
      BY DEF Span
    <3> QED BY Zenon, <3>1, RunEmpty DEF SpanOk
  <2>2. Schedule(r, start, c) = [r EXCEPT !.spans = x]
    BY Zenon, <1>2 DEF Schedule
  <2> HIDE DEF s
  <2>3. Spans(n)
    BY Zenon, <2>1, InsertSpans
  <2>4. r = [spans |-> r.spans, requested |-> r.requested, have |-> r.have]
    BY Zenon DEF Sound, IsQueue
  <2> HIDE DEF x
  <2>5. [r EXCEPT !.spans = x] = n
    BY <2>4
  <2> QED BY Zenon, <2>2, <2>3, <2>5
<1> QED BY <1>1, <1>2

(* The blocks of an answer.                                                *)
LEMMA AddSpans ==
  ASSUME NEW r, Spans(r), NEW start \in Nat, NEW bs, RunAt(bs, start), NEW c \in Conn
  PROVE  Spans(add_blocks(r, start, bs, c))
<1> DEFINE e == erase_block(r, {start} \cap DOMAIN r.spans)
           s == [conn |-> c, hashes |-> <<>>, blocks |-> bs, old |-> FALSE]
           x == Insert(e.spans, start, s)
           n == [e EXCEPT !.spans = Insert(@, start, s)]
           hs == r.spans[start].hashes
           m == [n EXCEPT !.requested = @ \cup Range(hs), !.have = @ \cup Range(hs)]
<1>1. Spans(e)
  <2>1. Part(e, r)
    BY Zenon, ErasePart
  <2> HIDE DEF e
  <2> QED BY ONLY Zenon, Spans(r), <2>1, PartSpans
<1>2. e = [spans |-> e.spans, requested |-> e.requested, have |-> e.have]
  <2>1. PICK i, j, k : e = [spans |-> i, requested |-> j, have |-> k]
    BY Zenon DEF erase_block
  <2> HIDE DEF e
  <2> QED BY ONLY <2>1
<1>3. SpanOk(start, s)
  <2>1. bs \in Seq(Block)
    BY DEF RunAt, Run
  <2>2. s \in Span /\ s.hashes = <<>> /\ s.blocks = bs
    <3>1. <<>> \in Seq(Block)
      OBVIOUS
    <3> QED BY Zenon, <2>1, <3>1 DEF Span
  <2> HIDE DEF s
  <2> QED BY Zenon, <2>2, RunEmpty DEF SpanOk
<1>4. start \notin DOMAIN r.spans => add_blocks(r, start, bs, c) = n
  BY DEF add_blocks
<1>5. start \in DOMAIN r.spans =>
        add_blocks(r, start, bs, c) = set_span_hashes(m, start, c, hs)
  BY DEF add_blocks
<1> HIDE DEF e, s
<1>6. Spans([spans |-> x, requested |-> e.requested, have |-> e.have])
  BY Zenon, <1>1, <1>3, InsertSpans
<1> DEFINE f == [spans |-> x, requested |-> e.requested, have |-> e.have]
<1>7. n = f
  <2>1. n = [e EXCEPT !.spans = x]
    OBVIOUS
  <2> HIDE DEF x
  <2> QED BY <1>2, <2>1
<1>8. Spans(n)
  BY Zenon, <1>6, <1>7
<1>9. n.spans = m.spans
  BY <1>7
<1> HIDE DEF n, m
<1>10. Spans(m)
  BY Zenon, <1>8, <1>9 DEF Spans
<1>11. start \in DOMAIN r.spans => RunAt(hs, start)
  BY Zenon DEF Spans, SpanOk
<1> HIDE DEF hs
<1>12. start \in DOMAIN r.spans => Spans(set_span_hashes(m, start, c, hs))
  BY Zenon, <1>10, <1>11, SetHashesSpans
<1> QED BY Zenon, <1>4, <1>5, <1>8, <1>12

(* The age of a span changes.                                              *)
LEMMA RetimeSpans ==
  ASSUME NEW r, IsQueue(r), Spans(r), NEW h \in DOMAIN r.spans, NEW v \in BOOLEAN
  PROVE  Spans([r EXCEPT !.spans[h].old = v])
<1> DEFINE t == [r.spans[h] EXCEPT !.old = v]
           f == [r.spans EXCEPT ![h] = t]
           e == [r EXCEPT !.spans[h].old = v]
<1>1. e.spans = f
  BY DEF IsQueue
<1>2. SpanOk(h, r.spans[h])
  BY Zenon DEF Spans
<1>3. t \in Span /\ t.hashes = r.spans[h].hashes /\ t.blocks = r.spans[h].blocks
  BY <1>2 DEF SpanOk, Span
<1> HIDE DEF e, t
<1>4. SpanOk(h, t)
  BY Zenon, <1>2, <1>3 DEF SpanOk
<1>5. DOMAIN f = DOMAIN r.spans /\ \A k \in DOMAIN r.spans : f[k] = IF k = h THEN t ELSE r.spans[k]
  BY DEF IsQueue
<1> HIDE DEF f
<1>6. ASSUME NEW k \in DOMAIN f PROVE SpanOk(k, f[k])
  BY Zenon, <1>4, <1>5, <1>6 DEF Spans
<1> QED BY Zenon, <1>1, <1>6 DEF Spans, e

(* A reserved span: hashes of the list hs, whose first has height base.    *)
LEMMA ReserveSpans ==
  ASSUME NEW r, Sound(r), Spans(r), NEW last \in Nat, NEW max \in Nat \ {0}, NEW c \in Conn,
         NEW hs, RunAt(hs, last - Len(hs) + 1)
  PROVE  LET x == reserve_span(r, last, max, c, hs)
         IN  /\ Spans(x.q)
             /\ x.n > 0 => /\ RunAt(x.hashes, x.start) /\ x.hashes # <<>>
                           /\ Range(x.hashes) \subseteq Range(hs)
                           /\ x.start + x.n - (last - Len(hs) + 1) \in 1 .. Len(hs)
             /\ x.n \in Nat
             /\ x.n = 0 => \/ hs = <<>> \/ Len(hs) > last
                           \/ \A i \in 1 .. Len(hs) : hs[i] \in r.requested
<1> DEFINE x == reserve_span(r, last, max, c, hs)
           k == Leading(hs, r.requested)
           start == last - Len(hs) + 1 + k
           M == Min({k + max, Len(hs)})
           take == SubSeq(hs, k + 1, M)
<1>1. hs \in Seq(Block) /\ Len(hs) \in Nat
  BY DEF RunAt, Run
<1>2. /\ k \in 0 .. Len(hs) /\ \A i \in 1 .. k : hs[i] \in r.requested
  BY Zenon, <1>1, LeadingReach
<1>3. x = IF hs = <<>> \/ Len(hs) > last \/ take = <<>> THEN NoSpan(r)
          ELSE [n |-> Len(take), start |-> start, hashes |-> take,
                q |-> set_span_hashes(Schedule(r, start, c), start, c, take)]
  BY Zenon DEF reserve_span
<1> HIDE DEF k
<1>4. M \in Nat /\ M <= Len(hs) /\ M <= k + max /\ (M = k + max \/ M = Len(hs))
  <2> DEFINE S == {k + max, Len(hs)}
  <2>1. S \subseteq Nat /\ S # {}
    BY <1>1, <1>2
  <2> HIDE DEF S
  <2>2. Min(S) \in S /\ \A m \in S : Min(S) <= m
    BY Zenon, <2>1, LeastOf
  <2>3. Min(S) \in Nat
    BY Zenon, <2>1, <2>2
  <2> QED BY <2>2, <2>3 DEF S
<1> HIDE DEF M
<1>5. last - Len(hs) + 1 \in Int /\ k + 1 \in Nat \ {0} /\ k \in Nat
  BY <1>1, <1>2
<1>6. /\ RunAt(take, (last - Len(hs) + 1) + (k + 1) - 1)
      /\ Range(take) \subseteq Range(hs)
      /\ Len(take) = IF k + 1 <= M THEN M - (k + 1) + 1 ELSE 0
  BY Zenon, <1>4, <1>5, RunSub
<1> HIDE DEF take
<1>7. RunAt(take, start) /\ take \in Seq(Block) /\ Len(take) \in Nat
  <2>1. (last - Len(hs) + 1) + (k + 1) - 1 = start
    BY <1>1, <1>5
  <2>2. RunAt(take, start)
    BY Zenon, <1>6, <2>1
  <2> QED BY <2>2 DEF RunAt, Run
<1>8. CASE hs = <<>> \/ Len(hs) > last \/ take = <<>>
  <2>1. x.q = r /\ x.n = 0
    BY <1>3, <1>8 DEF NoSpan
  <2>2. ASSUME hs # <<>>, Len(hs) <= last, NEW i \in 1 .. Len(hs) PROVE hs[i] \in r.requested
    <3>0. take = <<>>
      <4>1. ~(Len(hs) > last)
        BY <1>1, <2>2
      <4> QED BY Zenon, <1>8, <2>2, <4>1
    <3>1. Len(take) = 0
      <4>1. Len(<<>>) = 0
        OBVIOUS
      <4> QED BY Zenon, <3>0, <4>1
    <3>2. k = Len(hs)
      <4> DEFINE L == Len(hs)
                 T == Len(take)
      <4>1. /\ L \in Nat /\ k \in 0 .. L /\ M \in Nat
            /\ M = k + max \/ M = L
            /\ T = IF k + 1 <= M THEN M - (k + 1) + 1 ELSE 0
            /\ T = 0
        BY Zenon, <1>1, <1>2, <1>4, <1>6, <3>1
      <4> HIDE DEF L, T
      <4>2. k = L
        BY <4>1
      <4> QED BY <4>2 DEF L
    <3> QED BY Zenon, <1>2, <2>2, <3>2
  <2>3. \/ hs = <<>> \/ Len(hs) > last \/ \A i \in 1 .. Len(hs) : hs[i] \in r.requested
    BY <1>1, <2>2
  <2>4. ~(0 > 0) /\ 0 \in Nat
    OBVIOUS
  <2> QED BY Zenon, <2>1, <2>3, <2>4
<1>9. CASE hs # <<>> /\ ~(Len(hs) > last) /\ take # <<>>
  <2> DEFINE g == set_span_hashes(Schedule(r, start, c), start, c, take)
  <2>1. x.n = Len(take) /\ x.start = start /\ x.hashes = take /\ x.q = g
    BY <1>3, <1>9
  <2>2. Len(take) > 0
    BY <1>7, <1>9
  <2>3. start \in Nat /\ start + Len(take) - (last - Len(hs) + 1) \in 1 .. Len(hs)
    <3> DEFINE L == Len(hs)
               T == Len(take)
    <3>1. /\ L \in Nat /\ ~(L > last) /\ k \in 0 .. L /\ M \in Nat /\ M <= L
          /\ T = IF k + 1 <= M THEN M - (k + 1) + 1 ELSE 0
          /\ T > 0 /\ start = last - L + 1 + k
      BY Zenon, <1>1, <1>2, <1>4, <1>6, <1>9, <2>2
    <3> HIDE DEF L, T, start
    <3>2. T = M - k /\ start \in Nat
      BY <3>1
    <3>3. start + T - (last - L + 1) \in 1 .. L
      BY <3>1, <3>2
    <3> QED BY Zenon, <3>2, <3>3 DEF L, T
  <2> HIDE DEF start
  <2>4. Spans(g)
    BY Zenon, <1>7, <2>3, ScheduleSpans, SetHashesSpans
  <2>5. ~(Len(take) = 0)
    BY <2>2
  <2> QED BY Zenon, <1>6, <1>7, <1>9, <2>1, <2>3, <2>4, <2>5
<1> QED BY Zenon, <1>8, <1>9

-----------------------------------------------------------------------------
(* The n-th ancestor of a block, one by one.                               *)
Climbs(k, b, m) == k[0] = b /\ \A n \in 1 .. m : k[n] = Parent[k[n - 1]]

(* There is a function that climbs.                                        *)
LEMMA ClimbExists ==
  ASSUME NEW b \in Block, NEW H \in Nat
  PROVE  \E k \in [0 .. H -> Block] : Climbs(k, b, H)
<1> DEFINE I == {m \in Nat : \E k \in [0 .. m -> Block] : Climbs(k, b, m)}
<1>0. Parent \in [Block -> Block]
  BY Zenon, BlockAssumption
<1>1. 0 \in I
  <2> DEFINE k == [n \in 0 .. 0 |-> b]
  <2>1. k \in [0 .. 0 -> Block] /\ k[0] = b
    OBVIOUS
  <2>2. Climbs(k, b, 0)
    BY <2>1 DEF Climbs
  <2> QED BY Zenon, <2>1, <2>2
<1>2. ASSUME NEW m \in Nat, m \in I PROVE m + 1 \in I
  <2>1. PICK k \in [0 .. m -> Block] : Climbs(k, b, m)
    BY Zenon, <1>2
  <2> DEFINE v == Parent[k[m]]
             g == [n \in 0 .. m + 1 |-> IF n = m + 1 THEN v ELSE k[n]]
  <2>2. v \in Block
    BY <1>0, <2>1
  <2> HIDE DEF v
  <2>3. g \in [0 .. m + 1 -> Block]
    BY <2>1, <2>2
  <2>4. /\ g[m + 1] = v /\ g[0] = k[0]
        /\ \A n \in 1 .. m : g[n] = k[n] /\ g[n - 1] = k[n - 1]
        /\ g[(m + 1) - 1] = k[m]
    BY <2>1
  <2> HIDE DEF g
  <2>5. ASSUME NEW n \in 1 .. m + 1 PROVE g[n] = Parent[g[n - 1]]
    <3>1. CASE n = m + 1
      BY Zenon, <2>4, <3>1 DEF v
    <3>2. CASE n # m + 1
      <4>1. n \in 1 .. m
        BY <3>2
      <4> QED BY Zenon, <2>1, <2>4, <4>1 DEF Climbs
    <3> QED BY <3>1, <3>2
  <2>6. Climbs(g, b, m + 1)
    BY Zenon, <2>1, <2>4, <2>5 DEF Climbs
  <2>7. m + 1 \in Nat
    OBVIOUS
  <2> QED BY Zenon, <2>3, <2>6, <2>7
<1>3. Nat \subseteq I
  <2> HIDE DEF I
  <2> QED BY Zenon, <1>1, <1>2, SetInduction
<1> QED BY Zenon, <1>3

(* Blocks at height 0.                                                     *)
LEMMA OnlyGenesis ==
  ASSUME NEW b \in Block, Height[b] = 0
  PROVE  b = Genesis
<1>1. \A d \in Block \ {Genesis} : Height[d] = Height[Parent[d]] + 1
  BY Zenon, BlockAssumption
<1>2. Height \in [Block -> Nat] /\ Parent \in [Block -> Block]
  BY Zenon, BlockAssumption
<1> QED BY <1>1, <1>2

(* Every block's ancestors go back to the genesis block.                   *)
LEMMA FromGenesis ==
  ASSUME NEW b \in Block
  PROVE  Genesis \in Ancestors(b)
<1> DEFINE H == Height[b]
           Step(k, n) == IF n = 0 THEN b ELSE Parent[k[n - 1]]
           Body(k) == [n \in 0 .. H |-> Step(k, n)]
           F == CHOOSE k : k = Body(k)
           I == {n \in Nat : n <= H => F[n] \in Block /\ Height[F[n]] = H - n}
<1>0. /\ Height \in [Block -> Nat] /\ Parent \in [Block -> Block] /\ H \in Nat
      /\ \A d \in Block \ {Genesis} : Height[d] = Height[Parent[d]] + 1
      /\ Height[Genesis] = 0
  BY BlockAssumption
<1>1. Ancestors(b) = {F[k] : k \in 0 .. H}
  BY DEF Ancestors
<1>2. PICK k \in [0 .. H -> Block] : Climbs(k, b, H)
  BY Zenon, <1>0, ClimbExists
<1>3. k = Body(k)
  <2>1. ASSUME NEW n \in 0 .. H PROVE k[n] = Step(k, n)
    <3>1. n # 0 => n \in 1 .. H
      BY <1>0
    <3> QED BY Zenon, <1>2, <3>1 DEF Climbs
  <2> HIDE DEF Step
  <2> QED BY <1>2, <2>1
<1>4. F = Body(F)
  <2> HIDE DEF Body
  <2> QED BY Zenon, <1>3
<1> HIDE DEF F
<1>5. \A n \in 0 .. H : F[n] = Step(F, n)
  <2> HIDE DEF Step, H
  <2> QED BY Zenon, <1>4
<1> HIDE DEF H
<1>6. 0 \in I
  <2>1. F[0] = b
    BY <1>0, <1>5
  <2> QED BY <1>0, <2>1 DEF H
<1>7. ASSUME NEW n \in Nat, n \in I PROVE n + 1 \in I
  <2> SUFFICES ASSUME n + 1 <= H
               PROVE  F[n + 1] \in Block /\ Height[F[n + 1]] = H - (n + 1)
    OBVIOUS
  <2>1. n + 1 \in 0 .. H /\ n + 1 # 0 /\ (n + 1) - 1 = n /\ n <= H
    BY <1>0
  <2>2. F[n + 1] = Parent[F[n]]
    BY Zenon, <1>5, <2>1
  <2>3. F[n] \in Block /\ Height[F[n]] = H - n
    BY <1>7, <2>1
  <2>4. F[n] # Genesis
    BY <1>0, <2>3
  <2>5. Parent[F[n]] \in Block /\ Height[Parent[F[n]]] \in Nat
    BY <1>0, <2>3
  <2>6. Height[F[n]] = Height[Parent[F[n]]] + 1
    BY Zenon, <1>0, <2>3, <2>4
  <2>7. Height[Parent[F[n]]] = H - (n + 1)
    <3> DEFINE p == Height[Parent[F[n]]]
    <3>1. H \in Nat /\ n \in Nat /\ p \in Nat /\ p + 1 = H - n
      BY Zenon, <1>0, <2>3, <2>5, <2>6
    <3> HIDE DEF p
    <3>2. p = H - (n + 1)
      BY ONLY <3>1
    <3> QED BY Zenon, <3>2 DEF p
  <2> QED BY Zenon, <2>2, <2>5, <2>7
<1>8. Nat \subseteq I
  <2> HIDE DEF I
  <2> QED BY Zenon, <1>6, <1>7, SetInduction
<1>9. F[H] \in Block /\ Height[F[H]] = 0
  BY <1>0, <1>8
<1>10. F[H] = Genesis
  BY Zenon, <1>9, OnlyGenesis
<1>11. H \in 0 .. H
  BY <1>0
<1> QED BY Zenon, <1>1, <1>10, <1>11

(* A chain request is answered from a block of the peer's chain.           *)
LEMMA SplitOnChain ==
  ASSUME NEW c \in Conn, NEW h, top \in Block
  PROVE  SplitHeight(c, h) \in Nat /\ SplitHeight(c, h) < remote(c)
<1> DEFINE chain == Range(ChainOf[c])
           S == {Height[b] : b \in Ancestors(top) \cap chain}
<1>1. CASE h \in chain
  BY Zenon, <1>1, OnChain DEF SplitHeight
<1>2. CASE h \notin chain
  <2>1. SplitHeight(c, h) = Max(S)
    BY Zenon, <1>2 DEF SplitHeight
  <2>2. ASSUME NEW m \in S PROVE m \in Nat /\ m < remote(c)
    BY Zenon, <2>2, OnChain
  <2>3. Genesis \in chain
    <3>1. ChainOf[c] \in Seq(Block) /\ ChainOf[c] # <<>> /\ ChainOf[c][1] = Genesis
      BY Zenon, BlockAssumption
    <3>2. 1 \in DOMAIN ChainOf[c]
      BY <3>1
    <3> QED BY Zenon, <3>1, <3>2 DEF Range
  <2>4. S # {}
    BY Zenon, <2>3, FromGenesis
  <2> HIDE DEF S
  <2>5. remote(c) \in Nat
    BY ChainRun
  <2>6. S \subseteq Nat /\ \A m \in S : m <= remote(c)
    BY <2>2, <2>5
  <2>7. Max(S) \in S
    BY Zenon, <2>4, <2>5, <2>6, GreatestOf
  <2> QED BY Zenon, <2>1, <2>2, <2>7
<1> QED BY <1>1, <1>2
=============================================================================
