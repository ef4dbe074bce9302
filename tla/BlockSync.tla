----------------------------- MODULE BlockSync ------------------------------
(***************************************************************************)
(* How a node downloads the chain from its peers: the sync handlers of     *)
(* cryptonote_protocol/cryptonote_protocol_handler.inl over the block      *)
(* queue.  Every connection runs its handlers one after another (its       *)
(* strand), those of different connections run in parallel; the queue's    *)
(* mutex covers single queue operations, and m_sync_lock is held by the    *)
(* one connection that adds blocks to the chain.  pc says where the        *)
(* handler of a connection is between its accesses to shared state.        *)
(*                                                                         *)
(* Peers are honest and their chains do not grow; they may fall silent,    *)
(* disconnect, follow a fork, or hold a block this node refuses.           *)
(* Connections are not reused: a new connection to a peer is another       *)
(* member of Conn.                                                         *)
(*                                                                         *)
(* A value that an action uses several times is bound by \E x \in {value}. *)
(*                                                                         *)
(* Left out: pruned peers and pruning stripes (no connection has a pruning *)
(* seed), the target height and m_synchronized, statistics and speeds,     *)
(* block announcements, the node stopping, failures to prepare or clean up *)
(* a batch of blocks, update_sync_search, and the branch of                *)
(* request_missing_objects that is to resume adding blocks: get_next_span  *)
(* takes filled by value, so its condition is never true.                  *)
(***************************************************************************)
EXTENDS BlockQueue

CONSTANTS
  Conn,             \* connections
  NoConn,
  Block, NoBlock,
  Genesis,
  Height, Parent,   \* of a block
  Bad,              \* blocks that fail verification; they have no children
  ChainOf,          \* ChainOf[c]: the chain of c's peer, from Genesis on
  Silent,           \* connections whose peer may stop answering
  Flaky,            \* connections that may be closed or kicked
  Outgoing,         \* connections this node opened
  COUNT_LIMIT,      \* get_block_sync_size
  IDS_COUNT,        \* BLOCKS_IDS_SYNCHRONIZING_DEFAULT_COUNT
  NSPANS_THRESHOLD, \* BLOCK_QUEUE_NSPANS_THRESHOLD
  SIZE_THRESHOLD,   \* BLOCK_QUEUE_SIZE_THRESHOLD, in blocks
  NEAR_BLOCKS,      \* BLOCK_QUEUE_FORCE_DOWNLOAD_NEAR_BLOCKS
  MaxWire           \* bound: requests of a connection without an answer

VARIABLES
  known,  \* blocks for which have_block is true
  top,    \* the top of the main chain
  q,      \* m_block_queue
  ctx,    \* the connections' contexts
  lock,   \* the connection that holds m_sync_lock
  cur     \* the span it is adding

vars == <<known, top, q, ctx, lock, cur>>

(* A context: m_state, m_needed_objects, m_last_response_height,           *)
(* m_requested_objects, m_last_known_hash, whether m_last_request_time is  *)
(* set, m_callback_request_count, the requests the peer has not answered,  *)
(* whether the connection has not been dropped, and the handler's pc with  *)
(* its local variables force_next_span and the hashes to ask for.          *)
NewContext ==
  [state |-> "new", needed |-> <<>>, last |-> 0, asked |-> {}, hash |-> NoBlock,
   timed |-> FALSE, callbacks |-> 0, wire |-> <<>>, open |-> TRUE,
   pc |-> "idle", force |-> FALSE, ask |-> <<>>]
ClosedContext == [NewContext EXCEPT !.state = "closed"]

ASSUME ConnAssumption ==
  /\ NoConn \notin Conn /\ NoBlock \notin Block
  /\ {Silent, Flaky, Outgoing} \subseteq SUBSET Conn
ASSUME BlockAssumption ==
  /\ Genesis \in Block \ Bad /\ Bad \subseteq Block
  /\ Height \in [Block -> Nat] /\ Parent \in [Block -> Block]
  /\ Height[Genesis] = 0 /\ Parent[Genesis] = Genesis
  /\ \A b \in Block \ {Genesis} : Height[b] = Height[Parent[b]] + 1 /\ Parent[b] \notin Bad
  /\ \A c \in Conn :
       /\ ChainOf[c] \in Seq(Block) \ {<<>>} /\ ChainOf[c][1] = Genesis
       /\ \A i \in 1 .. Len(ChainOf[c]) : Height[ChainOf[c][i]] = i - 1
       /\ \A i \in 2 .. Len(ChainOf[c]) : Parent[ChainOf[c][i]] = ChainOf[c][i - 1]
ASSUME LimitAssumption ==
  {COUNT_LIMIT, IDS_COUNT, NSPANS_THRESHOLD, SIZE_THRESHOLD, NEAR_BLOCKS, MaxWire}
    \subseteq Nat \ {0}

live == {c \in Conn : ctx[c].state \notin {"new", "closed"}}
At(c, pc) == c \in live /\ ctx[c].pc = pc
Idle(c) == At(c, "idle") /\ ctx[c].open

NoSpanYet == [start |-> 0, conn |-> NoConn, blocks |-> <<>>]

height == Height[top] + 1
remote(c) == Len(ChainOf[c])

Init ==
  /\ known = {Genesis} /\ top = Genesis
  /\ q = EmptyQueue
  /\ ctx = [c \in Conn |-> NewContext]
  /\ lock = NoConn /\ cur = NoSpanYet
-----------------------------------------------------------------------------
(* Requests.                                                               *)

(* The start height of the peer's answer to NOTIFY_REQUEST_CHAIN: the      *)
(* height of the first block of the request's list that is on its chain.   *)
(* The list is the short chain history, after the hash h if there is one.  *)
Ancestors(b) ==
  LET up[k \in 0 .. Height[b]] == IF k = 0 THEN b ELSE Parent[up[k - 1]]
  IN  {up[k] : k \in 0 .. Height[b]}
SplitHeight(c, h) ==
  LET chain == Range(ChainOf[c])
  IN  IF h \in chain THEN Height[h]
      ELSE Max({Height[b] : b \in Ancestors(top) \cap chain})

RequestChain(x, c, h) ==
  [x EXCEPT !.wire = Append(@, [type |-> "chain", start |-> SplitHeight(c, h)])]
RequestObjects(x, hs) ==
  [x EXCEPT !.wire = Append(@, [type |-> "objects", hashes |-> hs]),
            !.timed = TRUE, !.pc = "idle", !.ask = <<>>]

Becomes(c, x) == ctx' = [ctx EXCEPT ![c] = x]

(* drop_connection at the end of a handler; on_connection_close follows.   *)
Drop(c, qq) ==
  /\ q' = flush_spans(qq, c, FALSE)
  /\ Becomes(c, [ctx[c] EXCEPT !.open = FALSE, !.pc = "idle"])
-----------------------------------------------------------------------------
(* The peer's side of a connection, and the timers.                        *)

(* process_payload_sync_data, at the handshake and at every timed sync.    *)
SyncData(c) ==
  /\ ctx[c].state \in {"new", "normal", "standby"}
  /\ ctx[c].pc = "idle" /\ ctx[c].open
  /\ Becomes(c, IF Last(ChainOf[c]) \in known
                THEN [ctx[c] EXCEPT !.state = "normal"]
                ELSE [ctx[c] EXCEPT !.state = "synchronizing",
                                    !.callbacks = @ + 1])
  /\ ctx'[c] # ctx[c] /\ ctx'[c].callbacks <= 1
  /\ UNCHANGED <<known, top, q, lock, cur>>

on_callback(c) ==
  /\ Idle(c) /\ ctx[c].callbacks > 0
  /\ LET x == [ctx[c] EXCEPT !.callbacks = @ - 1]
     IN  Becomes(c, CASE x.state = "synchronizing" ->
                           RequestChain([x EXCEPT !.needed = <<>>], c, NoBlock)
                      [] x.state = "standby" ->
                           [x EXCEPT !.state = "synchronizing", !.pc = "try"]
                      [] OTHER -> x)
  /\ UNCHANGED <<known, top, q, lock, cur>>

(* kick_idle_peers, on the idle timer; bounded by the requests that the    *)
(* connection has made and may still make before it comes to rest.         *)
kick_idle_peers(c) ==
  /\ c \in live \cap Flaky /\ ctx[c].state = "synchronizing" /\ ctx[c].timed
  /\ Len(ctx[c].wire) + ctx[c].callbacks + (IF Idle(c) THEN 0 ELSE 1) < MaxWire
  /\ Becomes(c, [ctx[c] EXCEPT !.timed = FALSE, !.state = "standby",
                               !.callbacks = @ + 1])
  /\ UNCHANGED <<known, top, q, lock, cur>>

(* check_standby_peers; a callback that is still waiting is not doubled.   *)
check_standby_peers(c) ==
  /\ c \in live /\ ctx[c].state = "standby" /\ ctx[c].callbacks = 0
  /\ Becomes(c, [ctx[c] EXCEPT !.callbacks = @ + 1])
  /\ UNCHANGED <<known, top, q, lock, cur>>

(* The peer goes away, or was dropped: on_connection_close, once no        *)
(* handler runs.                                                           *)
on_connection_close(c) ==
  /\ At(c, "idle") \/ At(c, "dead")
  /\ c \in Flaky \/ ~ctx[c].open
  /\ q' = flush_spans(q, c, FALSE)
  /\ Becomes(c, ClosedContext)
  /\ UNCHANGED <<known, top, lock, cur>>

(* The time since a span was asked for passes the threshold.               *)
Age(h) ==
  /\ h \in DOMAIN q.spans
  /\ ~Filled(q.spans[h]) /\ ~q.spans[h].old
  /\ q' = [q EXCEPT !.spans[h].old = TRUE]
  /\ UNCHANGED <<known, top, ctx, lock, cur>>
-----------------------------------------------------------------------------
(* Answers.                                                                *)

Answered(c, type) == Idle(c) /\ ctx[c].wire # <<>> /\ Head(ctx[c].wire).type = type

handle_response_chain_entry(c) ==
  /\ Answered(c, "chain")
  /\ LET start == Head(ctx[c].wire).start
         ids == SubSeq(ChainOf[c], start + 1, Min({start + IDS_COUNT, remote(c)}))
     IN  Becomes(c, [ctx[c] EXCEPT !.wire = Tail(@), !.timed = FALSE,
                                   !.needed = ids, !.last = start + Len(ids) - 1,
                                   !.pc = "request", !.force = FALSE])
  /\ UNCHANGED <<known, top, q, lock, cur>>

(* The peer's answer: the blocks of its chain among those asked for.       *)
SentBlocks(c) ==
  Among(Head(ctx[c].wire).hashes, Range(ChainOf[c]))

(* Mutant of handle_response_get_objects: what was answered stays asked    *)
(* for.                                                                    *)
AnsweredStaysAsked(c) ==
  /\ Answered(c, "objects")
  /\ LET bs == SentBlocks(c)
     IN  IF Range(bs) # ctx[c].asked THEN Drop(c, q)
         ELSE /\ q' = add_blocks(q, Height[bs[1]], bs, c)
              /\ Becomes(c, [ctx[c] EXCEPT !.wire = Tail(@), !.timed = FALSE,
                                           !.hash = Last(bs), !.pc = "try"])
  /\ UNCHANGED <<known, top, lock, cur>>

(* Unless the answer is everything this node has asked this peer for, the  *)
(* peer is dropped.                                                        *)
handle_response_get_objects(c) ==
  /\ Answered(c, "objects")
  /\ LET bs == SentBlocks(c)
     IN  IF Range(bs) # ctx[c].asked THEN Drop(c, q)
         ELSE /\ q' = add_blocks(q, Height[bs[1]], bs, c)
              /\ Becomes(c, [ctx[c] EXCEPT !.wire = Tail(@), !.timed = FALSE,
                                           !.asked = {}, !.hash = Last(bs),
                                           !.pc = "try"])
  /\ UNCHANGED <<known, top, lock, cur>>
-----------------------------------------------------------------------------
(* try_add_next_blocks.                                                    *)

(* Nobody has the span of the next block, or whoever has it takes too      *)
(* long; the shorter threshold of a connection on standby is not told      *)
(* apart.                                                                  *)
should_download_next_span(c, qq) ==
  /\ remote(c) > height
  /\ ~has_next_span(qq, height)
     \/ (~Filled(qq.spans[First(qq)]) /\ qq.spans[First(qq)].old)

(* Mutant of TryLock: if it is taken, the handler is done.                 *)
LockedIsDone(c) ==
  /\ At(c, "try")
  /\ IF lock = NoConn
     THEN lock' = c /\ Becomes(c, [ctx[c] EXCEPT !.pc = "next"])
     ELSE Becomes(c, [ctx[c] EXCEPT !.pc = "idle"]) /\ UNCHANGED lock
  /\ UNCHANGED <<known, top, q, cur>>

(* Take m_sync_lock, or go back to download.                               *)
TryLock(c) ==
  /\ At(c, "try")
  /\ IF lock = NoConn
     THEN lock' = c /\ Becomes(c, [ctx[c] EXCEPT !.pc = "next"])
     ELSE /\ Becomes(c, [ctx[c] EXCEPT !.pc = "request", !.force = FALSE])
          /\ UNCHANGED lock
  /\ UNCHANGED <<known, top, q, cur>>

(* Mutant of ParentKnown: a parent that was asked for counts as known.     *)
ParentOrdered(s) == Parent[s.blocks[1]] \in known \cup q.requested

ParentKnown(s) == Parent[s.blocks[1]] \in known

(* One turn of the loop: look at the lowest filled span.  The loop ends    *)
(* ("leave") or is left by a goto ("skip").                                *)
NextSpan(c) ==
  /\ At(c, "next")
  /\ UNCHANGED <<known, top, lock>>
  /\ LET Goes(pc) == [ctx[c] EXCEPT !.pc = pc]
     IN  IF FilledAt(q) = {} THEN Becomes(c, Goes("leave")) /\ UNCHANGED <<q, cur>>
         ELSE
           LET start == Min(FilledAt(q))
               s == q.spans[start]
               parent == Parent[s.blocks[1]]
               without == remove_spans(q, s.conn, start)
           IN  \/ /\ Last(s.blocks) \in known
                  /\ q' = without /\ UNCHANGED <<ctx, cur>>
               \/ /\ Last(s.blocks) \notin known /\ ParentKnown(s)
                  /\ cur' = [start |-> start, conn |-> s.conn, blocks |-> s.blocks]
                  /\ Becomes(c, Goes("add")) /\ UNCHANGED q
               \/ /\ Last(s.blocks) \notin known /\ ~ParentKnown(s)
                  /\ UNCHANGED cur
                  /\ \/ /\ parent \in q.requested
                        /\ Becomes(c, Goes("leave")) /\ UNCHANGED q
                     \/ /\ parent \notin q.requested /\ start > height
                        /\ Becomes(c, Goes("skip")) /\ UNCHANGED q
                     \/ /\ parent \notin q.requested /\ start <= height
                        /\ Becomes(c, [Goes("skip") EXCEPT !.needed = <<>>, !.last = 0])
                        /\ q' = without

(* The lock is released; after the end of the loop, having found out       *)
(* whether to insist on the next span.                                     *)
Unlock(c) ==
  /\ At(c, "leave") \/ At(c, "skip")
  /\ lock' = NoConn
  /\ Becomes(c, [ctx[c] EXCEPT !.pc = "request",
                    !.force = At(c, "leave") /\ should_download_next_span(c, q)])
  /\ UNCHANGED <<known, top, q, cur>>

(* The blocks of cur are handled; then the spans of its connection up to   *)
(* it are removed.                                                         *)
AddBlocks(c) ==
  /\ At(c, "add") /\ Range(cur.blocks) \cap Bad = {}
  /\ known' = known \cup Range(cur.blocks)
  /\ top' = IF Height[Last(cur.blocks)] > Height[top] THEN Last(cur.blocks) ELSE top
  /\ q' = remove_spans(q, cur.conn, cur.start)
  /\ Becomes(c, [ctx[c] EXCEPT !.pc = "next"])
  /\ cur' = NoSpanYet /\ UNCHANGED lock

(* A block fails: the span's connection is dropped with all its spans,     *)
(* wherever its handler is, and this handler returns without asking for    *)
(* anything.                                                               *)
DropSpan(c) ==
  /\ LET dropped == {cur.conn} \cap live
     IN  /\ q' = remove_spans(IF dropped = {} THEN q ELSE flush_spans(q, cur.conn, TRUE),
                              cur.conn, cur.start)
         /\ ctx' = [d \in Conn |->
                      [ctx[d] EXCEPT !.open = @ /\ d \notin dropped,
                                     !.pc = IF d = c THEN "idle" ELSE @]]
  /\ lock' = NoConn /\ cur' = NoSpanYet

(* Mutant of AddFails: the bad block becomes the top.                      *)
AddFailsLate(c) ==
  /\ At(c, "add") /\ Range(cur.blocks) \cap Bad # {}
  /\ known' = known \cup Range(cur.blocks)
  /\ top' = IF Height[Last(cur.blocks)] > Height[top] THEN Last(cur.blocks) ELSE top
  /\ DropSpan(c)

AddFails(c) ==
  /\ At(c, "add") /\ Range(cur.blocks) \cap Bad # {}
  /\ LET good == Among(cur.blocks, Block \ Bad)
     IN  /\ known' = known \cup Range(cur.blocks)
         /\ top' = IF good # <<>> /\ Height[Last(good)] > Height[top]
                   THEN Last(good) ELSE top
  /\ DropSpan(c)
-----------------------------------------------------------------------------
(* request_missing_objects.                                                *)

(* Drop the leading hashes that are in have; if all are, the last one is   *)
(* where the next chain request starts.                                    *)
skip_unneeded_hashes(x, have) ==
  LET n == Leading(x.needed, have)
  IN  [x EXCEPT !.needed = SubSeq(@, n + 1, Len(@)),
                !.hash = IF n > 0 /\ n = Len(x.needed) THEN Last(x.needed) ELSE @]

(* The end of the function: ask for more hashes, or be done with the peer; *)
(* if something is still outstanding then, the connection is dropped.      *)
Finish(c, x, qq) ==
  LET y == [x EXCEPT !.needed = <<>>, !.pc = "idle", !.ask = <<>>]
  IN  IF x.last < remote(c) - 1
      THEN /\ Becomes(c, [RequestChain(y, c, x.hash) EXCEPT !.timed = TRUE])
           /\ q' = qq
      ELSE IF x.asked # {}
      THEN Drop(c, qq)
      ELSE Becomes(c, [y EXCEPT !.state = "normal"]) /\ q' = qq

(* Up to the decision what to do: flush the spans of connections that are  *)
(* gone, and unless the next span is to be forced, see whether the queue   *)
(* is full.  An outgoing connection may be dropped if no block has been    *)
(* added for long.                                                         *)
RequestMissing(c) ==
  /\ At(c, "request")
  /\ UNCHANGED <<known, top, lock, cur>>
  /\ \E qq \in {flush_stale_spans(q, live)} :
     \E x \in {skip_unneeded_hashes(ctx[c], known \cup qq.have)} :
       LET nextNeeded == get_next_needed_height(qq, height)
           nextBlock == IF x.needed = <<>> THEN nextNeeded
                        ELSE x.last - Len(x.needed) + 1
           near == Min({nextBlock, nextNeeded}) < height + NEAR_BLOCKS
           room == \/ Cardinality(FilledAt(qq)) < NSPANS_THRESHOLD
                   \/ get_data_size(qq) < SIZE_THRESHOLD
           ready == /\ lock = NoConn /\ has_next_span(qq, height)
                    /\ Filled(qq.spans[First(qq)])
           resumed == [x EXCEPT !.state = "synchronizing", !.pc = "reserve"]
           paused == [x EXCEPT !.state = "standby", !.pc = "idle"]
       IN  IF ctx[c].force
           THEN q' = qq /\ Becomes(c, [ctx[c] EXCEPT !.pc = "force"])
           ELSE IF near /\ should_download_next_span(c, qq)
           THEN q' = qq /\ Becomes(c, [resumed EXCEPT !.force = TRUE, !.pc = "force"])
           ELSE IF near \/ room
           THEN q' = qq /\ Becomes(c, resumed)
           ELSE \/ /\ q' = qq
                   /\ Becomes(c, IF ready THEN [paused EXCEPT !.callbacks = @ + 1]
                                 ELSE paused)
                \/ ~ready /\ lock = NoConn /\ c \in Outgoing /\ Drop(c, qq)

(* Mutant of ForceNext: the hashes asked for again are not remembered.     *)
ForceUnasked(c) ==
  /\ At(c, "force")
  /\ LET hs == get_next_span_if_scheduled(q)
     IN  Becomes(c, IF hs = <<>> THEN [ctx[c] EXCEPT !.pc = "reserve"]
                    ELSE [ctx[c] EXCEPT !.ask = hs, !.pc = "reset"])
  /\ UNCHANGED <<known, top, q, lock, cur>>

(* force_next_span: ask for the first span again if it is scheduled.       *)
ForceNext(c) ==
  /\ At(c, "force")
  /\ LET hs == get_next_span_if_scheduled(q)
     IN  Becomes(c, IF hs = <<>> THEN [ctx[c] EXCEPT !.pc = "reserve"]
                    ELSE [ctx[c] EXCEPT !.asked = @ \cup Range(hs), !.ask = hs,
                                        !.pc = "reset"])
  /\ UNCHANGED <<known, top, q, lock, cur>>

(* reset_next_span_time, which throws if the first span has been filled or *)
(* removed meanwhile; nobody reads from the connection after that.         *)
ResetTime(c) ==
  /\ At(c, "reset")
  /\ IF ResetThrows(q)
     THEN Becomes(c, [ctx[c] EXCEPT !.pc = "dead"]) /\ UNCHANGED q
     ELSE /\ q' = reset_next_span_time(q)
          /\ Becomes(c, RequestObjects(ctx[c], ctx[c].ask))
  /\ UNCHANGED <<known, top, lock, cur>>

(* Reserve a span of the peer's hashes; if there is none to reserve, ask   *)
(* for the first span if it is scheduled, unless that was tried already.   *)
Reserve(c) ==
  /\ At(c, "reserve")
  /\ UNCHANGED <<known, top, lock, cur>>
  /\ \E x \in {ctx[c]}, y \in {skip_unneeded_hashes(ctx[c], known)} :
     \E r \in {reserve_span(q, y.last, COUNT_LIMIT, c, y.needed)} :
       LET after == r.start + r.n - (y.last - Len(y.needed) + 1)
           again == IF x.force THEN <<>> ELSE get_next_span_if_scheduled(q)
       IN  IF x.needed = <<>> /\ ~x.force THEN Finish(c, x, q)
           ELSE IF x.last + 1 < Len(x.needed) THEN Finish(c, [x EXCEPT !.last = 0], q)
           ELSE IF r.n > 0
           THEN /\ q' = r.q
                /\ Becomes(c, RequestObjects(
                     [y EXCEPT !.needed = SubSeq(@, after + 1, Len(@)),
                               !.asked = @ \cup Range(r.hashes)], r.hashes))
           ELSE IF again # <<>>
           THEN /\ UNCHANGED q
                /\ Becomes(c, RequestObjects(
                     [y EXCEPT !.needed = Among(@, Block \ Range(again)),
                               !.asked = @ \cup Range(again)], again))
           ELSE Finish(c, y, q)
-----------------------------------------------------------------------------
Handler(c) ==
  \/ TryLock(c) \/ NextSpan(c) \/ Unlock(c) \/ AddBlocks(c) \/ AddFails(c)
  \/ RequestMissing(c) \/ ForceNext(c) \/ ResetTime(c) \/ Reserve(c)

Answer(c) == handle_response_chain_entry(c) \/ handle_response_get_objects(c)

Next ==
  \/ \E c \in Conn : \/ Handler(c) \/ Answer(c) \/ SyncData(c) \/ on_callback(c)
                     \/ kick_idle_peers(c) \/ check_standby_peers(c)
                     \/ on_connection_close(c)
  \/ \E h \in Range(Height) : Age(h)

Spec == Init /\ [][Next]_vars

(* A connection's strand runs: handlers to their end, then callbacks and   *)
(* the answers of a peer that is not Silent, in whatever order.  The       *)
(* timers fire, time passes, dropped connections are closed.  Nothing      *)
(* makes a peer disconnect or be kicked.                                   *)
Fairness ==
  /\ \A c \in Conn :
       /\ WF_vars(Handler(c) \/ on_callback(c) \/ (c \notin Silent /\ Answer(c)))
       /\ WF_vars(check_standby_peers(c) \/ SyncData(c))
       /\ WF_vars(~ctx[c].open /\ on_connection_close(c))
  /\ WF_vars(\E h \in Range(Height) : Age(h))

FairSpec == Spec /\ Fairness
-----------------------------------------------------------------------------
(* Properties.                                                             *)

Span == [conn : Conn, hashes : Seq(Block), blocks : Seq(Block), old : BOOLEAN]
Context ==
  [state : {"new", "closed", "synchronizing", "standby", "normal"},
   needed : Seq(Block), last : Nat, asked : SUBSET Block,
   hash : Block \cup {NoBlock}, timed : BOOLEAN, callbacks : 0 .. MaxWire,
   wire : Seq([type : {"chain"}, start : Nat]
              \cup [type : {"objects"}, hashes : Seq(Block)]),
   open : BOOLEAN,
   pc : {"idle", "try", "next", "add", "leave", "skip", "request", "force", "reset",
         "reserve", "dead"},
   force : BOOLEAN, ask : Seq(Block)]

(* Every variable has its type, and a peer has at most MaxWire requests,   *)
(* those that its waiting callbacks will make counted.                     *)
TypeOK ==
  /\ known \subseteq Block /\ top \in known \ Bad
  /\ \A h \in DOMAIN q.spans : h \in Nat /\ q.spans[h] \in Span
  /\ q.requested \subseteq Block /\ q.have \subseteq Block
  /\ \A c \in Conn : /\ ctx[c] \in Context
                     /\ Len(ctx[c].wire) + ctx[c].callbacks <= MaxWire
  /\ lock \in Conn \cup {NoConn}
  /\ cur = NoSpanYet \/ cur.conn \in Conn

(* A hash is marked as requested only while a span holds it, and as had    *)
(* only while a filled span does: otherwise skip_unneeded_hashes and       *)
(* reserve_span would pass over a block that nobody is going to deliver.   *)
HashesBacked ==
  /\ q.requested \subseteq HashesOf(q, DOMAIN q.spans)
  /\ q.have \subseteq HashesOf(q, FilledAt(q))

(* The connection of a scheduled span has asked its peer for the span, so  *)
(* that the queue does not wait for blocks nobody was asked for; unless    *)
(* the connection is going away.                                           *)
ScheduledIsAsked ==
  \A h \in DOMAIN q.spans :
    LET s == q.spans[h]
    IN  ~Filled(s) /\ s.conn \in live /\ ctx[s.conn].open =>
          Range(s.hashes) \subseteq ctx[s.conn].asked

(* Between handlers everything a connection has asked for is on its way:   *)
(* whatever was kicked, asked for twice or answered late, no leftover in   *)
(* m_requested_objects makes the next full answer look incomplete.         *)
AskedIsComing ==
  \A c \in Conn : Idle(c) =>
    ctx[c].asked \subseteq UNION {Range(ctx[c].wire[i].hashes) :
      i \in {j \in DOMAIN ctx[c].wire : ctx[c].wire[j].type = "objects"}}

(* An answer that passes the comparison with m_requested_objects has a     *)
(* block: handle_response_get_objects queues it at the height of its first *)
(* block without looking whether there is one.                             *)
AnswersHaveBlocks ==
  \A c \in Conn : Answered(c, "objects") /\ Range(SentBlocks(c)) = ctx[c].asked =>
    SentBlocks(c) # <<>>

(* No block is added before its parent, in whatever order the spans arrive *)
(* and are replaced.                                                       *)
KnownClosed == \A b \in known : Parent[b] \in known

(* The handler returned although its connection has nothing to wait for.   *)
Abandoned(c) ==
  /\ Idle(c) /\ ctx[c].state = "synchronizing"
  /\ ctx[c].wire = <<>> /\ ctx[c].callbacks = 0

(* What excuses c's connection: it was dropped because its peer was asked  *)
(* for a late span of another chain, threw in reset_next_span_time, or was *)
(* left without a request after adding a bad block.                        *)
Excused(c) ==
  \/ ~ctx[c].open /\ ~(ctx[c].asked \subseteq Range(ChainOf[c]))
  \/ ctx[c].pc = "dead"
  \/ Abandoned(c) /\ known \cap Bad # {}

Reliable == Conn \ (Silent \cup Flaky \cup Outgoing)

(* The chain of a peer that answers is downloaded, whatever the other      *)
(* connections do: its top block is known, or in a filled span.            *)
Downloads ==
  \A c \in Reliable :
    c \in live ~> \/ Last(ChainOf[c]) \in known
                  \/ \E h \in FilledAt(q) : Last(ChainOf[c]) \in Range(q.spans[h].blocks)
                  \/ Excused(c)

(* ... and is added: "In this case, if we can add blocks instead, do so"   *)
(* (request_missing_objects, of a connection that can use no more hashes). *)
Synchronises ==
  \A c \in Reliable : c \in live ~> Last(ChainOf[c]) \in known \/ Excused(c)
=============================================================================
