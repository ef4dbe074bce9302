------------------------------- MODULE TxPool -------------------------------
(***************************************************************************)
(* The transaction pool of a node (cryptonote_core/tx_pool.cpp): the table *)
(* of pooled transactions in the database, and the indexes in memory that  *)
(* are kept beside it: the key images, the transactions in order of fee,   *)
(* the total weight, the cached input checks and the timed-out             *)
(* transactions.  The callers are part of the model: core (add_new_tx),    *)
(* the block handler, which takes transactions out and puts them back in   *)
(* a database batch, the relay, the idle timer and the block template.     *)
(*                                                                         *)
(* Every call holds the pool lock, so a call is one step, except that      *)
(* add_tx ends with prune, whose loop is one step per entry: its database  *)
(* transaction is separate and can be given up in the middle.              *)
(*                                                                         *)
(* Left out: the checks of add_tx that depend on the transaction alone     *)
(* (Tx holds those that pass them), pruned transactions, the flags that    *)
(* are only reported (relayed, double_spend_seen), the cache of parsed     *)
(* transactions, and the reward rule of fill_block_template (blocks stay   *)
(* below the median weight, where every fee raises the reward).  A         *)
(* transaction spends one key image, and a block holds at most one         *)
(* transaction.                                                            *)
(***************************************************************************)
EXTENDS Integers, Sequences, FiniteSetsExt, TLC

CONSTANTS
  Tx, NoTx,         \* transactions; NoTx: a block without one
  Image,            \* Image[t]: the key image t spends
  Weight, Rate,     \* Weight[t], and the fee per unit of weight
  Locked,           \* unlock_time = CRYPTONOTE_SPINNED_MONEY_LOCKED_BLOCKS
  Msg,              \* transactions that carry a message (is_message)
  Needs,            \* Needs[t]: the height of t's newest ring member
  Blk, Genesis,     \* blocks, and the first one
  Prev, BlkTx,      \* a block's parent and transaction
  LOCKED_RATE,      \* the 10000000 that add_tx gives to Locked
  MAX_WEIGHT,       \* m_txpool_max_weight
  MAX_TOTAL,        \* max_total_weight of a block template
  LIVETIME, ALT_LIVETIME, MESSAGE_LIVETIME,
  Offered,          \* the relay methods with which transactions arrive
  MaxClock,         \* bound: the clock stops here
  MaxCounted        \* bound: m_txpool_weight stays at most this

VARIABLES
  pool,      \* the txpool tables as the running transaction sees them
  chain,     \* the main chain, as the running batch sees it
  saved,     \* both, as last committed
  batch,     \* is the block handler's batch open?
  batchOk,   \* m_batch_success
  images,    \* m_spent_key_images
  sorted,    \* m_txs_by_fee_and_receive_time
  weight,    \* m_txpool_weight
  timedOut,  \* m_timed_out_transactions
  cache,     \* m_input_cache: the cached verdicts
  it,        \* the iterator of the prune in progress; 0 if there is none
  clock,     \* time()
  up,        \* did the node start?
  torn       \* was the table rolled back under indexes that were not?

mem == <<images, sorted, weight>>
vars == <<pool, chain, saved, batch, batchOk, mem, timedOut, cache, it, clock,
          up, torn>>

KeyImage == {Image[t] : t \in Tx}
NoBlk == "null_hash"

Method == {"none", "local", "stem", "fluff", "block"}
Rank == [none |-> 0, local |-> 1, stem |-> 2, fluff |-> 3, block |-> 4]

ASSUME TxAssumption ==
  /\ NoTx \notin Tx
  /\ Weight \in [Tx -> Nat \ {0}] /\ Rate \in [Tx -> Nat] /\ Needs \in [Tx -> Nat]
  /\ Locked \subseteq Tx /\ Msg \subseteq Tx
  /\ DOMAIN Image = Tx
ASSUME ChainAssumption ==
  /\ Genesis \in Blk /\ NoBlk \notin Blk
  /\ Prev \in [Blk -> Blk] /\ BlkTx \in [Blk -> Tx \cup {NoTx}]
(* The weight of the transactions S together.                              *)
TotalWeight(S) ==
  LET sum[T \in SUBSET S] ==
        IF T = {} THEN 0
        ELSE LET t == CHOOSE u \in T : TRUE IN Weight[t] + sum[T \ {t}]
  IN  sum[S]

(* A size_t holds the weight of all transactions together.                 *)
ASSUME WeightAssumption ==
  IsFiniteSet(Tx) /\ TotalWeight(Tx) <= MaxCounted
(* txCompare says of two transactions with the same fee and time that each *)
(* comes before the other; the model keeps the fees apart.                 *)
ASSUME FeeAssumption ==
  \A t, u \in Tx : t # u =>
    /\ Rate[t] # Rate[u] /\ Rate[t] < LOCKED_RATE
    /\ ~(t \in Locked /\ u \in Locked)
ASSUME BoundAssumption ==
  /\ {LOCKED_RATE, MAX_WEIGHT, MAX_TOTAL, LIVETIME, ALT_LIVETIME,
      MESSAGE_LIVETIME, MaxClock, MaxCounted} \subseteq Nat
  /\ Offered \subseteq Method \ {"block"}
-----------------------------------------------------------------------------
(* Sequences: the last element and the rest, an element more or less, and  *)
(* the elements of a set in some order.                                    *)

Last(s) == s[Len(s)]
Front(s) == SubSeq(s, 1, Len(s) - 1)
InsertAt(s, i, e) == SubSeq(s, 1, i - 1) \o <<e>> \o SubSeq(s, i, Len(s))
RemoveAt(s, i) == SubSeq(s, 1, i - 1) \o SubSeq(s, i + 1, Len(s))
SetToSeq(S) == CHOOSE f \in [1 .. Cardinality(S) -> S] : IsInjective(f)
-----------------------------------------------------------------------------
(* The chain.                                                              *)

ChainTxs(c) == {BlkTx[c[i]] : i \in DOMAIN c} \ {NoTx}
Spent(c) == {Image[t] : t \in ChainTxs(c)}

(* Blockchain::check_tx_inputs: the ring members exist and the key image   *)
(* is not spent.                                                           *)
InputsOk(c, t) == Needs[t] < Len(c) /\ Image[t] \notin Spent(c)

(* get_block_id_by_height(f.h) = f.b for a failure f; never for null_hash. *)
StillThere(c, f) == f.h + 1 \in DOMAIN c /\ c[f.h + 1] = f.b
-----------------------------------------------------------------------------
(* The table and its indexes: s is a record of the four that change        *)
(* together.                                                               *)

Now == [pool |-> pool, images |-> images, sorted |-> sorted, weight |-> weight]
Become(s) ==
  /\ pool' = s.pool /\ images' = s.images
  /\ sorted' = s.sorted /\ weight' = s.weight

(* size_t arithmetic: a weight below zero wraps to a huge one.             *)
Plus(w, x) == (w + x) % (MaxCounted + 1)
Minus(w, x) == (w - x) % (MaxCounted + 1)

(* matches_category for relay_category::legacy.                            *)
IsLegacy(s, t) == t \in DOMAIN s.pool /\ s.pool[t].relay \in {"none", "fluff", "block"}

Priority(t) == IF t \in Locked THEN LOCKED_RATE ELSE Rate[t]

(* emplace: txCompare puts higher fees first, then earlier times.          *)
Emplace(so, e) ==
  LET before == {i \in DOMAIN so : \/ so[i].rate > e.rate
                                   \/ so[i].rate = e.rate /\ so[i].recv < e.recv}
  IN  IF e \in Range(so) THEN so ELSE InsertAt(so, Cardinality(before) + 1, e)

(* Erase what find_tx_in_sorted_container finds: the first entry of t.     *)
EraseFirst(so, t) ==
  LET at == {i \in DOMAIN so : so[i].tx = t}
  IN  IF at = {} THEN so ELSE RemoveAt(so, Min(at))

(* Mutant of Removed: the whole set of the key image goes.                 *)
RemovedAll(s, t) ==
  [s EXCEPT !.pool = Restrict(@, DOMAIN @ \ {t}),
            !.weight = Minus(@, Weight[t]),
            !.images[Image[t]] = {}]

(* remove_txpool_tx, m_txpool_weight -= weight,                            *)
(* remove_transaction_keyimages.                                           *)
Removed(s, t) ==
  [s EXCEPT !.pool = Restrict(@, DOMAIN @ \ {t}),
            !.weight = Minus(@, Weight[t]),
            !.images[Image[t]] = @ \ {t}]

take_tx(s, t) ==
  LET r == Removed(s, t) IN [r EXCEPT !.sorted = EraseFirst(@, t)]

(* take_tx for each of the transactions T, in some order.                  *)
TakeAll(s, T) ==
  LET order == SetToSeq(T)
      left[n \in 0 .. Len(order)] ==
        IF n = 0 THEN s ELSE take_tx(left[n - 1], order[n])
  IN  left[Len(order)]
-----------------------------------------------------------------------------
(* Adding a transaction.                                                   *)

NoFail == [h |-> 0, b |-> NoBlk]
NewMeta(m, ok) == [relay |-> m, recv |-> clock, used |-> ok, fail |-> NoFail]

(* have_tx_keyimges_as_spent.                                              *)
have_tx_keyimges_as_spent(s, t) ==
  LET owners == s.images[Image[t]]
  IN  owners # {} /\ (owners # {t} \/ IsLegacy(s, t))

(* Does insert_key_images succeed?                                         *)
insert_key_images(s, t, m) ==
  LET owners == s.images[Image[t]]
  IN  /\ m # "block" => owners \subseteq {t}
      /\ t \in owners => ~IsLegacy(s, t)

(* f with v at x.                                                          *)
With(f, x, v) == [y \in DOMAIN f \cup {x} |-> IF y = x THEN v ELSE f[y]]

WithImage(s, t) == [s EXCEPT !.images[Image[t]] = @ \cup {t}]
Put(s, t, meta) ==
  [WithImage(s, t) EXCEPT
     !.pool = With(@, t, meta),
     !.sorted = Emplace(@, [rate |-> Priority(t), recv |-> meta.recv, tx |-> t])]

Result(added, s) == [added |-> added, s |-> s]
Counted(s, t) == Result(TRUE, [s EXCEPT !.weight = Plus(@, Weight[t])])

(* Mutant of add_tx: a transaction with bad inputs is not counted.         *)
AddUncounted(s, t, m, ok) ==
  LET known == t \in DOMAIN s.pool
      as == IF m = "stem" /\ known /\ s.pool[t].relay = "stem" THEN "fluff" ELSE m
  IN  IF ~ok
      THEN IF ~insert_key_images(s, t, m) THEN Result(FALSE, s)
           ELSE IF known THEN Result(FALSE, WithImage(s, t))
           ELSE Result(TRUE, Put(s, t, NewMeta(m, FALSE)))
      ELSE IF known /\ Rank[s.pool[t].relay] >= Rank[as] THEN Counted(s, t)
      ELSE IF ~insert_key_images(s, t, as) THEN Result(FALSE, s)
      ELSE Counted(Put(s, t, NewMeta(as, TRUE)), t)

(* add_tx from the input check on, with the verdict ok of that check.  A   *)
(* transaction with bad inputs gets this far only if it is kept by a       *)
(* block.  add_txpool_tx throws if the transaction is in the table; one    *)
(* that is there already and is not upgraded is counted all the same.      *)
add_tx(s, t, m, ok) ==
  LET known == t \in DOMAIN s.pool
      as == IF m = "stem" /\ known /\ s.pool[t].relay = "stem" THEN "fluff" ELSE m
  IN  IF ~ok
      THEN IF ~insert_key_images(s, t, m) THEN Result(FALSE, s)
           ELSE IF known THEN Result(FALSE, WithImage(s, t))
           ELSE Counted(Put(s, t, NewMeta(m, FALSE)), t)
      ELSE IF known /\ Rank[s.pool[t].relay] >= Rank[as] THEN Counted(s, t)
      ELSE IF ~insert_key_images(s, t, as) THEN Result(FALSE, s)
      ELSE Counted(Put(s, t, NewMeta(as, TRUE)), t)

(* Adopt the result of add_tx; a success goes on to prune.                 *)
Added(r) ==
  /\ Become(r.s)
  /\ it' = IF r.added /\ r.s.weight > MAX_WEIGHT THEN Len(r.s.sorted) ELSE 0
-----------------------------------------------------------------------------
(* The state.                                                              *)

Init ==
  /\ pool = <<>> /\ chain = <<Genesis>>
  /\ saved = [pool |-> pool, chain |-> chain]
  /\ batch = FALSE /\ batchOk = TRUE
  /\ images = [k \in KeyImage |-> {}] /\ sorted = <<>> /\ weight = 0
  /\ timedOut = {} /\ cache = <<>> /\ it = 0 /\ clock = 0
  /\ up = TRUE /\ torn = FALSE

(* A call outside, and one inside the block handler's batch.               *)
Free == up /\ it = 0 /\ ~batch
InBatch == up /\ it = 0 /\ batch

Commit == saved' = [pool |-> pool', chain |-> chain']
Fits(t) == weight + Weight[t] <= MaxCounted
-----------------------------------------------------------------------------
(* Transactions from the network and the RPC.                              *)

(* The pool's check_tx_inputs: the cached verdict, or a fresh one.         *)
Verdict(c, ch, t) == IF t \in DOMAIN ch THEN ch[t] ELSE InputsOk(c, t)

(* core::add_new_tx and add_tx.                                            *)
IncomingTx(t, m) ==
  /\ Free /\ Fits(t)
  /\ ~IsLegacy(Now, t) /\ t \notin ChainTxs(chain)
  /\ t \notin timedOut /\ ~have_tx_keyimges_as_spent(Now, t)
  /\ LET ok == Verdict(chain, cache, t)
     IN  /\ cache' = With(cache, t, ok)
         /\ IF ok THEN Added(add_tx(Now, t, m, TRUE))
            ELSE UNCHANGED <<pool, mem, it>>
  /\ UNCHANGED <<chain, batch, batchOk, timedOut, clock, up, torn>>
  /\ Commit

(* on_transactions_relayed, set_relayed.                                   *)
SetRelayed(t, m) ==
  /\ Free /\ t \in DOMAIN pool
  /\ Rank[pool[t].relay] < Rank[m]
  /\ pool' = [pool EXCEPT ![t].relay = m]
  /\ UNCHANGED <<chain, batch, batchOk, mem, timedOut, cache, it, clock, up, torn>>
  /\ Commit

(* flush_txes_from_pool.                                                   *)
FlushTx(t) ==
  /\ Free /\ t \in DOMAIN pool
  /\ Become(take_tx(Now, t))
  /\ UNCHANGED <<chain, batch, batchOk, timedOut, cache, it, clock, up, torn>>
  /\ Commit

Expired(t) ==
  LET age == clock - pool[t].recv
  IN  \/ pool[t].relay # "block" /\ age > LIVETIME
      \/ pool[t].relay = "block" /\ age > ALT_LIVETIME
      \/ t \in Msg /\ age > MESSAGE_LIVETIME

remove_stuck_transactions ==
  LET old == {t \in DOMAIN pool : Expired(t)}
  IN  /\ Free /\ old # {}
      /\ Become(TakeAll(Now, old))
      /\ timedOut' = timedOut \cup old
      /\ UNCHANGED <<chain, batch, batchOk, cache, it, clock, up, torn>>
      /\ Commit
-----------------------------------------------------------------------------
(* prune: one step per entry, from the last one; the first entry is never  *)
(* removed.                                                                *)

PruneDone ==
  /\ up /\ it > 0 /\ (it = 1 \/ weight <= MAX_WEIGHT)
  /\ it' = 0
  /\ saved' = IF batch THEN saved ELSE [pool |-> pool, chain |-> chain]
  /\ UNCHANGED <<pool, chain, batch, batchOk, mem, timedOut, cache, clock, up, torn>>

(* Mutant of PruneStep: the key image is kept.                             *)
PruneKeepsImage ==
  /\ up /\ it > 1 /\ weight > MAX_WEIGHT
  /\ sorted[it].tx \in DOMAIN pool
  /\ LET t == sorted[it].tx
         r == Removed(Now, t)
     IN  IF pool[t].relay = "block" THEN UNCHANGED <<pool, mem>>
         ELSE Become([r EXCEPT !.sorted = RemoveAt(@, it), !.images = images])
  /\ it' = it - 1
  /\ UNCHANGED <<chain, saved, batch, batchOk, timedOut, cache, clock, up, torn>>

(* Mutant of PruneStep: the iterator stays behind the erased entry.        *)
PruneStays ==
  /\ up /\ it > 1 /\ weight > MAX_WEIGHT
  /\ sorted[it].tx \in DOMAIN pool
  /\ LET t == sorted[it].tx
         r == Removed(Now, t)
     IN  IF pool[t].relay = "block" THEN UNCHANGED <<pool, mem>> /\ it' = it - 1
         ELSE Become([r EXCEPT !.sorted = RemoveAt(@, it)]) /\ it' = it
  /\ UNCHANGED <<chain, saved, batch, batchOk, timedOut, cache, clock, up, torn>>

PruneStep ==
  /\ up /\ it > 1 /\ weight > MAX_WEIGHT
  /\ sorted[it].tx \in DOMAIN pool
  /\ LET t == sorted[it].tx
         r == Removed(Now, t)
     IN  IF pool[t].relay = "block" THEN UNCHANGED <<pool, mem>>
         ELSE Become([r EXCEPT !.sorted = RemoveAt(@, it)])
  /\ it' = it - 1
  /\ UNCHANGED <<chain, saved, batch, batchOk, timedOut, cache, clock, up, torn>>

(* An entry whose transaction is not in the table ends prune without a     *)
(* commit: what it removed from the table is there again, unless the       *)
(* block handler's batch is open.                                          *)
PruneGivesUp ==
  /\ up /\ it > 1 /\ weight > MAX_WEIGHT
  /\ sorted[it].tx \notin DOMAIN pool
  /\ it' = 0
  /\ IF batch THEN UNCHANGED <<pool, torn>>
     ELSE pool' = saved.pool /\ torn' = (torn \/ pool # saved.pool)
  /\ UNCHANGED <<chain, saved, batch, batchOk, mem, timedOut, cache, clock, up>>

prune == PruneDone \/ PruneStep \/ PruneGivesUp
-----------------------------------------------------------------------------
(* The block handler, in its batch.  The pool lock is held throughout.     *)

prepare_handle_incoming_blocks ==
  /\ Free
  /\ batch' = TRUE /\ batchOk' = TRUE
  /\ UNCHANGED <<pool, chain, saved, mem, timedOut, cache, it, clock, up, torn>>

(* handle_incoming_txs with relay_method::block: a block's transaction     *)
(* arrives before the block.                                               *)
IncomingBlockTx(t) ==
  /\ InBatch /\ Fits(t)
  /\ ~IsLegacy(Now, t) /\ t \notin ChainTxs(chain)
  /\ Added(add_tx(Now, t, "block", InputsOk(chain, t)))
  /\ UNCHANGED <<chain, saved, batch, batchOk, timedOut, cache, clock, up, torn>>

Extends(b) == b # Genesis /\ Prev[b] = Last(chain)

(* Mutant of BlockAdded: on_blockchain_inc does nothing.                   *)
BlockAddedKeepsCache(b) ==
  /\ InBatch /\ Extends(b)
  /\ LET t == BlkTx[b]
     IN  \/ t = NoTx /\ UNCHANGED <<pool, mem>>
         \/ /\ t \in DOMAIN pool \ Msg /\ InputsOk(chain, t)
            /\ Become(take_tx(Now, t))
  /\ chain' = Append(chain, b)
  /\ UNCHANGED <<saved, batch, batchOk, timedOut, cache, it, clock, up, torn>>

(* handle_block_to_main_chain accepts b: its transaction is taken from the *)
(* pool, and on_blockchain_inc clears the cached input checks.             *)
BlockAdded(b) ==
  /\ InBatch /\ Extends(b)
  /\ LET t == BlkTx[b]
     IN  \/ t = NoTx /\ UNCHANGED <<pool, mem>>
         \/ /\ t \in DOMAIN pool \ Msg /\ InputsOk(chain, t)
            /\ Become(take_tx(Now, t))
  /\ chain' = Append(chain, b) /\ cache' = <<>>
  /\ UNCHANGED <<saved, batch, batchOk, timedOut, it, clock, up, torn>>

(* How handle_block_to_main_chain refuses a block after taking its         *)
(* transaction t: return_tx_to_pool puts t back, also when add_block has   *)
(* thrown; a message, and the transaction of a block with wrong spinner    *)
(* data, are lost.                                                         *)
Refusals(t) ==
  IF t \in Msg THEN {"lost"}
  ELSE IF InputsOk(chain, t) THEN {"returned", "lost", "thrown"}
  ELSE {"returned"}

BlockRefused(b) ==
  /\ InBatch /\ Extends(b) /\ BlkTx[b] \in DOMAIN pool
  /\ \E how \in Refusals(BlkTx[b]) :
       LET t == BlkTx[b]
           r == take_tx(Now, t)
       IN  /\ IF how = "lost" THEN Become(r) /\ UNCHANGED it
              ELSE Added(add_tx(r, t, "block", InputsOk(chain, t)))
           /\ batchOk' = (batchOk /\ how # "thrown")
  /\ UNCHANGED <<chain, saved, batch, timedOut, cache, clock, up, torn>>

(* pop_block_from_blockchain returns the block's transaction to the pool.  *)
BlockPopped ==
  /\ InBatch /\ Len(chain) > 1
  /\ chain' = Front(chain) /\ cache' = <<>>
  /\ LET t == BlkTx[Last(chain)]
     IN  IF t = NoTx THEN UNCHANGED <<pool, mem, it>>
         ELSE Fits(t) /\ Added(add_tx(Now, t, "block", InputsOk(chain', t)))
  /\ UNCHANGED <<saved, batch, batchOk, timedOut, clock, up, torn>>

(* Commit the batch, or abort it if an add_block threw: the indexes in     *)
(* memory are not rolled back.                                             *)
cleanup_handle_incoming_blocks ==
  /\ InBatch
  /\ batch' = FALSE /\ batchOk' = TRUE
  /\ IF batchOk THEN UNCHANGED <<pool, chain, torn>>
     ELSE /\ pool' = saved.pool /\ chain' = saved.chain
          /\ torn' = (torn \/ pool # saved.pool)
  /\ UNCHANGED <<mem, timedOut, cache, it, clock, up>>
  /\ Commit
-----------------------------------------------------------------------------
(* fill_block_template.                                                    *)

(* is_transaction_ready_to_go: is the input check skipped because it       *)
(* failed before on a block that is still there, or because a ring member  *)
(* is above the chain?  A check that fails leaves max_used_block_id: what  *)
(* a cached failure copies into it is left out.                            *)
Skipped(p, t) ==
  \/ StillThere(chain, p[t].fail)
  \/ p[t].used /\ Needs[t] >= Len(chain)

(* Mutant of Consider: key images already in the template are not looked   *)
(* up.                                                                     *)
ConsiderTwice(f, e) ==
  LET t == e.tx
      ok == Verdict(chain, f.cache, t)
  IN  IF \/ t \notin DOMAIN f.pool \/ ~IsLegacy(f, t) \/ t \in Msg
         \/ f.total + Weight[t] > MAX_TOTAL \/ Skipped(f.pool, t)
      THEN f
      ELSE [txs |-> IF ok /\ Image[t] \notin Spent(chain)
                    THEN Append(f.txs, t) ELSE f.txs,
            total |-> f.total + IF ok THEN Weight[t] ELSE 0,
            cache |-> With(f.cache, t, ok),
            pool |-> IF ok THEN [f.pool EXCEPT ![t].used = TRUE]
                     ELSE [f.pool EXCEPT ![t].fail =
                             [h |-> Len(chain) - 1, b |-> Last(chain)]]]

(* One entry of the sorted container.                                      *)
Consider(f, e) ==
  LET t == e.tx
      ok == Verdict(chain, f.cache, t)
      in == /\ ok /\ Image[t] \notin Spent(chain)
            /\ Image[t] \notin {Image[f.txs[i]] : i \in DOMAIN f.txs}
  IN  IF \/ t \notin DOMAIN f.pool \/ ~IsLegacy(f, t) \/ t \in Msg
         \/ f.total + Weight[t] > MAX_TOTAL \/ Skipped(f.pool, t)
      THEN f
      ELSE [txs |-> IF in THEN Append(f.txs, t) ELSE f.txs,
            total |-> f.total + IF in THEN Weight[t] ELSE 0,
            cache |-> With(f.cache, t, ok),
            pool |-> IF ok THEN [f.pool EXCEPT ![t].used = TRUE]
                     ELSE [f.pool EXCEPT ![t].fail =
                             [h |-> Len(chain) - 1, b |-> Last(chain)]]]

Template ==
  LET filled[n \in 0 .. Len(sorted)] ==
        IF n = 0 THEN [txs |-> <<>>, total |-> 0, cache |-> cache, pool |-> pool]
        ELSE Consider(filled[n - 1], sorted[n])
  IN  filled[Len(sorted)]

fill_block_template ==
  /\ Free
  /\ pool' = Template.pool /\ cache' = Template.cache
  /\ UNCHANGED <<chain, batch, batchOk, mem, timedOut, it, clock, up, torn>>
  /\ Commit
-----------------------------------------------------------------------------
(* The clock, and a stop or crash followed by a start.                     *)

Tick ==
  /\ up /\ clock < MaxClock
  /\ clock' = clock + 1
  /\ UNCHANGED <<pool, chain, saved, batch, batchOk, mem, timedOut, cache, it,
                 up, torn>>

Kept(p) == {t \in DOMAIN p : p[t].relay = "block"}

(* Does init accept the table p?  It inserts the key images of the         *)
(* transactions not kept by a block first, each of which must be alone.    *)
Loads(p) ==
  \A t, u \in DOMAIN p \ Kept(p) : Image[t] = Image[u] => t = u

(* The sorted container with the transactions order of the table p; unlike *)
(* add_tx, init does not look for Locked.                                  *)
SortedBy(p, order) ==
  LET so[n \in 0 .. Len(order)] ==
        IF n = 0 THEN <<>>
        ELSE Emplace(so[n - 1], [rate |-> Rate[order[n]], recv |-> p[order[n]].recv,
                                 tx |-> order[n]])
  IN  so[Len(order)]

(* Mutant of Loaded: only the first pass.                                  *)
LoadedOnePass(p) ==
  LET order == SetToSeq(DOMAIN p \ Kept(p))
  IN  [pool |-> p,
       images |-> [k \in KeyImage |-> {t \in DOMAIN p : Image[t] = k}],
       sorted |-> SortedBy(p, order),
       weight |-> TotalWeight(DOMAIN p)]

(* The indexes that init builds, in two passes.                            *)
Loaded(p) ==
  LET order == SetToSeq(DOMAIN p \ Kept(p)) \o SetToSeq(Kept(p))
  IN  [pool |-> p,
       images |-> [k \in KeyImage |-> {t \in DOMAIN p : Image[t] = k}],
       sorted |-> SortedBy(p, order),
       weight |-> TotalWeight(DOMAIN p)]

(* validate removes the transactions that are in the chain.                *)
Validated(s) == TakeAll(s, DOMAIN s.pool \cap ChainTxs(saved.chain))

Restart ==
  /\ chain' = saved.chain
  /\ IF Loads(saved.pool)
     THEN up' = TRUE /\ Become(Validated(Loaded(saved.pool)))
     ELSE up' = FALSE /\ pool' = saved.pool /\ UNCHANGED mem
  /\ batch' = FALSE /\ batchOk' = TRUE /\ timedOut' = {} /\ cache' = <<>>
  /\ it' = 0 /\ torn' = FALSE
  /\ UNCHANGED clock
  /\ Commit

Next ==
  \/ \E t \in Tx : \/ \E m \in Offered : IncomingTx(t, m)
                   \/ \E m \in {"local", "stem", "fluff"} : SetRelayed(t, m)
                   \/ FlushTx(t) \/ IncomingBlockTx(t)
  \/ remove_stuck_transactions \/ prune
  \/ prepare_handle_incoming_blocks \/ cleanup_handle_incoming_blocks
  \/ \E b \in Blk : BlockAdded(b) \/ BlockRefused(b)
  \/ BlockPopped \/ fill_block_template
  \/ Tick \/ Restart

Spec == Init /\ [][Next]_vars
-----------------------------------------------------------------------------
(* Properties.                                                             *)

Meta == [relay : Method, recv : Nat, used : BOOLEAN,
         fail : [h : Nat, b : Blk \cup {NoBlk}]]
TableType(p) == DOMAIN p \subseteq Tx /\ \A t \in DOMAIN p : p[t] \in Meta

(* Every variable has its type.                                            *)
TypeOK ==
  /\ TableType(pool) /\ TableType(saved.pool)
  /\ chain \in Seq(Blk) /\ saved.chain \in Seq(Blk)
  /\ {batch, batchOk, up, torn} \subseteq BOOLEAN
  /\ images \in [KeyImage -> SUBSET Tx]
  /\ sorted \in Seq([rate : Nat, recv : Nat, tx : Tx])
  /\ weight \in 0 .. MaxCounted
  /\ timedOut \subseteq Tx
  /\ DOMAIN cache \subseteq Tx /\ \A t \in DOMAIN cache : cache[t] \in BOOLEAN
  /\ it \in 0 .. Len(sorted) /\ clock \in 0 .. MaxClock

(* m_spent_key_images maps every key image to exactly the transactions of  *)
(* the table that spend it, unless the table has been rolled back under    *)
(* it: by an aborted batch of blocks, or by a prune that gave up.          *)
ImagesExact ==
  up /\ ~torn =>
    \A k \in KeyImage : images[k] = {t \in DOMAIN pool : Image[t] = k}

(* At most one transaction that no block brought spends a key image, so    *)
(* init accepts the table at the next start; also while prune runs and in  *)
(* the table a crash goes back to.                                         *)
Loadable == up /\ ~torn => Loads(pool) /\ Loads(saved.pool)

(* Every transaction of the table has an entry in the sorted container, so *)
(* that fill_block_template and prune find it.                             *)
SortedCovers ==
  up /\ ~torn => DOMAIN pool \subseteq {sorted[i].tx : i \in DOMAIN sorted}

(* m_txpool_weight is never less than the weight of the transactions in    *)
(* the table, so subtracting a weight from it does not wrap.               *)
WeightCovers ==
  up /\ ~torn => weight >= TotalWeight(DOMAIN pool)

(* A cached input check gives the verdict that a fresh one would give, on  *)
(* whatever chain a reorganisation or an aborted batch leaves.             *)
CacheFresh == up => \A t \in DOMAIN cache : cache[t] = InputsOk(chain, t)

(* A template filled now can be added: its transactions are in the table,  *)
(* public, no messages, have valid inputs, share no key image and fit;     *)
(* whatever stale or duplicate entries the sorted container holds.         *)
TemplateSound ==
  Free =>
    LET txs == Template.txs
    IN  /\ \A i \in DOMAIN txs :
             /\ IsLegacy(Now, txs[i]) /\ txs[i] \notin Msg
             /\ InputsOk(chain, txs[i])
        /\ \A i, j \in DOMAIN txs : Image[txs[i]] = Image[txs[j]] => i = j
        /\ Template.total <= MAX_TOTAL

(* The node starts again after every stop or crash.                        *)
StartsAgain == up
=============================================================================
