------------------------- MODULE BlockSyncInvProofs -------------------------
(***************************************************************************)
(* The inductive invariant of the sync, SyncInv, and what follows from it. *)
(* The hashes of a context and of a span are a run of the peer's chain,    *)
(* the messages on a wire answer what was asked, a connection is owed no   *)
(* more than MaxWire answers and callbacks, and the handler that holds the *)
(* lock works on blocks whose parents are known.                           *)
(***************************************************************************)
EXTENDS BlockSyncProofs

-----------------------------------------------------------------------------
(* What a request on its way to c's peer looks like; A is what c has asked *)
(* its peer for.                                                           *)
Message ==
  [type : {"chain"}, start : Nat] \cup [type : {"objects"}, hashes : Seq(Block)]
MessageOk(c, A, m) ==
  \/ m \in [type : {"chain"}, start : Nat] /\ m.start < remote(c)
  \/ /\ m \in [type : {"objects"}, hashes : Seq(Block)]
     /\ Run(m.hashes) /\ m.hashes # <<>>
     /\ Range(m.hashes) \subseteq A \/ Range(m.hashes) \subseteq Range(ChainOf[c])
Wired(c, A, w) == \A i \in DOMAIN w : MessageOk(c, A, w[i])

(* The requests that a connection has made, and may make before it comes   *)
(* to rest: one for every callback, and one of the handler that runs.      *)
Busy(x) == IF x.pc \in {"idle", "dead"} THEN 0 ELSE 1
Load(x) == Len(x.wire) + x.callbacks + Busy(x)

Resting == {"new", "standby", "normal"}
Rested(x) == x.state \in Resting /\ x.callbacks = 0 => Load(x) < MaxWire

InReset(x) ==
  x.pc = "reset" => x.ask # <<>> /\ Run(x.ask) /\ Range(x.ask) \subseteq x.asked

ContextOk(c, x) ==
  /\ x \in Context
  /\ RunAt(x.needed, x.last - Len(x.needed) + 1)
  /\ Wired(c, x.asked, x.wire)
  /\ InReset(x)
  /\ Load(x) <= MaxWire
  /\ Rested(x)

ContextsOk == ctx = [c \in Conn |-> ctx[c]] /\ \A c \in Conn : ContextOk(c, ctx[c])

QueueOk == Sound(q) /\ Spans(q)

ChainOk == known \subseteq Block /\ Genesis \in known /\ top \in known \ Bad /\ KnownClosed

(* The stretch of try_add_next_blocks under m_sync_lock.                   *)
Locked == {"next", "add", "leave", "skip"}
CurOk ==
  Run(cur.blocks) /\ cur.blocks # <<>> /\ Parent[cur.blocks[1]] \in known
LockOk ==
  /\ lock \in Conn \cup {NoConn}
  /\ cur = NoSpanYet \/ cur.conn \in Conn
  /\ \A c \in Conn : ctx[c].pc \in Locked => lock = c
  /\ \A c \in Conn : ctx[c].pc = "add" => CurOk

SyncInv == ContextsOk /\ QueueOk /\ ChainOk /\ LockOk

(* What a context in order has.                                            *)
LEMMA ContextFacts ==
  ASSUME NEW c, NEW x, ContextOk(c, x)
  PROVE  /\ x \in Context /\ x.wire \in Seq(Message) /\ x.needed \in Seq(Block)
         /\ x.asked \subseteq Block /\ x.last \in Nat /\ x.callbacks \in Nat
         /\ Len(x.wire) \in Nat /\ Busy(x) \in {0, 1} /\ Load(x) \in Nat
         /\ Load(x) <= MaxWire /\ MaxWire \in Nat
<1>1. x \in Context /\ Load(x) <= MaxWire
  BY DEF ContextOk
<1>2. x.wire \in Seq(Message) /\ x.needed \in Seq(Block) /\ x.asked \subseteq Block
  BY <1>1 DEF Context, Message
<1>3. x.last \in Nat /\ x.callbacks \in 0 .. MaxWire
  BY <1>1 DEF Context
<1>4. MaxWire \in Nat
  BY LimitAssumption
<1>5. x.callbacks \in Nat
  BY <1>3, <1>4
<1>6. Len(x.wire) \in Nat
  BY <1>2
<1>7. Busy(x) \in {0, 1}
  BY DEF Busy
<1>8. Load(x) \in Nat
  BY <1>5, <1>6, <1>7 DEF Load
<1> QED BY <1>1, <1>2, <1>3, <1>4, <1>5, <1>6, <1>7, <1>8

(* More asked for.                                                         *)
LEMMA WiredMore ==
  ASSUME NEW c, NEW A, NEW B, A \subseteq B, NEW w, Wired(c, A, w)
  PROVE  Wired(c, B, w)
BY DEF Wired, MessageOk

(* A complete answer came: what else was asked for is on the chain.        *)
LEMMA WiredNone ==
  ASSUME NEW c, NEW A, A \subseteq Range(ChainOf[c]), NEW w, Wired(c, A, w)
  PROVE  Wired(c, {}, w)
BY DEF Wired, MessageOk

(* One more request.                                                       *)
LEMMA WiredAppend ==
  ASSUME NEW c, NEW A, NEW w \in Seq(Message), Wired(c, A, w),
         NEW m \in Message, MessageOk(c, A, m)
  PROVE  /\ Append(w, m) \in Seq(Message) /\ Len(Append(w, m)) = Len(w) + 1
         /\ Wired(c, A, Append(w, m))
<1> DEFINE v == Append(w, m)
           M == Message
<1>0. w \in Seq(M) /\ m \in M
  OBVIOUS
<1> HIDE DEF M
<1>1. /\ v \in Seq(M) /\ v # <<>> /\ Len(v) = Len(w) + 1
      /\ \A i \in 1 .. Len(w) : v[i] = w[i]
      /\ v[Len(w) + 1] = m
  BY <1>0
<1>2. DOMAIN v = 1 .. Len(w) + 1 /\ DOMAIN w = 1 .. Len(w) /\ Len(w) \in Nat
  <2> HIDE DEF v
  <2> QED BY <1>0, <1>1
<1> HIDE DEF v
<1>3. ASSUME NEW i \in DOMAIN v PROVE MessageOk(c, A, v[i])
  <2>1. i = Len(w) + 1 \/ i \in 1 .. Len(w)
    BY <1>2, <1>3
  <2> QED BY Zenon, <1>1, <1>2, <2>1 DEF Wired
<1>4. Wired(c, A, v)
  BY Zenon, <1>3 DEF Wired
<1> QED BY Zenon, <1>1, <1>4 DEF v, M

(* One request less.                                                       *)
LEMMA WiredTail ==
  ASSUME NEW c, NEW A, NEW w \in Seq(Message), w # <<>>, Wired(c, A, w)
  PROVE  /\ Tail(w) \in Seq(Message) /\ Len(Tail(w)) = Len(w) - 1
         /\ Wired(c, A, Tail(w)) /\ MessageOk(c, A, Head(w))
<1> DEFINE v == Tail(w)
           M == Message
<1>0. w \in Seq(M)
  OBVIOUS
<1> HIDE DEF M
<1>1. /\ Head(w) \in M /\ v \in Seq(M) /\ Len(v) = Len(w) - 1
      /\ \A i \in 1 .. Len(v) : v[i] = w[i + 1]
  BY <1>0
<1>2. Head(w) = w[1] /\ 1 \in DOMAIN w /\ DOMAIN w = 1 .. Len(w) /\ Len(w) \in Nat
  BY <1>0
<1> HIDE DEF v
<1>3. DOMAIN v = 1 .. Len(v)
  BY <1>1
<1>4. ASSUME NEW i \in DOMAIN v PROVE MessageOk(c, A, v[i])
  <2>1. i \in 1 .. Len(v)
    BY Zenon, <1>3, <1>4
  <2>2. i + 1 \in DOMAIN w
    BY <1>1, <1>2, <2>1
  <2> QED BY Zenon, <1>1, <2>1, <2>2 DEF Wired
<1>5. Wired(c, A, v)
  BY Zenon, <1>4 DEF Wired
<1>6. MessageOk(c, A, Head(w))
  BY Zenon, <1>2 DEF Wired
<1> QED BY Zenon, <1>1, <1>5, <1>6 DEF v, M

(* The requests that are made.                                             *)
LEMMA ChainMessage ==
  ASSUME NEW c, NEW A, NEW n \in Nat, n < remote(c)
  PROVE  LET m == [type |-> "chain", start |-> n] IN m \in Message /\ MessageOk(c, A, m)
BY DEF Message, MessageOk

(* Those of objects.                                                       *)
LEMMA ObjectsMessage ==
  ASSUME NEW c, NEW A, NEW hs, Run(hs), hs # <<>>, Range(hs) \subseteq A
  PROVE  LET m == [type |-> "objects", hashes |-> hs] IN m \in Message /\ MessageOk(c, A, m)
<1>1. hs \in Seq(Block)
  BY DEF Run
<1> DEFINE m == [type |-> "objects", hashes |-> hs]
<1>2. m \in [type : {"objects"}, hashes : Seq(Block)] /\ m.hashes = hs
  BY <1>1
<1> HIDE DEF m
<1>3. m \in Message /\ MessageOk(c, A, m)
  BY Zenon, <1>2 DEF Message, MessageOk
<1> QED BY <1>3 DEF m

(* A step after which nothing more is on the wire or asked for.            *)
LEMMA CarryOk ==
  ASSUME NEW c, NEW x, ContextOk(c, x), NEW y \in Context,
         y.wire = x.wire, y.asked = x.asked, y.callbacks = x.callbacks,
         Busy(y) <= Busy(x),
         y.state \in Resting => x.state \in Resting \/ Busy(y) < Busy(x),
         RunAt(y.needed, y.last - Len(y.needed) + 1), y.pc # "reset"
  PROVE  ContextOk(c, y)
<1>1. /\ Len(x.wire) \in Nat /\ x.callbacks \in Nat /\ Load(x) <= MaxWire /\ MaxWire \in Nat
      /\ Busy(x) \in {0, 1}
  BY Zenon, ContextFacts
<1>2. Busy(y) \in {0, 1}
  BY DEF Busy
<1>3. Load(y) = Len(x.wire) + x.callbacks + Busy(y)
  BY Zenon DEF Load
<1>4. Load(y) <= MaxWire
  BY <1>1, <1>2, <1>3 DEF Load
<1>5. Rested(y)
  <2> SUFFICES ASSUME y.state \in Resting, y.callbacks = 0 PROVE Load(y) < MaxWire
    BY DEF Rested
  <2>1. CASE x.state \in Resting
    <3>1. Load(x) < MaxWire
      BY Zenon, <2>1 DEF ContextOk, Rested
    <3> QED BY <1>1, <1>2, <1>3, <3>1 DEF Load
  <2>2. CASE Busy(y) < Busy(x)
    BY <1>1, <1>2, <1>3, <2>2 DEF Load
  <2> QED BY <2>1, <2>2
<1>6. Wired(c, y.asked, y.wire)
  BY Zenon DEF ContextOk
<1> QED BY Zenon, <1>4, <1>5, <1>6 DEF ContextOk, InReset

(* One request more and the handler's end, or a callback less.             *)
LEMMA SendOk ==
  ASSUME NEW c, NEW x, ContextOk(c, x), NEW y \in Context,
         NEW m \in Message, MessageOk(c, y.asked, m), y.wire = Append(x.wire, m),
         x.asked \subseteq y.asked, y.callbacks \in Nat, y.pc = "idle",
         y.callbacks + 1 = x.callbacks + Busy(x),
         y.state = x.state, y.callbacks = x.callbacks \/ y.state \notin Resting,
         RunAt(y.needed, y.last - Len(y.needed) + 1)
  PROVE  ContextOk(c, y)
<1>1. /\ Len(x.wire) \in Nat /\ x.callbacks \in Nat /\ Load(x) <= MaxWire /\ MaxWire \in Nat
      /\ Busy(x) \in {0, 1} /\ x.wire \in Seq(Message)
  BY Zenon, ContextFacts
<1>2. Busy(y) = 0 /\ y.pc # "reset"
  BY DEF Busy
<1>3. Wired(c, y.asked, x.wire)
  BY Zenon, WiredMore DEF ContextOk
<1>4. Wired(c, y.asked, y.wire) /\ Len(y.wire) = Len(x.wire) + 1
  BY Zenon, <1>1, <1>3, WiredAppend
<1>5. Load(y) = Load(x)
  <2> DEFINE L == Len(x.wire)
             B == Busy(x)
             X == x.callbacks
             Y == y.callbacks
  <2>1. Load(y) = (L + 1) + Y + 0 /\ Load(x) = L + X + B
    BY Zenon, <1>2, <1>4 DEF Load
  <2>2. L \in Nat /\ X \in Nat /\ Y \in Nat /\ B \in {0, 1} /\ Y + 1 = X + B
    BY Zenon, <1>1
  <2> HIDE DEF L, B, X, Y
  <2> QED BY <2>1, <2>2
<1>6. Rested(y)
  BY Zenon, <1>5 DEF ContextOk, Rested
<1>7. Load(y) <= MaxWire
  BY Zenon, <1>1, <1>5
<1> QED BY Zenon, <1>2, <1>4, <1>6, <1>7 DEF ContextOk, InReset

-----------------------------------------------------------------------------
(* One context changes.                                                    *)
LEMMA BecomesOk ==
  ASSUME ContextsOk, NEW c \in Conn, NEW y, ContextOk(c, y), Becomes(c, y)
  PROVE  ContextsOk' /\ ctx'[c] = y /\ \A d \in Conn \ {c} : ctx'[d] = ctx[d]
<1>1. ctx' = [d \in Conn |-> IF d = c THEN y ELSE ctx[d]]
  BY Zenon DEF ContextsOk, Becomes
<1> QED BY Zenon, <1>1 DEF ContextsOk

(* A dropped connection.                                                   *)
LEMMA DropOk ==
  ASSUME ContextsOk, NEW c \in Conn, NEW r, Drop(c, r)
  PROVE  ContextsOk'
<1> DEFINE x == ctx[c]
           y == [x EXCEPT !.open = FALSE, !.pc = "idle"]
<1>1. ContextOk(c, x) /\ x \in Context
  BY DEF ContextsOk, ContextOk
<1>2. /\ y \in Context /\ y.wire = x.wire /\ y.asked = x.asked /\ y.pc = "idle"
      /\ y.callbacks = x.callbacks /\ y.state = x.state /\ y.needed = x.needed
      /\ y.last = x.last
  BY Zenon, <1>1 DEF Context
<1>3. Becomes(c, y)
  BY DEF Drop
<1> HIDE DEF x, y
<1>4. Busy(y) <= Busy(x)
  BY <1>2 DEF Busy
<1>5. RunAt(y.needed, y.last - Len(y.needed) + 1) /\ y.pc # "reset"
  BY Zenon, <1>1, <1>2 DEF ContextOk
<1>6. ContextOk(c, y)
  BY Zenon, <1>1, <1>2, <1>4, <1>5, CarryOk
<1> QED BY Zenon, <1>3, <1>6, BecomesOk

(* A callback is added where there is room for what it will ask for.       *)
LEMMA CallOk ==
  ASSUME NEW c, NEW x, ContextOk(c, x),
         NEW y, y = [x EXCEPT !.state = y.state, !.timed = y.timed, !.pc = y.pc,
                              !.callbacks = x.callbacks + 1],
         y.state \in {"synchronizing", "standby"}, y.timed \in BOOLEAN,
         y.pc = x.pc \/ y.pc = "idle",
         Len(x.wire) + (x.callbacks + 1) + Busy(y) <= MaxWire
  PROVE  ContextOk(c, y)
<1>1. /\ Len(x.wire) \in Nat /\ x.callbacks \in Nat /\ MaxWire \in Nat /\ x \in Context
  BY Zenon, ContextFacts
<1>2. Busy(y) \in {0, 1}
  BY DEF Busy
<1>3. x.callbacks + 1 \in 0 .. MaxWire
  BY <1>1, <1>2
<1>4. /\ y \in Context /\ y.wire = x.wire /\ y.asked = x.asked /\ y.ask = x.ask
      /\ y.callbacks = x.callbacks + 1 /\ y.needed = x.needed /\ y.last = x.last
  BY Zenon, <1>1, <1>3 DEF Context
<1>5. Load(y) <= MaxWire
  BY Zenon, <1>4 DEF Load
<1>6. Rested(y)
  BY <1>1, <1>4 DEF Rested
<1>7. InReset(y)
  BY Zenon, <1>4 DEF ContextOk, InReset
<1>8. RunAt(y.needed, y.last - Len(y.needed) + 1) /\ Wired(c, y.asked, y.wire)
  BY Zenon, <1>4 DEF ContextOk
<1> QED BY Zenon, <1>4, <1>5, <1>6, <1>7, <1>8 DEF ContextOk

(* A callback is taken, by a handler that runs or for nothing.             *)
LEMMA TakeOk ==
  ASSUME NEW c, NEW x, ContextOk(c, x), x.pc = "idle", x.callbacks > 0,
         NEW y, \/ y = [x EXCEPT !.callbacks = x.callbacks - 1]
                \/ y = [x EXCEPT !.callbacks = x.callbacks - 1,
                                 !.state = "synchronizing", !.pc = "try"]
  PROVE  ContextOk(c, y)
<1>1. /\ Len(x.wire) \in Nat /\ x.callbacks \in Nat /\ MaxWire \in Nat /\ x \in Context
      /\ Load(x) <= MaxWire
  BY Zenon, ContextFacts
<1>2. x.callbacks - 1 \in 0 .. MaxWire
  BY <1>1 DEF Context
<1>3. /\ y \in Context /\ y.wire = x.wire /\ y.asked = x.asked
      /\ y.callbacks = x.callbacks - 1 /\ y.needed = x.needed /\ y.last = x.last
      /\ y.pc = "idle" \/ (y.pc = "try" /\ y.state = "synchronizing")
  <2> DEFINE n == x.callbacks - 1
  <2> HIDE DEF n
  <2>1. CASE y = [x EXCEPT !.callbacks = n]
    BY Zenon, <1>1, <1>2, <2>1 DEF Context, n
  <2>2. CASE y = [x EXCEPT !.callbacks = n, !.state = "synchronizing", !.pc = "try"]
    BY Zenon, <1>1, <1>2, <2>2 DEF Context, n
  <2> QED BY Zenon, <2>1, <2>2 DEF n
<1>4. Busy(x) = 0 /\ Busy(y) \in {0, 1} /\ (y.state \in Resting => Busy(y) = 0)
  BY <1>3 DEF Busy, Resting
<1> DEFINE L == Len(x.wire)
           n == x.callbacks
<1>5. Load(x) = L + n + 0 /\ Load(y) = L + (n - 1) + Busy(y)
  BY Zenon, <1>3, <1>4 DEF Load
<1>6. L \in Nat /\ n \in Nat /\ n > 0
  BY Zenon, <1>1
<1> HIDE DEF L, n
<1>7. Load(y) <= MaxWire /\ (Busy(y) = 0 => Load(y) < MaxWire)
  BY <1>1, <1>4, <1>5, <1>6
<1>8. Rested(y) /\ InReset(y)
  BY Zenon, <1>3, <1>4, <1>7 DEF Rested, InReset
<1>9. RunAt(y.needed, y.last - Len(y.needed) + 1) /\ Wired(c, y.asked, y.wire)
  BY Zenon, <1>3 DEF ContextOk
<1> QED BY Zenon, <1>3, <1>7, <1>8, <1>9 DEF ContextOk

(* process_payload_sync_data.                                              *)
LEMMA SyncDataOk ==
  ASSUME ContextsOk, NEW c \in Conn, SyncData(c)
  PROVE  ContextsOk'
<1> DEFINE x == ctx[c]
           y == [x EXCEPT !.state = "normal"]
           z == [x EXCEPT !.state = "synchronizing", !.callbacks = x.callbacks + 1]
<1>1. ContextOk(c, x) /\ x \in Context /\ DOMAIN ctx = Conn
  BY DEF ContextsOk, ContextOk
<1>2. /\ x.state \in Resting /\ x.pc = "idle"
      /\ Becomes(c, y) \/ Becomes(c, z)
      /\ ctx'[c].callbacks <= 1
  BY DEF SyncData, Resting
<1>3. CASE Becomes(c, y)
  <2>1. /\ y \in Context /\ y.wire = x.wire /\ y.asked = x.asked /\ y.pc = x.pc
        /\ y.callbacks = x.callbacks /\ y.needed = x.needed /\ y.last = x.last
    BY Zenon, <1>1 DEF Context
  <2> HIDE DEF x, y
  <2>2. Busy(y) <= Busy(x) /\ y.pc # "reset"
    BY <1>2, <2>1 DEF Busy
  <2>3. RunAt(y.needed, y.last - Len(y.needed) + 1)
    BY Zenon, <1>1, <2>1 DEF ContextOk
  <2>4. ContextOk(c, y)
    BY Zenon, <1>1, <1>2, <2>1, <2>2, <2>3, CarryOk
  <2> QED BY Zenon, <1>3, <2>4, BecomesOk
<1>4. CASE Becomes(c, z)
  <2>0. Load(x) = Len(x.wire) + x.callbacks + Busy(x)
    BY Zenon DEF Load
  <2>1. /\ z = [x EXCEPT !.state = z.state, !.timed = z.timed, !.pc = z.pc,
                         !.callbacks = x.callbacks + 1]
        /\ z.state = "synchronizing" /\ z.timed \in BOOLEAN /\ z.pc = x.pc
        /\ z.callbacks = x.callbacks + 1
    BY Zenon, <1>1 DEF Context
  <2>2. ctx'[c] = z
    BY <1>1, <1>4 DEF Becomes
  <2>3. /\ Len(x.wire) \in Nat /\ x.callbacks \in Nat /\ MaxWire \in Nat /\ Busy(x) \in {0, 1}
    BY Zenon, <1>1, ContextFacts
  <2> HIDE DEF x, z
  <2>4. x.callbacks = 0
    BY <1>2, <2>1, <2>2, <2>3
  <2>5. Load(x) < MaxWire
    BY Zenon, <1>1, <1>2, <2>4 DEF ContextOk, Rested
  <2>6. Busy(z) = Busy(x)
    BY Zenon, <2>1 DEF Busy
  <2>7. Len(x.wire) + (x.callbacks + 1) + Busy(z) <= MaxWire
    BY <2>0, <2>3, <2>5, <2>6
  <2>8. ContextOk(c, z)
    BY Zenon, <1>1, <2>1, <2>7, CallOk
  <2> QED BY Zenon, <1>4, <2>8, BecomesOk
<1> QED BY <1>2, <1>3, <1>4

(* The timers.                                                             *)
LEMMA TimerOk ==
  ASSUME ContextsOk, NEW c \in Conn, kick_idle_peers(c) \/ check_standby_peers(c)
  PROVE  ContextsOk'
<1> DEFINE x == ctx[c]
           y == [x EXCEPT !.timed = FALSE, !.state = "standby", !.callbacks = @ + 1]
           z == [x EXCEPT !.callbacks = @ + 1]
<1>1. ContextOk(c, x) /\ x \in Context
  BY DEF ContextsOk, ContextOk
<1>2. Load(x) = Len(x.wire) + x.callbacks + Busy(x)
  BY Zenon DEF Load
<1>3. /\ Len(x.wire) \in Nat /\ x.callbacks \in Nat /\ MaxWire \in Nat /\ Busy(x) \in {0, 1}
  BY Zenon, <1>1, ContextFacts
<1>4. CASE kick_idle_peers(c)
  <2>1. /\ Becomes(c, y)
        /\ Len(x.wire) + x.callbacks + (IF Idle(c) THEN 0 ELSE 1) < MaxWire
    BY <1>4 DEF kick_idle_peers
  <2>2. Idle(c) => Busy(x) = 0
    BY DEF Idle, At, Busy
  <2>3. /\ y = [x EXCEPT !.state = y.state, !.timed = y.timed, !.pc = y.pc,
                         !.callbacks = x.callbacks + 1]
        /\ y.state = "standby" /\ y.timed \in BOOLEAN /\ y.pc = x.pc
    BY Zenon, <1>1 DEF Context
  <2> HIDE DEF x, y
  <2>4. Busy(y) = Busy(x)
    BY Zenon, <2>3 DEF Busy
  <2>5. Len(x.wire) + (x.callbacks + 1) + Busy(y) <= MaxWire
    BY <1>3, <2>1, <2>2, <2>4
  <2>6. ContextOk(c, y)
    BY Zenon, <1>1, <2>3, <2>5, CallOk
  <2> QED BY Zenon, <2>1, <2>6, BecomesOk
<1>5. CASE check_standby_peers(c)
  <2>1. Becomes(c, z) /\ x.state = "standby" /\ x.callbacks = 0
    BY <1>5 DEF check_standby_peers
  <2>2. Load(x) < MaxWire
    BY Zenon, <1>1, <2>1 DEF ContextOk, Rested, Resting
  <2>3. /\ z = [x EXCEPT !.state = z.state, !.timed = z.timed, !.pc = z.pc,
                         !.callbacks = x.callbacks + 1]
        /\ z.state = x.state /\ z.timed \in BOOLEAN /\ z.pc = x.pc
    BY Zenon, <1>1 DEF Context
  <2> HIDE DEF x, z
  <2>4. Busy(z) = Busy(x)
    BY Zenon, <2>3 DEF Busy
  <2>5. Len(x.wire) + (x.callbacks + 1) + Busy(z) <= MaxWire
    BY <1>2, <1>3, <2>2, <2>4
  <2>6. ContextOk(c, z)
    BY Zenon, <1>1, <2>1, <2>3, <2>5, CallOk
  <2> QED BY Zenon, <2>1, <2>6, BecomesOk
<1> QED BY <1>4, <1>5

(* on_callback.                                                            *)
LEMMA CallbackOk ==
  ASSUME ContextsOk, top \in Block, NEW c \in Conn, on_callback(c)
  PROVE  ContextsOk'
<1> DEFINE x == ctx[c]
           w == [x EXCEPT !.callbacks = x.callbacks - 1]
           z == [x EXCEPT !.callbacks = x.callbacks - 1, !.state = "synchronizing", !.pc = "try"]
           n == SplitHeight(c, NoBlock)
           m == [type |-> "chain", start |-> n]
           y == [x EXCEPT !.callbacks = x.callbacks - 1, !.needed = <<>>,
                          !.wire = Append(x.wire, m)]
<1>1. ContextOk(c, x) /\ x \in Context
  BY DEF ContextsOk, ContextOk
<1>2. x.pc = "idle" /\ x.callbacks > 0
  BY DEF on_callback, Idle, At
<1>3. \/ x.state = "synchronizing" /\ Becomes(c, RequestChain([w EXCEPT !.needed = <<>>], c, NoBlock))
      \/ Becomes(c, [w EXCEPT !.state = "synchronizing", !.pc = "try"])
      \/ Becomes(c, w)
  <2>1. w.state = x.state
    BY <1>1 DEF Context
  <2>2. Becomes(c, CASE w.state = "synchronizing" ->
                           RequestChain([w EXCEPT !.needed = <<>>], c, NoBlock)
                      [] w.state = "standby" ->
                           [w EXCEPT !.state = "synchronizing", !.pc = "try"]
                      [] OTHER -> w)
    BY DEF on_callback
  <2> HIDE DEF w, x
  <2> QED BY <2>1, <2>2
<1>4. [w EXCEPT !.state = "synchronizing", !.pc = "try"] = z
  BY <1>1 DEF Context
<1>5. RequestChain([w EXCEPT !.needed = <<>>], c, NoBlock) = y
  BY <1>1 DEF RequestChain, Context
<1>6. CASE Becomes(c, w) \/ Becomes(c, z)
  <2> HIDE DEF x
  <2>1. ContextOk(c, w) /\ ContextOk(c, z)
    BY Zenon, <1>1, <1>2, TakeOk
  <2> HIDE DEF w, z
  <2> QED BY Zenon, <1>6, <2>1, BecomesOk
<1>7. CASE Becomes(c, y) /\ x.state = "synchronizing"
  <2>1. n \in Nat /\ n < remote(c)
    BY Zenon, SplitOnChain
  <2> HIDE DEF n
  <2>2. m \in Message /\ MessageOk(c, x.asked, m)
    BY Zenon, <2>1, ChainMessage
  <2>3. /\ x.callbacks \in 0 .. MaxWire /\ x.callbacks \in Nat /\ x.callbacks - 1 \in Nat
        /\ x.callbacks - 1 \in 0 .. MaxWire
    BY SMTT(20), <1>1, <1>2, LimitAssumption DEF Context
  <2>4. x.wire \in Seq(Message) /\ Wired(c, x.asked, x.wire)
    BY Zenon, <1>1, ContextFacts DEF ContextOk
  <2> HIDE DEF m
  <2>5. Append(x.wire, m) \in Seq(Message)
    BY Zenon, <2>2, <2>4, WiredAppend
  <2> DEFINE v == Append(x.wire, m)
  <2> HIDE DEF v, x
  <2>6. /\ y \in Context /\ y.wire = v /\ y.asked = x.asked /\ y.pc = "idle"
        /\ y.callbacks = x.callbacks - 1 /\ y.needed = <<>> /\ y.state = x.state
    <3>1. v \in Seq([type : {"chain"}, start : Nat]
                    \cup [type : {"objects"}, hashes : Seq(Block)])
      BY Zenon, <2>5 DEF v, Message
    <3>2. y = [x EXCEPT !.callbacks = x.callbacks - 1, !.needed = <<>>, !.wire = v]
      BY Zenon DEF v
    <3>3. <<>> \in Seq(Block)
      OBVIOUS
    <3> HIDE DEF y
    <3> QED BY Zenon, <1>1, <1>2, <2>3, <3>1, <3>2, <3>3 DEF Context
  <2> HIDE DEF y
  <2>7. Busy(x) = 0 /\ y.callbacks + 1 = x.callbacks + Busy(x) /\ y.callbacks \in Nat
    BY <1>2, <2>3, <2>6 DEF Busy
  <2>8. RunAt(y.needed, y.last - Len(y.needed) + 1)
    BY Zenon, <2>6, RunEmpty
  <2>9. y.state \notin Resting
    BY <1>7, <2>6 DEF Resting
  <2>10. ContextOk(c, y)
    <3>1. y.wire = Append(x.wire, m)
      BY Zenon, <2>6 DEF v
    <3>2. MessageOk(c, y.asked, m) /\ x.asked \subseteq y.asked
      BY Zenon, <2>2, <2>6
    <3> QED BY Zenon, <1>1, <2>2, <2>6, <2>7, <2>8, <2>9, <3>1, <3>2, SendOk
  <2> QED BY Zenon, <1>7, <2>10, BecomesOk
<1> QED BY Zenon, <1>3, <1>4, <1>5, <1>6, <1>7

(* A context that has nothing to do.                                       *)
LEMMA FreshOk ==
  ASSUME NEW c, NEW y, y = NewContext \/ y = ClosedContext
  PROVE  ContextOk(c, y)
<1>0. MaxWire \in Nat \ {0} /\ 0 \in 0 .. MaxWire
  BY LimitAssumption
<1>1. /\ y \in Context /\ y.wire = <<>> /\ y.callbacks = 0 /\ y.pc = "idle"
      /\ y.needed = <<>>
  <2>1. <<>> \in Seq(Block) /\ <<>> \in Seq([type : {"chain"}, start : Nat]
                                   \cup [type : {"objects"}, hashes : Seq(Block)])
    OBVIOUS
  <2> DEFINE e == NewContext
  <2>2. /\ e \in Context /\ e.wire = <<>> /\ e.callbacks = 0 /\ e.pc = "idle"
        /\ e.needed = <<>>
    BY <1>0, <2>1 DEF NewContext, Context
  <2> HIDE DEF e
  <2>3. CASE y = [e EXCEPT !.state = "closed"]
    BY Zenon, <2>2, <2>3 DEF Context
  <2> QED BY <2>2, <2>3 DEF ClosedContext, e
<1>2. Load(y) = 0
  <2>1. Len(<<>>) = 0
    OBVIOUS
  <2>2. Busy(y) = 0
    BY <1>1 DEF Busy
  <2>3. Load(y) = 0 + 0 + 0
    BY Zenon, <1>1, <2>1, <2>2 DEF Load
  <2> QED BY <2>3
<1>3. Load(y) <= MaxWire /\ Load(y) < MaxWire
  BY <1>0, <1>2
<1>4. RunAt(y.needed, y.last - Len(y.needed) + 1) /\ InReset(y)
  BY Zenon, <1>1, RunEmpty DEF InReset
<1>5. Wired(c, y.asked, y.wire)
  <2>1. DOMAIN <<>> = {}
    OBVIOUS
  <2> QED BY Zenon, <1>1, <2>1 DEF Wired
<1> QED BY Zenon, <1>1, <1>3, <1>4, <1>5 DEF ContextOk, Rested

(* on_connection_close.                                                    *)
LEMMA CloseOk ==
  ASSUME ContextsOk, NEW c \in Conn, on_connection_close(c)
  PROVE  ContextsOk'
<1>1. Becomes(c, ClosedContext)
  BY DEF on_connection_close
<1>2. ContextOk(c, ClosedContext)
  BY Zenon, FreshOk
<1> QED BY Zenon, <1>1, <1>2, BecomesOk

(* An answer is taken off the wire, and its handler runs.                  *)
LEMMA AnswerOk ==
  ASSUME NEW c, NEW x, ContextOk(c, x), x.pc = "idle", x.wire # <<>>, NEW y \in Context,
         y.wire = Tail(x.wire), Wired(c, y.asked, Tail(x.wire)),
         y.pc = "request" \/ y.pc = "try", y.callbacks = x.callbacks, y.state = x.state,
         RunAt(y.needed, y.last - Len(y.needed) + 1)
  PROVE  ContextOk(c, y)
<1>1. /\ Len(x.wire) \in Nat /\ x.callbacks \in Nat /\ x.wire \in Seq(Message)
      /\ Wired(c, x.asked, x.wire)
  BY Zenon, ContextFacts DEF ContextOk
<1>2. Len(y.wire) = Len(x.wire) - 1
  BY Zenon, <1>1, WiredTail
<1>3. Busy(x) = 0 /\ Busy(y) = 1 /\ y.pc # "reset"
  BY DEF Busy
<1>4. Load(x) = Len(x.wire) + x.callbacks + 0
      /\ Load(y) = (Len(x.wire) - 1) + x.callbacks + 1
  BY Zenon, <1>2, <1>3 DEF Load
<1>5. Load(y) = Load(x)
  BY <1>1, <1>4
<1>6. Load(y) <= MaxWire /\ Rested(y)
  BY Zenon, <1>5 DEF ContextOk, Rested
<1> QED BY Zenon, <1>3, <1>6 DEF ContextOk, InReset

(* The answer to a chain request.                                          *)
LEMMA ChainEntryOk ==
  ASSUME ContextsOk, NEW c \in Conn, handle_response_chain_entry(c)
  PROVE  ContextsOk'
<1> DEFINE x == ctx[c]
           start == Head(x.wire).start
           M == Min({start + IDS_COUNT, remote(c)})
           ids == SubSeq(ChainOf[c], start + 1, M)
           last == start + Len(ids) - 1
           t == Tail(x.wire)
           y == [x EXCEPT !.wire = t, !.timed = FALSE, !.needed = ids, !.last = last,
                          !.pc = "request", !.force = FALSE]
<1>1. ContextOk(c, x) /\ x \in Context /\ x.wire \in Seq(Message) /\ Wired(c, x.asked, x.wire)
  BY Zenon, ContextFacts DEF ContextsOk, ContextOk
<1>2. Becomes(c, y) /\ x.wire # <<>> /\ Head(x.wire).type = "chain" /\ x.pc = "idle"
  BY Zenon DEF handle_response_chain_entry, Answered, Idle, At
<1>3. /\ t \in Seq(Message) /\ Len(t) = Len(x.wire) - 1 /\ Wired(c, x.asked, t)
      /\ MessageOk(c, x.asked, Head(x.wire))
  BY Zenon, <1>1, <1>2, WiredTail
<1>4. start \in Nat /\ start < remote(c)
  <2> DEFINE m == Head(x.wire)
  <2> HIDE DEF m
  <2>1. m.type = "chain" /\ MessageOk(c, x.asked, m)
    BY <1>2, <1>3 DEF m
  <2>2. m.start \in Nat /\ m.start < remote(c)
    BY <2>1 DEF MessageOk
  <2> QED BY <2>2 DEF m
<1>5. RunAt(ChainOf[c], 0) /\ remote(c) \in Nat \ {0} /\ IDS_COUNT \in Nat \ {0}
  BY ChainRun, LimitAssumption
<1> HIDE DEF start, t
<1>6. M \in Nat /\ M <= remote(c) /\ start + 1 <= M
  <2> DEFINE S == {start + IDS_COUNT, remote(c)}
  <2>1. S \subseteq Nat /\ S # {}
    BY <1>4, <1>5
  <2> HIDE DEF S
  <2>2. Min(S) \in S
    BY Zenon, <2>1, LeastOf
  <2>3. \A k \in S : Min(S) <= k
    BY Zenon, <2>1, LeastOf
  <2>4. Min(S) = start + IDS_COUNT \/ Min(S) = remote(c)
    BY <2>2 DEF S
  <2>5. Min(S) <= remote(c)
    BY <2>3 DEF S
  <2>6. M = Min(S)
    BY DEF S
  <2> HIDE DEF M
  <2> QED BY <1>4, <1>5, <2>4, <2>5, <2>6
<1> HIDE DEF M
<1>7. /\ RunAt(ids, 0 + (start + 1) - 1)
      /\ Len(ids) = IF start + 1 <= M THEN M - (start + 1) + 1 ELSE 0
  <2>1. 0 \in Int /\ start + 1 \in Nat \ {0} /\ M <= Len(ChainOf[c])
    BY <1>4, <1>6 DEF remote
  <2> QED BY Zenon, <1>5, <1>6, <2>1, RunSub
<1> HIDE DEF ids
<1>8. RunAt(ids, last - Len(ids) + 1) /\ last \in Nat /\ ids \in Seq(Block)
  <2> DEFINE L == Len(ids)
  <2>1. L = IF start + 1 <= M THEN M - (start + 1) + 1 ELSE 0
    BY <1>7
  <2>2. last = start + L - 1
    OBVIOUS
  <2> HIDE DEF L, last
  <2>3. L \in Nat \ {0} /\ last \in Nat /\ 0 + (start + 1) - 1 = last - L + 1
    BY <1>4, <1>6, <2>1, <2>2
  <2>4. RunAt(ids, last - L + 1)
    BY Zenon, <1>7, <2>3
  <2>5. ids \in Seq(Block)
    BY <1>7 DEF RunAt, Run
  <2> QED BY <2>3, <2>4, <2>5 DEF L
<1> HIDE DEF last, x
<1>9. /\ y \in Context /\ y.wire = t /\ y.asked = x.asked /\ y.pc = "request"
      /\ y.callbacks = x.callbacks /\ y.needed = ids /\ y.state = x.state /\ y.last = last
  <2>1. t \in Seq([type : {"chain"}, start : Nat]
                    \cup [type : {"objects"}, hashes : Seq(Block)])
    BY Zenon, <1>3 DEF Message
  <2> QED BY Zenon, <1>1, <1>8, <2>1 DEF Context
<1> HIDE DEF y
<1>12. ContextOk(c, y)
  BY Zenon, <1>1, <1>2, <1>3, <1>8, <1>9, AnswerOk DEF t
<1> QED BY Zenon, <1>2, <1>12, BecomesOk

(* An answer that is taken is the row of blocks that was asked for.        *)
LEMMA SentOk ==
  ASSUME NEW c \in Conn, NEW x, ContextOk(c, x), x.wire # <<>>,
         Head(x.wire).type = "objects",
         NEW bs, bs = Among(Head(x.wire).hashes, Range(ChainOf[c])), Range(bs) = x.asked
  PROVE  /\ bs # <<>> /\ bs \in Seq(Block) /\ Height[bs[1]] \in Nat
         /\ RunAt(bs, Height[bs[1]]) /\ x.asked \subseteq Range(ChainOf[c])
<1> DEFINE m == Head(x.wire)
           hs == m.hashes
           S == Range(ChainOf[c])
<1>1. MessageOk(c, x.asked, m) /\ m.type = "objects"
  BY Zenon, ContextFacts, WiredTail DEF ContextOk
<1> HIDE DEF m
<1>2. /\ hs \in Seq(Block) /\ Run(hs) /\ hs # <<>>
      /\ Range(hs) \subseteq x.asked \/ Range(hs) \subseteq S
  <2>1. m \notin [type : {"chain"}, start : Nat]
    BY <1>1
  <2>2. Run(hs) /\ hs # <<>> /\ (Range(hs) \subseteq x.asked \/ Range(hs) \subseteq S)
    BY Zenon, <1>1, <2>1 DEF MessageOk
  <2>3. hs \in Seq(Block)
    BY Zenon, <2>2 DEF Run
  <2> QED BY <2>2, <2>3
<1>3. bs = Among(hs, S)
  BY Zenon DEF m
<1> HIDE DEF hs, S
<1>4. bs \in Seq(Block \cap S)
  BY Zenon, <1>2, <1>3, AmongType
<1>5. Range(bs) \subseteq S
  BY <1>4 DEF Range
<1>6. Range(hs) \subseteq S /\ x.asked \subseteq S
  BY Zenon, <1>2, <1>5
<1>7. DOMAIN hs = 1 .. Len(hs) /\ Len(hs) \in Nat /\ 1 \in 1 .. Len(hs)
  BY <1>2
<1>8. \A i \in 1 .. Len(hs) : hs[i] \in S <=> 1 <= i /\ i <= Len(hs)
  <2>1. ASSUME NEW i \in 1 .. Len(hs) PROVE hs[i] \in S
    BY Zenon, <1>6, <1>7 DEF Range
  <2> DEFINE L == Len(hs)
  <2>2. \A i \in 1 .. L : hs[i] \in S /\ 1 <= i /\ i <= L
    BY <1>7, <2>1
  <2> QED BY Zenon, <2>2
<1>9. bs = SubSeq(hs, 1, Len(hs))
  <2> DEFINE L == Len(hs)
  <2>1. 1 \in Nat \ {0} /\ L \in Nat /\ 1 <= L + 1 /\ L <= L
    BY <1>7
  <2> QED BY Zenon, <1>2, <1>3, <1>8, <2>1, AmongStretch
<1>10. bs = hs
  BY <1>2, <1>9
<1>11. hs[1] \in Block
  BY <1>2, <1>7
<1>12. Height[hs[1]] \in Nat
  BY <1>11, BlockAssumption
<1> QED BY Zenon, <1>2, <1>6, <1>10, <1>12 DEF RunAt, S

(* handle_response_get_objects.                                            *)
LEMMA ObjectsOk ==
  ASSUME ContextsOk, NEW c \in Conn, handle_response_get_objects(c)
  PROVE  ContextsOk'
<1> DEFINE x == ctx[c]
           bs == SentBlocks(c)
           t == Tail(x.wire)
           b == Last(bs)
           y == [x EXCEPT !.wire = t, !.timed = FALSE, !.asked = {}, !.hash = b, !.pc = "try"]
<1>1. /\ ContextOk(c, x) /\ x \in Context /\ x.wire \in Seq(Message)
      /\ Wired(c, x.asked, x.wire) /\ RunAt(x.needed, x.last - Len(x.needed) + 1)
  BY Zenon, ContextFacts DEF ContextsOk, ContextOk
<1>2. x.wire # <<>> /\ Head(x.wire).type = "objects" /\ x.pc = "idle"
  BY DEF handle_response_get_objects, Answered, Idle, At
<1>3. CASE Range(bs) # x.asked
  <2>1. Drop(c, q)
    BY Zenon, <1>3 DEF handle_response_get_objects
  <2> QED BY Zenon, <2>1, DropOk
<1>4. CASE Range(bs) = x.asked
  <2>1. Becomes(c, y)
    BY Zenon, <1>4 DEF handle_response_get_objects
  <2>2. bs # <<>> /\ bs \in Seq(Block) /\ x.asked \subseteq Range(ChainOf[c])
    BY Zenon, <1>1, <1>2, <1>4, SentOk DEF SentBlocks
  <2>3. /\ t \in Seq(Message) /\ Wired(c, {}, t)
    BY Zenon, <1>1, <1>2, <2>2, WiredTail, WiredNone
  <2>4. b \in Block
    <3> HIDE DEF bs
    <3> QED BY <2>2 DEF Last
  <2> HIDE DEF t, b, x
  <2>5. /\ y \in Context /\ y.wire = t /\ y.asked = {} /\ y.pc = "try"
        /\ y.callbacks = x.callbacks /\ y.needed = x.needed /\ y.state = x.state
        /\ y.last = x.last
    <3>1. t \in Seq([type : {"chain"}, start : Nat]
                      \cup [type : {"objects"}, hashes : Seq(Block)])
      BY Zenon, <2>3 DEF Message
    <3> QED BY Zenon, <1>1, <2>4, <3>1 DEF Context
  <2> HIDE DEF y
  <2>6. ContextOk(c, y)
    BY Zenon, <1>1, <1>2, <2>3, <2>5, AnswerOk DEF t
  <2> QED BY Zenon, <2>1, <2>6, BecomesOk
<1> QED BY <1>3, <1>4

(* A step of the handler within itself, that may forget what it needs.     *)
LEMMA GoesOk ==
  ASSUME ContextsOk, NEW c \in Conn, NEW y, Becomes(c, y),
         NEW p \in {"try", "next", "add", "leave", "skip", "request", "force", "reserve", "dead"},
         NEW f \in BOOLEAN,
         \/ y = [ctx[c] EXCEPT !.pc = p]
         \/ y = [ctx[c] EXCEPT !.pc = p, !.force = f]
         \/ y = [[ctx[c] EXCEPT !.pc = p] EXCEPT !.needed = <<>>, !.last = 0],
         ctx[c].pc \notin {"idle", "dead"}
  PROVE  ContextsOk'
<1> DEFINE x == ctx[c]
<1>1. ContextOk(c, x) /\ x \in Context /\ RunAt(x.needed, x.last - Len(x.needed) + 1)
  BY DEF ContextsOk, ContextOk
<1>2. x.pc \notin {"idle", "dead"}
  OBVIOUS
<1>3. <<>> \in Seq(Block)
  OBVIOUS
<1>4. /\ y \in Context /\ y.wire = x.wire /\ y.asked = x.asked /\ y.pc = p
      /\ y.callbacks = x.callbacks /\ y.state = x.state
      /\ (y.needed = x.needed /\ y.last = x.last) \/ y.needed = <<>>
  <2>1. \/ y = [x EXCEPT !.pc = p]
        \/ y = [x EXCEPT !.pc = p, !.force = f]
        \/ y = [[x EXCEPT !.pc = p] EXCEPT !.needed = <<>>, !.last = 0]
    OBVIOUS
  <2> HIDE DEF x
  <2>2. CASE y = [x EXCEPT !.pc = p]
    BY Zenon, <1>1, <2>2 DEF Context
  <2>3. CASE y = [x EXCEPT !.pc = p, !.force = f]
    BY Zenon, <1>1, <2>3 DEF Context
  <2>4. CASE y = [[x EXCEPT !.pc = p] EXCEPT !.needed = <<>>, !.last = 0]
    BY Zenon, <1>1, <1>3, <2>4 DEF Context
  <2> QED BY Zenon, <2>1, <2>2, <2>3, <2>4
<1> HIDE DEF x
<1>5. Busy(y) <= Busy(x)
  BY <1>2 DEF Busy
<1>6. RunAt(y.needed, y.last - Len(y.needed) + 1) /\ y.pc # "reset"
  <2>1. y.pc # "reset"
    BY <1>4
  <2>2. RunAt(<<>>, y.last - Len(y.needed) + 1)
    BY Zenon, RunEmpty
  <2> QED BY Zenon, <1>1, <1>4, <2>1, <2>2
<1>7. ContextOk(c, y)
  BY Zenon, <1>1, <1>4, <1>5, <1>6, CarryOk
<1> QED BY Zenon, <1>7, BecomesOk

(* try_add_next_blocks, but for a block that fails.                        *)
LEMMA MoveOk ==
  ASSUME ContextsOk, NEW c \in Conn, TryLock(c) \/ NextSpan(c) \/ Unlock(c) \/ AddBlocks(c)
  PROVE  ContextsOk'
<1>1. CASE TryLock(c)
  <2>1. ctx[c].pc \notin {"idle", "dead"}
    BY <1>1 DEF TryLock, At
  <2>2. \/ Becomes(c, [ctx[c] EXCEPT !.pc = "next"])
        \/ Becomes(c, [ctx[c] EXCEPT !.pc = "request", !.force = FALSE])
    BY Zenon, <1>1 DEF TryLock
  <2> QED BY Zenon, <2>1, <2>2, GoesOk
<1>2. CASE NextSpan(c)
  <2>1. ctx[c].pc \notin {"idle", "dead"}
    BY <1>2 DEF NextSpan, At
  <2>2. \/ Becomes(c, [ctx[c] EXCEPT !.pc = "leave"])
        \/ Becomes(c, [ctx[c] EXCEPT !.pc = "add"])
        \/ Becomes(c, [ctx[c] EXCEPT !.pc = "skip"])
        \/ Becomes(c, [[ctx[c] EXCEPT !.pc = "skip"] EXCEPT !.needed = <<>>, !.last = 0])
        \/ ctx' = ctx
    BY Zenon, <1>2 DEF NextSpan
  <2>3. CASE ctx' = ctx
    BY Zenon, <2>3 DEF ContextsOk
  <2> QED BY Zenon, <2>1, <2>2, <2>3, GoesOk
<1>3. CASE Unlock(c)
  <2>1. ctx[c].pc \notin {"idle", "dead"}
    BY <1>3 DEF Unlock, At
  <2> DEFINE f == At(c, "leave") /\ should_download_next_span(c, q)
  <2>2. Becomes(c, [ctx[c] EXCEPT !.pc = "request", !.force = f]) /\ f \in BOOLEAN
    BY Zenon, <1>3 DEF Unlock
  <2> HIDE DEF f
  <2> QED BY Zenon, <2>1, <2>2, GoesOk
<1>4. CASE AddBlocks(c)
  <2>1. ctx[c].pc \notin {"idle", "dead"}
    BY <1>4 DEF AddBlocks, At
  <2>2. Becomes(c, [ctx[c] EXCEPT !.pc = "next"])
    BY Zenon, <1>4 DEF AddBlocks
  <2> QED BY Zenon, <2>1, <2>2, GoesOk
<1> QED BY <1>1, <1>2, <1>3, <1>4

(* AddFails.                                                               *)
LEMMA FailsOk ==
  ASSUME ContextsOk, NEW c \in Conn, AddFails(c)
  PROVE  ContextsOk'
<1> DEFINE dropped == {cur.conn} \cap live
           O(d) == ctx[d].open /\ d \notin dropped
           P(d) == IF d = c THEN "idle" ELSE ctx[d].pc
           y(d) == [ctx[d] EXCEPT !.open = O(d), !.pc = P(d)]
<1>1. ctx' = [d \in Conn |-> y(d)]
  BY Zenon DEF AddFails, DropSpan
<1>2. ASSUME NEW d \in Conn PROVE ContextOk(d, y(d))
  <2> DEFINE x == ctx[d]
             z == y(d)
  <2>1. ContextOk(d, x) /\ x \in Context /\ RunAt(x.needed, x.last - Len(x.needed) + 1)
    BY DEF ContextsOk, ContextOk
  <2>2. O(d) \in BOOLEAN /\ x.pc \in {"idle", "try", "next", "add", "leave", "skip", "request",
                                     "force", "reset", "reserve", "dead"}
    BY <2>1 DEF Context
  <2>3. P(d) = "idle" \/ P(d) = x.pc
    OBVIOUS
  <2> DEFINE o == O(d)
             p == P(d)
  <2>4. z = [x EXCEPT !.open = o, !.pc = p]
    OBVIOUS
  <2>5. o \in BOOLEAN /\ (p = "idle" \/ p = x.pc)
    BY Zenon, <2>2, <2>3
  <2> HIDE DEF o, p, x, z
  <2>6. /\ z \in Context /\ z.wire = x.wire /\ z.asked = x.asked /\ z.pc = p
        /\ z.callbacks = x.callbacks /\ z.state = x.state /\ z.needed = x.needed
        /\ z.last = x.last /\ z.ask = x.ask
    BY Zenon, <2>1, <2>2, <2>4, <2>5 DEF Context
  <2>7. CASE p = "idle"
    <3>1. Busy(z) <= Busy(x) /\ z.pc # "reset"
      BY <2>6, <2>7 DEF Busy
    <3>2. ContextOk(d, z)
      BY Zenon, <2>1, <2>6, <3>1, CarryOk
    <3> QED BY <3>2 DEF z
  <2>8. CASE p = x.pc
    <3>1. Load(z) = Load(x)
      BY Zenon, <2>6, <2>8 DEF Load, Busy
    <3>2. Rested(z) /\ InReset(z)
      BY Zenon, <2>1, <2>6, <2>8, <3>1 DEF ContextOk, Rested, InReset
    <3>3. ContextOk(d, z)
      BY Zenon, <2>1, <2>6, <3>1, <3>2 DEF ContextOk
    <3> QED BY <3>3 DEF z
  <2> QED BY <2>5, <2>7, <2>8
<1> HIDE DEF y
<1> QED BY Zenon, <1>1, <1>2 DEF ContextsOk

(* What skip_unneeded_hashes leaves is still a row that ends at last.      *)
LEMMA SkipOk ==
  ASSUME NEW c, NEW x, ContextOk(c, x), x.pc # "reset", NEW S, NEW y,
         y = skip_unneeded_hashes(x, S)
  PROVE  /\ ContextOk(c, y) /\ y.wire = x.wire /\ y.asked = x.asked /\ y.pc = x.pc
         /\ y.callbacks = x.callbacks /\ y.state = x.state /\ y.last = x.last
         /\ Len(y.needed) <= Len(x.needed)
         /\ y.needed # <<>> => y.needed[1] \notin S
<1> DEFINE s == x.needed
           L == Len(s)
           n == Leading(s, S)
           u == SubSeq(s, n + 1, L)
           h == IF n > 0 /\ n = L THEN Last(s) ELSE x.hash
<1>1. /\ x \in Context /\ RunAt(s, x.last - L + 1) /\ s \in Seq(Block) /\ x.last \in Nat
      /\ x.hash \in Block \cup {NoBlock}
  <2>1. x \in Context /\ RunAt(s, x.last - L + 1)
    BY DEF ContextOk
  <2> QED BY <2>1 DEF Context
<1>2. y = [x EXCEPT !.needed = u, !.hash = h]
  BY Zenon DEF skip_unneeded_hashes
<1>3. n \in 0 .. L /\ (n < L => s[n + 1] \notin S)
  BY Zenon, <1>1, LeadingReach
<1>4. L \in Nat
  BY <1>1
<1> HIDE DEF n
<1>5. h \in Block \cup {NoBlock}
  <2>1. n > 0 /\ n = L => Last(s) \in Block
    <3> HIDE DEF s
    <3> QED BY <1>1, <1>4 DEF Last, L
  <2> QED BY Zenon, <1>1, <2>1
<1> HIDE DEF L
<1> DEFINE m == x.last - L + 1
<1>6. /\ n \in Nat /\ n <= L /\ m \in Int /\ n + 1 \in Nat \ {0}
  BY <1>1, <1>3, <1>4
<1>7. /\ RunAt(u, m + (n + 1) - 1)
      /\ Len(u) = IF n + 1 <= L THEN L - (n + 1) + 1 ELSE 0
      /\ n + 1 <= L => u[1] = s[n + 1]
  <2>1. L <= Len(s)
    BY <1>4 DEF L
  <2>2. RunAt(s, m)
    BY Zenon, <1>1
  <2> DEFINE a == n + 1
  <2>3. a \in Nat \ {0}
    BY <1>6
  <2> HIDE DEF m, a, s
  <2>4. /\ RunAt(SubSeq(s, a, L), m + a - 1)
        /\ Range(SubSeq(s, a, L)) \subseteq Range(s)
        /\ Len(SubSeq(s, a, L)) = IF a <= L THEN L - a + 1 ELSE 0
        /\ a <= L => SubSeq(s, a, L)[1] = s[a]
    BY Zenon, <1>4, <1>6, <2>1, <2>2, <2>3, RunSub
  <2> QED BY Zenon, <2>4 DEF a
<1> HIDE DEF u, h
<1> DEFINE k == Len(u)
<1>8. k \in Nat /\ k <= L /\ m + (n + 1) - 1 = x.last - k + 1 /\ (k # 0 => n + 1 <= L /\ n < L)
  <2>1. k = IF n + 1 <= L THEN L - (n + 1) + 1 ELSE 0
    BY Zenon, <1>7
  <2> HIDE DEF k
  <2> QED BY SMTT(20), <1>1, <1>4, <1>6, <2>1
<1>9. u \in Seq(Block) /\ RunAt(u, x.last - k + 1)
  <2>1. RunAt(u, x.last - k + 1)
    BY Zenon, <1>7, <1>8
  <2> QED BY Zenon, <2>1 DEF RunAt, Run
<1>10. u # <<>> => u[1] \notin S
  <2>1. u # <<>> => k # 0
    BY <1>9
  <2> QED BY Zenon, <1>3, <1>7, <1>8, <2>1
<1>11. /\ y \in Context /\ y.wire = x.wire /\ y.asked = x.asked /\ y.pc = x.pc
       /\ y.callbacks = x.callbacks /\ y.state = x.state /\ y.last = x.last /\ y.needed = u
  BY ZenonT(30), <1>1, <1>2, <1>5, <1>9 DEF Context
<1>12. Busy(y) = Busy(x)
  BY Zenon, <1>11 DEF Busy
<1>13. Busy(y) <= Busy(x)
  BY <1>12 DEF Busy
<1>14. ContextOk(c, y)
  BY Zenon, <1>9, <1>11, <1>13, CarryOk
<1> QED BY Zenon, <1>8, <1>10, <1>11, <1>14 DEF L

(* request_missing_objects, up to its decision.                            *)
LEMMA MissingOk ==
  ASSUME ContextsOk, NEW c \in Conn, RequestMissing(c)
  PROVE  ContextsOk'
<1> DEFINE w == ctx[c]
<1>1. ContextOk(c, w) /\ w.pc = "request"
  BY DEF ContextsOk, RequestMissing, At
<1>2. PICK qq, x : 
        /\ x = skip_unneeded_hashes(w, known \cup qq.have)
        /\ \/ Becomes(c, [w EXCEPT !.pc = "force"])
           \/ Becomes(c, [[x EXCEPT !.state = "synchronizing", !.pc = "reserve"]
                            EXCEPT !.force = TRUE, !.pc = "force"])
           \/ Becomes(c, [x EXCEPT !.state = "synchronizing", !.pc = "reserve"])
           \/ Becomes(c, [[x EXCEPT !.state = "standby", !.pc = "idle"]
                            EXCEPT !.callbacks = @ + 1])
           \/ Becomes(c, [x EXCEPT !.state = "standby", !.pc = "idle"])
           \/ Drop(c, qq)
  BY Zenon DEF RequestMissing
<1>3. /\ ContextOk(c, x) /\ x.pc = "request"
      /\ RunAt(x.needed, x.last - Len(x.needed) + 1)
  <2>1. w.pc # "reset"
    BY <1>1
  <2> DEFINE S == known \cup qq.have
  <2>2. x = skip_unneeded_hashes(w, S)
    BY Zenon, <1>2
  <2> HIDE DEF w, S
  <2>3. ContextOk(c, x) /\ x.pc = w.pc
    BY <1>1, <2>1, <2>2, SkipOk
  <2> QED BY Zenon, <1>1, <2>3 DEF ContextOk
<1>4. x \in Context
  BY <1>3 DEF ContextOk
<1> HIDE DEF w
<1>5. CASE Becomes(c, [w EXCEPT !.pc = "force"])
  <2>1. ctx[c].pc \notin {"idle", "dead"}
    BY <1>1 DEF w
  <2> QED BY Zenon, <1>5, <2>1, GoesOk DEF w
<1>6. ASSUME NEW y, Becomes(c, y),
             \/ y = [[x EXCEPT !.state = "synchronizing", !.pc = "reserve"]
                            EXCEPT !.force = TRUE, !.pc = "force"]
             \/ y = [x EXCEPT !.state = "synchronizing", !.pc = "reserve"]
             \/ y = [x EXCEPT !.state = "standby", !.pc = "idle"]
      PROVE  ContextsOk'
  <2>1. /\ y \in Context /\ y.wire = x.wire /\ y.asked = x.asked
        /\ y.callbacks = x.callbacks /\ y.last = x.last /\ y.needed = x.needed
        /\ y.pc # "reset" /\ (y.state = "synchronizing" \/ y.pc = "idle")
    <3>1. CASE y = [[x EXCEPT !.state = "synchronizing", !.pc = "reserve"]
                       EXCEPT !.force = TRUE, !.pc = "force"]
      BY Zenon, <1>4, <3>1 DEF Context
    <3>2. CASE y = [x EXCEPT !.state = "synchronizing", !.pc = "reserve"]
      BY Zenon, <1>4, <3>2 DEF Context
    <3>3. CASE y = [x EXCEPT !.state = "standby", !.pc = "idle"]
      BY Zenon, <1>4, <3>3 DEF Context
    <3> QED BY Zenon, <1>6, <3>1, <3>2, <3>3
  <2>2. Busy(y) <= Busy(x) /\ (y.state \in Resting => Busy(y) < Busy(x))
    BY <1>3, <2>1 DEF Busy, Resting
  <2>3. ContextOk(c, y)
    BY Zenon, <1>3, <2>1, <2>2, CarryOk
  <2> QED BY Zenon, <1>6, <2>3, BecomesOk
<1>7. ASSUME NEW y, Becomes(c, y),
             y = [[x EXCEPT !.state = "standby", !.pc = "idle"] EXCEPT !.callbacks = @ + 1]
      PROVE  ContextsOk'
  <2>1. /\ y = [x EXCEPT !.state = y.state, !.timed = y.timed, !.pc = y.pc,
                         !.callbacks = x.callbacks + 1]
        /\ y.state = "standby" /\ y.timed \in BOOLEAN /\ y.pc = "idle"
    BY Zenon, <1>4, <1>7 DEF Context
  <2>2. Len(x.wire) \in Nat /\ x.callbacks \in Nat /\ Load(x) <= MaxWire /\ MaxWire \in Nat
    BY Zenon, <1>3, ContextFacts
  <2>3. Busy(x) = 1 /\ Busy(y) = 0
    BY <1>3, <2>1 DEF Busy
  <2>4. Len(x.wire) + (x.callbacks + 1) + Busy(y) <= MaxWire
    BY <2>2, <2>3 DEF Load
  <2>5. y.state \in {"synchronizing", "standby"}
    BY <2>1
  <2>6. ContextOk(c, y)
    BY Zenon, <1>3, <2>1, <2>4, <2>5, CallOk
  <2> QED BY Zenon, <1>7, <2>6, BecomesOk
<1>8. CASE Drop(c, qq)
  BY Zenon, <1>8, DropOk
<1> QED BY Zenon, <1>2, <1>5, <1>6, <1>7, <1>8

(* The first span.                                                         *)
LEMMA FirstSpan ==
  ASSUME NEW r, IsQueue(r), Spans(r), r.spans # <<>>
  PROVE  First(r) \in DOMAIN r.spans /\ First(r) \in Nat /\ \A h \in DOMAIN r.spans : First(r) <= h
<1>1. DOMAIN r.spans \subseteq Nat
  BY Zenon DEF Spans, SpanOk
<1>2. DOMAIN r.spans # {}
  <2> SUFFICES ASSUME DOMAIN r.spans = {} PROVE r.spans = <<>>
    OBVIOUS
  <2>1. r.spans = [h \in {} |-> r.spans[h]]
    BY Zenon DEF IsQueue
  <2> QED BY <2>1
<1>3. First(r) \in DOMAIN r.spans /\ \A h \in DOMAIN r.spans : First(r) <= h
  BY Zenon, <1>1, <1>2, LeastOf DEF First
<1> QED BY Zenon, <1>1, <1>3

(* Its hashes, if they are to be asked for again.                          *)
LEMMA FirstHashes ==
  ASSUME NEW r, IsQueue(r), Spans(r), NEW hs, hs = get_next_span_if_scheduled(r), hs # <<>>
  PROVE  /\ First(r) \in Nat /\ RunAt(hs, First(r)) /\ hs \in Seq(Block)
         /\ \A h \in DOMAIN r.spans : First(r) <= h
<1>1. r.spans # <<>> /\ hs = r.spans[First(r)].hashes
  BY Zenon DEF get_next_span_if_scheduled
<1>2. First(r) \in DOMAIN r.spans /\ First(r) \in Nat /\ \A h \in DOMAIN r.spans : First(r) <= h
  BY Zenon, <1>1, FirstSpan
<1>3. RunAt(hs, First(r))
  BY Zenon, <1>1, <1>2 DEF Spans, SpanOk
<1>4. hs \in Seq(Block)
  BY Zenon, <1>3 DEF RunAt, Run
<1> QED BY Zenon, <1>2, <1>3, <1>4

(* force_next_span.                                                        *)
LEMMA ForceOk ==
  ASSUME ContextsOk, QueueOk, NEW c \in Conn, ForceNext(c)
  PROVE  ContextsOk'
<1> DEFINE x == ctx[c]
           hs == get_next_span_if_scheduled(q)
           A == x.asked \cup Range(hs)
           y == [x EXCEPT !.asked = A, !.ask = hs, !.pc = "reset"]
<1>1. ContextOk(c, x) /\ x \in Context /\ x.pc = "force"
  BY DEF ContextsOk, ContextOk, ForceNext, At
<1>2. Becomes(c, IF hs = <<>> THEN [x EXCEPT !.pc = "reserve"] ELSE y)
  BY Zenon DEF ForceNext
<1>3. CASE hs = <<>>
  <2>1. ctx[c].pc \notin {"idle", "dead"}
    BY <1>1
  <2>2. Becomes(c, [ctx[c] EXCEPT !.pc = "reserve"])
    BY Zenon, <1>2, <1>3
  <2> QED BY Zenon, <2>1, <2>2, GoesOk
<1>4. CASE hs # <<>>
  <2>1. Becomes(c, y)
    BY Zenon, <1>2, <1>4
  <2>2. hs \in Seq(Block) /\ Run(hs)
    BY Zenon, <1>4, FirstHashes DEF QueueOk, Sound, RunAt
  <2>3. A \subseteq Block /\ Range(hs) \subseteq A /\ x.asked \subseteq A
    <3>1. x.asked \subseteq Block
      BY <1>1 DEF Context
    <3> HIDE DEF hs, x
    <3> QED BY <2>2, <3>1 DEF Range
  <2> HIDE DEF x, A, hs
  <2>4. /\ y \in Context /\ y.wire = x.wire /\ y.asked = A /\ y.pc = "reset" /\ y.ask = hs
        /\ y.callbacks = x.callbacks /\ y.needed = x.needed /\ y.state = x.state
        /\ y.last = x.last
    BY Zenon, <1>1, <2>2, <2>3 DEF Context
  <2> HIDE DEF y
  <2>5. Wired(c, y.asked, y.wire) /\ InReset(y)
    BY Zenon, <1>1, <1>4, <2>2, <2>3, <2>4, WiredMore DEF ContextOk, InReset
  <2>6. Busy(y) = Busy(x)
    BY <1>1, <2>4 DEF Busy
  <2>7. Load(y) = Load(x)
    BY Zenon, <2>4, <2>6 DEF Load
  <2>8. ContextOk(c, y)
    BY Zenon, <1>1, <2>4, <2>5, <2>7 DEF ContextOk, Rested
  <2> QED BY Zenon, <2>1, <2>8, BecomesOk
<1> QED BY <1>3, <1>4

(* A request of objects, which ends the handler.                           *)
LEMMA RequestOk ==
  ASSUME NEW c, NEW x, ContextOk(c, x), x.pc \notin {"idle", "dead"},
         NEW z \in Context, z.wire = x.wire, z.callbacks = x.callbacks, z.state = x.state,
         x.asked \subseteq z.asked, RunAt(z.needed, z.last - Len(z.needed) + 1),
         NEW hs, Run(hs), hs # <<>>, Range(hs) \subseteq z.asked
  PROVE  ContextOk(c, RequestObjects(z, hs))
<1> DEFINE m == [type |-> "objects", hashes |-> hs]
           w == Append(z.wire, m)
           y == [z EXCEPT !.wire = w, !.timed = TRUE, !.pc = "idle", !.ask = <<>>]
<1>1. RequestObjects(z, hs) = y
  BY Zenon DEF RequestObjects
<1>2. m \in Message /\ MessageOk(c, z.asked, m)
  BY Zenon, ObjectsMessage
<1>3. x.wire \in Seq(Message) /\ x.callbacks \in Nat /\ Wired(c, z.asked, x.wire)
  BY Zenon, ContextFacts, WiredMore DEF ContextOk
<1> HIDE DEF m
<1>4. w \in Seq(Message) /\ w = Append(x.wire, m)
  BY Zenon, <1>2, <1>3, WiredAppend
<1> HIDE DEF w
<1>5. /\ y \in Context /\ y.wire = w /\ y.asked = z.asked /\ y.pc = "idle"
      /\ y.callbacks = x.callbacks /\ y.needed = z.needed /\ y.state = x.state /\ y.last = z.last
  <2>1. w \in Seq([type : {"chain"}, start : Nat]
                    \cup [type : {"objects"}, hashes : Seq(Block)])
    BY Zenon, <1>4 DEF Message
  <2>2. <<>> \in Seq(Block)
    OBVIOUS
  <2> QED BY Zenon, <2>1, <2>2 DEF Context
<1> HIDE DEF y
<1>6. y.callbacks + 1 = x.callbacks + Busy(x) /\ y.callbacks \in Nat
  BY <1>3, <1>5 DEF Busy
<1>7. MessageOk(c, y.asked, m) /\ y.wire = Append(x.wire, m) /\ x.asked \subseteq y.asked
      /\ RunAt(y.needed, y.last - Len(y.needed) + 1)
  BY Zenon, <1>2, <1>4, <1>5
<1>8. ContextOk(c, y)
  BY Zenon, <1>2, <1>5, <1>6, <1>7, SendOk
<1> QED BY Zenon, <1>1, <1>8

(* reset_next_span_time.                                                   *)
LEMMA ResetOk ==
  ASSUME ContextsOk, NEW c \in Conn, ResetTime(c)
  PROVE  ContextsOk'
<1> DEFINE x == ctx[c]
<1>1. ContextOk(c, x) /\ x \in Context /\ x.pc = "reset"
  BY DEF ContextsOk, ContextOk, ResetTime, At
<1>2. x.pc \notin {"idle", "dead"}
  BY <1>1
<1>3. Becomes(c, [ctx[c] EXCEPT !.pc = "dead"]) \/ Becomes(c, RequestObjects(x, x.ask))
  BY Zenon DEF ResetTime
<1>4. CASE Becomes(c, [ctx[c] EXCEPT !.pc = "dead"])
  BY Zenon, <1>2, <1>4, GoesOk
<1>5. CASE Becomes(c, RequestObjects(x, x.ask))
  <2>1. /\ RunAt(x.needed, x.last - Len(x.needed) + 1)
        /\ Run(x.ask) /\ x.ask # <<>> /\ Range(x.ask) \subseteq x.asked
    BY Zenon, <1>1 DEF ContextOk, InReset
  <2> HIDE DEF x
  <2>2. ContextOk(c, RequestObjects(x, x.ask))
    BY Zenon, <1>1, <1>2, <2>1, RequestOk
  <2> QED BY Zenon, <1>5, <2>2, BecomesOk
<1> QED BY Zenon, <1>3, <1>4, <1>5

(* The end of request_missing_objects.                                     *)
LEMMA FinishOk ==
  ASSUME ContextsOk, top \in Block, NEW c \in Conn, ctx[c].pc \notin {"idle", "dead"},
         NEW x \in Context, x.wire = ctx[c].wire, x.asked = ctx[c].asked,
         x.callbacks = ctx[c].callbacks, x.state = ctx[c].state,
         NEW r, Finish(c, x, r)
  PROVE  ContextsOk'
<1> DEFINE w == ctx[c]
           n == SplitHeight(c, x.hash)
           m == [type |-> "chain", start |-> n]
           v == Append(x.wire, m)
           y == [x EXCEPT !.needed = <<>>, !.pc = "idle", !.ask = <<>>]
           z == [[y EXCEPT !.wire = Append(@, m)] EXCEPT !.timed = TRUE]
<1>1. ContextOk(c, w)
  BY DEF ContextsOk
<1>2. Becomes(c, z) \/ Drop(c, r) \/ Becomes(c, [y EXCEPT !.state = "normal"])
  BY Zenon DEF Finish, RequestChain
<1>3. <<>> \in Seq(Block)
  OBVIOUS
<1>4. CASE Becomes(c, z)
  <2>1. n \in Nat /\ n < remote(c)
    BY Zenon, SplitOnChain
  <2> HIDE DEF n
  <2>2. m \in Message /\ MessageOk(c, x.asked, m)
    BY Zenon, <2>1, ChainMessage
  <2>3. x.wire \in Seq(Message) /\ x.callbacks \in Nat /\ Wired(c, x.asked, x.wire)
    BY Zenon, <1>1, ContextFacts DEF ContextOk
  <2> HIDE DEF m
  <2>4. v \in Seq(Message) /\ v = Append(w.wire, m)
    BY Zenon, <2>2, <2>3, WiredAppend
  <2> HIDE DEF v
  <2>5. y.wire = x.wire /\ y \in Context
    BY Zenon, <1>3 DEF Context
  <2>6. z = [y EXCEPT !.wire = v, !.timed = TRUE]
    <3>1. Append(y.wire, m) = v
      BY Zenon, <2>5 DEF v
    <3>2. [y EXCEPT !.wire = Append(@, m)] = [y EXCEPT !.wire = v]
      BY Zenon, <3>1
    <3>3. z = [[y EXCEPT !.wire = v] EXCEPT !.timed = TRUE]
      BY Zenon, <3>2
    <3> HIDE DEF y, z
    <3> QED BY <2>5, <3>3 DEF Context
  <2> HIDE DEF z
  <2>7. /\ z \in Context /\ z.wire = v /\ z.asked = x.asked /\ z.pc = "idle"
        /\ z.callbacks = x.callbacks /\ z.needed = <<>> /\ z.state = x.state
    <3>1. v \in Seq([type : {"chain"}, start : Nat]
                    \cup [type : {"objects"}, hashes : Seq(Block)])
      BY Zenon, <2>4 DEF Message
    <3>2. /\ y.asked = x.asked /\ y.pc = "idle" /\ y.callbacks = x.callbacks
          /\ y.needed = <<>> /\ y.state = x.state
      BY DEF Context
    <3> HIDE DEF y
    <3> QED BY Zenon, <2>5, <2>6, <3>1, <3>2 DEF Context
  <2>8. z.callbacks + 1 = w.callbacks + Busy(w) /\ z.callbacks \in Nat
    BY <2>3, <2>7 DEF Busy
  <2>9. /\ MessageOk(c, z.asked, m) /\ z.wire = Append(w.wire, m) /\ w.asked \subseteq z.asked
        /\ RunAt(z.needed, z.last - Len(z.needed) + 1)
    BY Zenon, <2>2, <2>4, <2>7, RunEmpty
  <2> HIDE DEF w
  <2>10. z.callbacks = w.callbacks /\ z.state = w.state
    BY Zenon, <2>7 DEF w
  <2>11. ContextOk(c, z)
    BY Zenon, <1>1, <2>2, <2>7, <2>8, <2>9, <2>10, SendOk
  <2> QED BY Zenon, <1>4, <2>11, BecomesOk
<1>5. CASE Drop(c, r)
  BY Zenon, <1>5, DropOk
<1>6. CASE Becomes(c, [y EXCEPT !.state = "normal"])
  <2> DEFINE u == [y EXCEPT !.state = "normal"]
  <2>1. /\ u \in Context /\ u.wire = x.wire /\ u.asked = x.asked /\ u.pc = "idle"
        /\ u.callbacks = x.callbacks /\ u.needed = <<>>
    BY Zenon, <1>3 DEF Context
  <2> HIDE DEF u
  <2>2. Busy(u) < Busy(w) /\ Busy(u) <= Busy(w) /\ u.pc # "reset"
    BY <2>1 DEF Busy
  <2>3. RunAt(u.needed, u.last - Len(u.needed) + 1)
    BY Zenon, <2>1, RunEmpty
  <2>4. u.wire = w.wire /\ u.asked = w.asked /\ u.callbacks = w.callbacks
    BY Zenon, <2>1
  <2> HIDE DEF w
  <2>5. ContextOk(c, u)
    BY Zenon, <1>1, <2>1, <2>2, <2>3, <2>4, CarryOk
  <2> QED BY Zenon, <1>6, <2>5, BecomesOk DEF u
<1> QED BY Zenon, <1>2, <1>4, <1>5, <1>6

(* A requested hash is that of a block at or above the first span.         *)
LEMMA RequestedHigh ==
  ASSUME NEW r, Sound(r), Spans(r), NEW F \in Nat, \A h \in DOMAIN r.spans : F <= h,
         NEW b \in r.requested
  PROVE  b \in Block /\ Height[b] >= F
<1>1. b \in HashesOf(r, DOMAIN r.spans)
  BY Zenon DEF Sound, Backed
<1>2. PICK h \in DOMAIN r.spans : b \in Range(r.spans[h].hashes)
  BY Zenon, <1>1, InHashes
<1> DEFINE s == r.spans[h].hashes
<1>3. RunAt(s, h) /\ h \in Nat /\ F <= h
  BY Zenon, <1>2 DEF Spans, SpanOk
<1>4. s \in Seq(Block)
  BY Zenon, <1>3 DEF RunAt, Run
<1>5. PICK i \in DOMAIN s : b = s[i]
  BY Zenon, <1>2 DEF Range
<1> HIDE DEF s
<1>6. i \in 1 .. Len(s) /\ Len(s) \in Nat
  BY <1>4, <1>5
<1>7. s[i] \in Block /\ Height[s[i]] = h + i - 1
  BY Zenon, <1>3, <1>6, RunHeights
<1> QED BY <1>3, <1>5, <1>6, <1>7

(* A row that starts no lower than another loses a prefix with the other.  *)
LEMMA AmongRow ==
  ASSUME NEW N, NEW n \in Int, RunAt(N, n), NEW A, NEW F \in Nat, RunAt(A, F),
         \A i \in 1 .. Len(N) : Height[N[i]] >= F
  PROVE  LET u == Among(N, Block \ Range(A))
         IN  RunAt(u, n + Len(N) - Len(u))
<1> DEFINE L == Len(N)
           S == Range(A)
           k == Leading(N, S)
           u == Among(N, Block \ S)
<1>1. N \in Seq(Block) /\ A \in Seq(Block)
  BY Zenon DEF RunAt, Run
<1>2. DOMAIN N = 1 .. L /\ L \in Nat /\ DOMAIN A = 1 .. Len(A) /\ Len(A) \in Nat
  BY <1>1
<1>3. k \in 0 .. L /\ (\A i \in 1 .. k : N[i] \in S) /\ (k < L => N[k + 1] \notin S)
  BY Zenon, <1>1, LeadingReach
<1>4. ASSUME NEW i \in 2 .. L, N[i] \in S PROVE N[i - 1] \in S
  <2>1. PICK j \in 1 .. Len(A) : N[i] = A[j]
    BY Zenon, <1>2, <1>4 DEF Range
  <2>2. i \in 1 .. L /\ i - 1 \in 1 .. L
    BY <1>2
  <2>3. Height[N[i]] = n + i - 1 /\ Height[N[i - 1]] = n + (i - 1) - 1
    BY Zenon, <2>2, RunHeights
  <2>4. Height[A[j]] = F + j - 1
    BY Zenon, RunHeights
  <2>5. Height[N[i - 1]] >= F
    BY Zenon, <2>2
  <2>6. j # 1
    BY <1>2, <2>1, <2>3, <2>4, <2>5
  <2>7. j \in 2 .. Len(A) /\ j - 1 \in 1 .. Len(A)
    BY <1>2, <2>6
  <2>8. Parent[N[i]] = N[i - 1] /\ Parent[A[j]] = A[j - 1]
    BY Zenon, <2>7 DEF RunAt, Run
  <2> QED BY Zenon, <1>2, <2>1, <2>7, <2>8 DEF Range
<1> HIDE DEF k, L, S
<1>5. k \in Nat /\ k <= L
  BY <1>2, <1>3
<1>6. \A i \in 1 .. L : i > k => N[i] \notin S
  <2> DEFINE T == {d \in Nat : (k + 1) + d <= L => N[(k + 1) + d] \notin S}
  <2>1. 0 \in T
    BY <1>2, <1>3, <1>5
  <2>2. ASSUME NEW d \in Nat, d \in T PROVE d + 1 \in T
    <3> DEFINE i == (k + 1) + (d + 1)
    <3> SUFFICES ASSUME i <= L PROVE N[i] \notin S
      BY <2>2
    <3>1. i \in 2 .. L /\ i - 1 = (k + 1) + d /\ (k + 1) + d <= L
      BY <1>2, <1>5
    <3>2. N[(k + 1) + d] \notin S
      BY Zenon, <2>2, <3>1
    <3> HIDE DEF i
    <3>3. N[i - 1] \notin S
      BY Zenon, <3>1, <3>2
    <3> QED BY Zenon, <1>4, <3>1, <3>3
  <2> HIDE DEF T
  <2>3. Nat \subseteq T
    BY Zenon, <2>1, <2>2, SetInduction
  <2> TAKE i \in 1 .. L
  <2> HAVE i > k
  <2>4. i - (k + 1) \in Nat /\ (k + 1) + (i - (k + 1)) = i /\ i <= L
    BY <1>2, <1>5
  <2> DEFINE d == i - (k + 1)
  <2>5. d \in T
    BY Zenon, <2>3, <2>4
  <2>6. (k + 1) + d = i
    BY Zenon, <2>4
  <2> HIDE DEF d
  <2> QED BY Zenon, <2>4, <2>5, <2>6 DEF T
<1>7. \A i \in 1 .. L : N[i] \in Block \ S <=> k + 1 <= i /\ i <= L
  <2>1. \A i \in 1 .. L : (i > k \/ i \in 1 .. k) /\ (i > k <=> k + 1 <= i /\ i <= L)
    BY <1>2, <1>5
  <2>2. \A i \in 1 .. L : N[i] \in Block
    BY <1>1, <1>2
  <2>3. \A i \in 1 .. L : i > k => ~(i \in 1 .. k)
    BY <1>2, <1>5
  <2> QED BY <1>3, <1>6, <2>1, <2>2, <2>3
<1> DEFINE a == k + 1
<1>8. a \in Nat \ {0} /\ L \in Nat /\ a <= L + 1 /\ L <= Len(N)
  BY <1>2, <1>5 DEF L
<1>9. \A i \in 1 .. Len(N) : N[i] \in Block \ S <=> a <= i /\ i <= L
  BY Zenon, <1>7 DEF L
<1> HIDE DEF a
<1>10. u = SubSeq(N, a, L)
  BY Zenon, <1>1, <1>8, <1>9, AmongStretch
<1>11. /\ RunAt(SubSeq(N, a, L), n + a - 1)
       /\ Range(SubSeq(N, a, L)) \subseteq Range(N)
       /\ Len(SubSeq(N, a, L)) = IF a <= L THEN L - a + 1 ELSE 0
       /\ a <= L => SubSeq(N, a, L)[1] = N[a]
  BY Zenon, <1>8, RunSub
<1> HIDE DEF u
<1> DEFINE l == Len(u)
<1>12. l = (IF a <= L THEN L - a + 1 ELSE 0) /\ RunAt(u, n + a - 1)
  BY Zenon, <1>10, <1>11
<1> HIDE DEF l
<1>13. n + a - 1 = n + L - l
  BY <1>8, <1>12
<1>14. RunAt(u, n + Len(N) - Len(u))
  BY Zenon, <1>12, <1>13 DEF l, L
<1> QED BY <1>14 DEF u, S

(* What Reserve sees: the hashes still needed.                             *)
LEMMA ReserveSees ==
  ASSUME ContextsOk, NEW c \in Conn, ctx[c].pc = "reserve", NEW y,
         y = skip_unneeded_hashes(ctx[c], known)
  PROVE  /\ ContextOk(c, y) /\ y \in Context /\ y.last \in Nat /\ y.needed \in Seq(Block)
         /\ RunAt(y.needed, y.last - Len(y.needed) + 1)
         /\ y.wire = ctx[c].wire /\ y.asked = ctx[c].asked /\ y.last = ctx[c].last
         /\ y.callbacks = ctx[c].callbacks /\ y.state = ctx[c].state
         /\ Len(y.needed) <= Len(ctx[c].needed)
         /\ y.needed # <<>> => y.needed[1] \notin known
<1> DEFINE x == ctx[c]
<1>1. ContextOk(c, x) /\ x.pc # "reset"
  BY DEF ContextsOk
<1>2. y = skip_unneeded_hashes(x, known)
  OBVIOUS
<1> HIDE DEF x
<1>3. /\ ContextOk(c, y) /\ y.wire = x.wire /\ y.asked = x.asked /\ y.pc = x.pc
      /\ y.callbacks = x.callbacks /\ y.state = x.state /\ y.last = x.last
      /\ Len(y.needed) <= Len(x.needed)
      /\ y.needed # <<>> => y.needed[1] \notin known
  BY <1>1, <1>2, SkipOk
<1>4. /\ y \in Context /\ y.last \in Nat /\ y.needed \in Seq(Block)
      /\ RunAt(y.needed, y.last - Len(y.needed) + 1)
  BY Zenon, <1>3, ContextFacts DEF ContextOk
<1> QED BY Zenon, <1>3, <1>4 DEF x

(* Reserve: the span it is given, or the first span again.                 *)
LEMMA ReserveOk ==
  ASSUME ContextsOk, QueueOk, ChainOk, NEW c \in Conn, Reserve(c)
  PROVE  ContextsOk'
<1>0. PICK x, y, r :
        /\ x = ctx[c] /\ y = skip_unneeded_hashes(ctx[c], known)
        /\ r = reserve_span(q, y.last, COUNT_LIMIT, c, y.needed)
        /\ LET after == r.start + r.n - (y.last - Len(y.needed) + 1)
               again == IF x.force THEN <<>> ELSE get_next_span_if_scheduled(q)
           IN  IF x.needed = <<>> /\ ~x.force THEN Finish(c, x, q)
               ELSE IF x.last + 1 < Len(x.needed) THEN Finish(c, [x EXCEPT !.last = 0], q)
               ELSE IF r.n > 0
               THEN /\ q' = r.q
                    /\ Becomes(c, RequestObjects(
                         [y EXCEPT !.needed = SubSeq(@, after + 1, Len(@)),
                                   !.asked = @ \cup Range(r.hashes)], r.hashes))
               ELSE IF again # <<>>
               THEN /\ UNCHANGED q
                    /\ Becomes(c, RequestObjects(
                         [y EXCEPT !.needed = Among(@, Block \ Range(again)),
                                   !.asked = @ \cup Range(again)], again))
               ELSE Finish(c, y, q)
  BY ZenonT(40) DEF Reserve
<1> DEFINE after == r.start + r.n - (y.last - Len(y.needed) + 1)
           again == IF x.force THEN <<>> ELSE get_next_span_if_scheduled(q)
           u == SubSeq(y.needed, after + 1, Len(y.needed))
           v == Among(y.needed, Block \ Range(again))
<1>1. /\ ContextOk(c, x) /\ x \in Context /\ x.pc = "reserve"
      /\ RunAt(x.needed, x.last - Len(x.needed) + 1)
  BY <1>0 DEF ContextsOk, ContextOk, Reserve, At
<1>2. \/ Finish(c, x, q)
      \/ Finish(c, [x EXCEPT !.last = 0], q)
      \/ /\ r.n > 0
         /\ Becomes(c, RequestObjects([y EXCEPT !.needed = u,
                                         !.asked = y.asked \cup Range(r.hashes)], r.hashes))
      \/ /\ ~(x.last + 1 < Len(x.needed)) /\ ~(r.n > 0) /\ again # <<>>
         /\ Becomes(c, RequestObjects([y EXCEPT !.needed = v,
                                         !.asked = y.asked \cup Range(again)], again))
      \/ Finish(c, y, q)
  BY Zenon, <1>0
<1>3. /\ ContextOk(c, y) /\ y \in Context /\ y.last \in Nat /\ y.needed \in Seq(Block)
      /\ RunAt(y.needed, y.last - Len(y.needed) + 1)
      /\ y.wire = x.wire /\ y.asked = x.asked /\ y.last = x.last
      /\ y.callbacks = x.callbacks /\ y.state = x.state
      /\ Len(y.needed) <= Len(x.needed)
      /\ y.needed # <<>> => y.needed[1] \notin known
  BY Zenon, <1>0, <1>1, ReserveSees
<1>4. top \in Block /\ ctx[c].pc \notin {"idle", "dead"} /\ Sound(q) /\ Spans(q)
  BY <1>0, <1>1 DEF ChainOk, QueueOk
<1>5. CASE Finish(c, x, q)
  BY Zenon, <1>0, <1>1, <1>4, <1>5, FinishOk
<1>6. CASE Finish(c, [x EXCEPT !.last = 0], q)
  <2> DEFINE z == [x EXCEPT !.last = 0]
  <2>1. /\ z \in Context /\ z.wire = ctx[c].wire /\ z.asked = ctx[c].asked
        /\ z.callbacks = ctx[c].callbacks /\ z.state = ctx[c].state
    BY Zenon, <1>0, <1>1 DEF Context
  <2> HIDE DEF z
  <2>2. Finish(c, z, q)
    BY <1>6 DEF z
  <2> QED BY Zenon, <1>4, <2>1, <2>2, FinishOk
<1>7. CASE Finish(c, y, q)
  BY Zenon, <1>0, <1>3, <1>4, <1>7, FinishOk
<1> DEFINE N == y.needed
           L == Len(N)
           n == y.last - L + 1
<1>8. L \in Nat /\ n \in Int /\ COUNT_LIMIT \in Nat \ {0}
  BY SMTT(20), <1>3, LimitAssumption
<1>9. /\ r.n > 0 => /\ RunAt(r.hashes, r.start) /\ r.hashes # <<>>
                    /\ Range(r.hashes) \subseteq Range(N)
                    /\ r.start + r.n - (y.last - Len(N) + 1) \in 1 .. Len(N)
      /\ r.n \in Nat
      /\ r.n = 0 => \/ N = <<>> \/ Len(N) > y.last
                    \/ \A i \in 1 .. Len(N) : N[i] \in q.requested
  <2> DEFINE e == reserve_span(q, y.last, COUNT_LIMIT, c, N)
  <2>1. RunAt(N, y.last - Len(N) + 1) /\ y.last \in Nat
    BY Zenon, <1>3
  <2>2. r = e
    BY Zenon, <1>0
  <2> HIDE DEF N
  <2>3. /\ Spans(e.q)
        /\ e.n > 0 => /\ RunAt(e.hashes, e.start) /\ e.hashes # <<>>
                      /\ Range(e.hashes) \subseteq Range(N)
                      /\ e.start + e.n - (y.last - Len(N) + 1) \in 1 .. Len(N)
        /\ e.n \in Nat
        /\ e.n = 0 => \/ N = <<>> \/ Len(N) > y.last
                      \/ \A i \in 1 .. Len(N) : N[i] \in q.requested
    BY Zenon, <1>4, <1>8, <2>1, ReserveSpans
  <2> HIDE DEF e
  <2> QED BY Zenon, <2>2, <2>3
(* A request of hs, after which nd is needed.                              *)
<1>10. ASSUME NEW nd, RunAt(nd, y.last - Len(nd) + 1), NEW hs, Run(hs), hs # <<>>,
              Becomes(c, RequestObjects([y EXCEPT !.needed = nd,
                                           !.asked = y.asked \cup Range(hs)], hs))
       PROVE  ContextsOk'
  <2> DEFINE A == y.asked \cup Range(hs)
             z == [y EXCEPT !.needed = nd, !.asked = A]
  <2>1. nd \in Seq(Block) /\ hs \in Seq(Block)
    BY Zenon, <1>10 DEF RunAt, Run
  <2>2. A \subseteq Block /\ Range(hs) \subseteq A /\ y.asked \subseteq A
    <3>1. y.asked \subseteq Block
      BY <1>3 DEF Context
    <3> QED BY <2>1, <3>1 DEF Range
  <2> HIDE DEF A
  <2>3. /\ z \in Context /\ z.wire = y.wire /\ z.asked = A
        /\ z.callbacks = y.callbacks /\ z.needed = nd /\ z.state = y.state /\ z.last = y.last
    BY Zenon, <1>3, <2>1, <2>2 DEF Context
  <2>4. Becomes(c, RequestObjects(z, hs))
    BY Zenon, <1>10 DEF A
  <2> HIDE DEF z
  <2>5. x.pc \notin {"idle", "dead"}
    BY <1>1
  <2>6. /\ z.wire = x.wire /\ z.callbacks = x.callbacks /\ z.state = x.state
        /\ x.asked \subseteq z.asked /\ RunAt(z.needed, z.last - Len(z.needed) + 1)
        /\ Range(hs) \subseteq z.asked
    BY Zenon, <1>3, <1>10, <2>2, <2>3
  <2>7. ContextOk(c, RequestObjects(z, hs))
    BY Zenon, <1>1, <1>10, <2>3, <2>5, <2>6, RequestOk
  <2> QED BY Zenon, <2>4, <2>7, BecomesOk
<1>11. CASE /\ r.n > 0
            /\ Becomes(c, RequestObjects([y EXCEPT !.needed = u,
                                            !.asked = y.asked \cup Range(r.hashes)], r.hashes))
  <2>1. after \in 1 .. L /\ Run(r.hashes) /\ r.hashes # <<>>
    BY Zenon, <1>9, <1>11 DEF RunAt
  <2> DEFINE a == after + 1
  <2>2. a \in Nat \ {0} /\ a <= L + 1 /\ L <= Len(N)
    <3> HIDE DEF after, N
    <3> QED BY <1>8, <2>1 DEF L
  <2>3. RunAt(N, n)
    BY Zenon, <1>3
  <2> HIDE DEF a, n, L, N, after
  <2>4. /\ RunAt(SubSeq(N, a, L), n + a - 1)
        /\ Range(SubSeq(N, a, L)) \subseteq Range(N)
        /\ Len(SubSeq(N, a, L)) = IF a <= L THEN L - a + 1 ELSE 0
        /\ a <= L => SubSeq(N, a, L)[1] = N[a]
    BY Zenon, <1>8, <2>2, <2>3, RunSub
  <2>5. u = SubSeq(N, a, L)
    BY Zenon DEF a, L, N
  <2> HIDE DEF u
  <2> DEFINE l == Len(u)
  <2>6. l = (IF a <= L THEN L - a + 1 ELSE 0) /\ RunAt(u, n + a - 1)
    BY Zenon, <2>4, <2>5
  <2>7. n + a - 1 = y.last - l + 1
    <3>1. n = y.last - L + 1
      BY Zenon DEF n
    <3> DEFINE t == y.last
    <3>2. n = t - L + 1 /\ t \in Nat
      BY Zenon, <1>3, <3>1
    <3> HIDE DEF l, t
    <3>3. n + a - 1 = t - l + 1
      BY <1>8, <2>2, <2>6, <3>2
    <3> QED BY <3>3 DEF t
  <2>8. RunAt(u, y.last - Len(u) + 1)
    BY Zenon, <2>6, <2>7
  <2> QED BY Zenon, <1>10, <1>11, <2>1, <2>8
<1>12. CASE /\ ~(x.last + 1 < Len(x.needed)) /\ ~(r.n > 0) /\ again # <<>>
            /\ Becomes(c, RequestObjects([y EXCEPT !.needed = v,
                                            !.asked = y.asked \cup Range(again)], again))
  <2> DEFINE F == First(q)
  <2>1. again = get_next_span_if_scheduled(q)
    BY Zenon, <1>12
  <2>2. F \in Nat /\ RunAt(again, F) /\ (\A h \in DOMAIN q.spans : F <= h) /\ Run(again)
    BY Zenon, <1>4, <1>12, <2>1, FirstHashes DEF Sound, RunAt
  <2> HIDE DEF again, F
  <2>3. r.n = 0
    BY <1>9, <1>12
  <2>4. N # <<>> => ~(L > y.last)
    <3> SUFFICES ASSUME N # <<>>, L > y.last PROVE FALSE
      OBVIOUS
    <3>1. x.last \in Nat /\ Len(x.needed) \in Nat
      BY <1>1 DEF Context
    <3> HIDE DEF L
    <3>2. L <= Len(x.needed)
      BY Zenon, <1>3 DEF L
    <3>3. n = 0 /\ 1 \in 1 .. L
      BY SMTT(20), <1>3, <1>8, <1>12, <3>1, <3>2
    <3>4. RunAt(N, 0) /\ 1 \in 1 .. Len(N)
      BY Zenon, <1>3, <3>3 DEF L
    <3>5. N[1] \in Block /\ Height[N[1]] = 0
      <4>1. RunAt(N, 0) /\ N # <<>> /\ 1 \in 1 .. Len(N)
        BY Zenon, <3>4
      <4> HIDE DEF N
      <4> QED BY <4>1 DEF RunAt, Run
    <3>6. N[1] = Genesis
      BY Zenon, <3>5, OnlyGenesis
    <3> QED BY Zenon, <1>3, <3>6 DEF ChainOk
  <2>5. \A i \in 1 .. Len(N) : Height[N[i]] >= F
    <3>1. CASE N = <<>>
      <4>1. Len(N) = 0
        BY <3>1
      <4> HIDE DEF N
      <4> QED BY <4>1
    <3>2. CASE \A i \in 1 .. Len(N) : N[i] \in q.requested
      BY Zenon, <1>4, <2>2, <3>2, RequestedHigh
    <3> QED BY Zenon, <1>9, <2>3, <2>4, <3>1, <3>2
  <2>6. RunAt(N, n)
    BY Zenon, <1>3
  <2> HIDE DEF N, n
  <2>7. RunAt(v, n + Len(N) - Len(v))
    BY Zenon, <1>8, <2>2, <2>5, <2>6, AmongRow DEF N
  <2>8. v \in Seq(Block)
    BY Zenon, <2>7 DEF RunAt, Run
  <2> DEFINE l == Len(v)
  <2> HIDE DEF v
  <2>9. l \in Nat
    BY <2>8
  <2>10. n + L - l = y.last - l + 1
    <3>1. n = y.last - L + 1
      BY Zenon DEF n
    <3> DEFINE t == y.last
    <3>2. n = t - L + 1 /\ t \in Nat
      BY Zenon, <1>3, <3>1
    <3> HIDE DEF l, L, t
    <3>3. n + L - l = t - l + 1
      BY <1>8, <2>9, <3>2
    <3> QED BY <3>3 DEF t
  <2>11. RunAt(v, y.last - Len(v) + 1)
    BY Zenon, <2>7, <2>10
  <2> QED BY Zenon, <1>10, <1>12, <2>2, <2>11
<1> QED BY Zenon, <1>2, <1>5, <1>6, <1>7, <1>11, <1>12

(* Every step keeps the contexts in order.                                 *)
LEMMA ContextsStep ==
  ASSUME SyncInv, [Next]_vars
  PROVE  ContextsOk'
<1>1. ContextsOk /\ QueueOk /\ ChainOk /\ top \in Block
  BY DEF SyncInv, ChainOk
<1>2. CASE vars' = vars
  BY Zenon, <1>1, <1>2 DEF vars, ContextsOk
<1>3. ASSUME NEW c \in Conn, Handler(c) PROVE ContextsOk'
  BY Zenon, <1>1, <1>3, MoveOk, FailsOk, MissingOk, ForceOk, ResetOk, ReserveOk DEF Handler
<1>4. ASSUME NEW c \in Conn,
             \/ Answer(c) \/ SyncData(c) \/ on_callback(c) \/ kick_idle_peers(c)
             \/ check_standby_peers(c) \/ on_connection_close(c)
      PROVE  ContextsOk'
  BY Zenon, <1>1, <1>4, ChainEntryOk, ObjectsOk, SyncDataOk, CallbackOk, TimerOk, CloseOk
     DEF Answer
<1>5. ASSUME NEW h, Age(h) PROVE ContextsOk'
  BY Zenon, <1>1, <1>5 DEF Age, ContextsOk
<1> QED BY Zenon, <1>2, <1>3, <1>4, <1>5 DEF Next

-----------------------------------------------------------------------------
(* The queue.                                                              *)

(* An answer that is taken has blocks.                                     *)
LEMMA AnswersOk ==
  ASSUME ContextsOk
  PROVE  AnswersHaveBlocks
<1> SUFFICES ASSUME NEW c \in Conn, Answered(c, "objects"), Range(SentBlocks(c)) = ctx[c].asked
             PROVE  SentBlocks(c) # <<>>
  BY DEF AnswersHaveBlocks
<1>1. ContextOk(c, ctx[c]) /\ ctx[c].wire # <<>> /\ Head(ctx[c].wire).type = "objects"
  BY DEF ContextsOk, Answered
<1> QED BY Zenon, <1>1, SentOk DEF SentBlocks

(* The end of request_missing_objects.                                     *)
LEMMA FinishSpans ==
  ASSUME NEW r, Spans(r), NEW c, NEW x, Finish(c, x, r) \/ Drop(c, r)
  PROVE  Spans(q')
BY Zenon, FlushSpans DEF Finish, Drop

(* Every step leaves the spans in place.                                   *)
LEMMA SpansStep ==
  ASSUME ContextsOk, QueueOk, [Next]_vars
  PROVE  Spans(q')
<1>1. Sound(q) /\ Spans(q) /\ IsQueue(q)
  BY DEF QueueOk, Sound
<1>2. CASE q' = q
  BY Zenon, <1>1, <1>2
<1>3. ASSUME NEW h, Age(h) PROVE Spans(q')
  BY Zenon, <1>1, <1>3, RetimeSpans DEF Age
<1>4. ASSUME NEW c \in Conn, Answer(c) PROVE Spans(q')
  <2>1. CASE handle_response_chain_entry(c)
    BY Zenon, <1>1, <2>1 DEF handle_response_chain_entry
  <2>2. CASE handle_response_get_objects(c)
    <3> DEFINE bs == SentBlocks(c)
               x == ctx[c]
    <3>1. ContextOk(c, x) /\ x.wire # <<>> /\ Head(x.wire).type = "objects"
      BY Zenon, <2>2 DEF ContextsOk, handle_response_get_objects, Answered
    <3>2. CASE Range(bs) # x.asked
      BY Zenon, <1>1, <2>2, <3>2, FinishSpans DEF handle_response_get_objects
    <3>3. CASE Range(bs) = x.asked
      <4>1. q' = add_blocks(q, Height[bs[1]], bs, c)
        BY Zenon, <2>2, <3>3 DEF handle_response_get_objects
      <4>2. Height[bs[1]] \in Nat /\ RunAt(bs, Height[bs[1]])
        BY Zenon, <3>1, <3>3, SentOk DEF SentBlocks
      <4> QED BY Zenon, <1>1, <4>1, <4>2, AddSpans
    <3> QED BY <3>2, <3>3
  <2> QED BY <1>4, <2>1, <2>2 DEF Answer
<1>5. ASSUME NEW c \in Conn, on_connection_close(c) PROVE Spans(q')
  BY Zenon, <1>1, <1>5, FlushSpans DEF on_connection_close
<1>6. ASSUME NEW c \in Conn, TryLock(c) \/ Unlock(c) \/ ForceNext(c) PROVE Spans(q')
  BY Zenon, <1>1, <1>6 DEF TryLock, Unlock, ForceNext
<1>7. ASSUME NEW c \in Conn, NextSpan(c) \/ AddBlocks(c) PROVE Spans(q')
  BY Zenon, <1>1, <1>7, FlushSpans DEF NextSpan, AddBlocks
<1>8. ASSUME NEW c \in Conn, AddFails(c) PROVE Spans(q')
  <2> DEFINE r == IF {cur.conn} \cap live = {} THEN q ELSE flush_spans(q, cur.conn, TRUE)
  <2>1. q' = remove_spans(r, cur.conn, cur.start)
    BY Zenon, <1>8 DEF AddFails, DropSpan
  <2>2. Spans(r)
    BY Zenon, <1>1, FlushSpans
  <2> QED BY Zenon, <2>1, <2>2, FlushSpans
<1>9. ASSUME NEW c \in Conn, RequestMissing(c) PROVE Spans(q')
  <2> DEFINE r == flush_stale_spans(q, live)
  <2>1. q' = r \/ Drop(c, r)
    BY Zenon, <1>9 DEF RequestMissing
  <2>2. Spans(r)
    BY Zenon, <1>1, FlushSpans
  <2> HIDE DEF r
  <2> QED BY Zenon, <2>1, <2>2, FinishSpans
<1>10. ASSUME NEW c \in Conn, ResetTime(c) PROVE Spans(q')
  <2>1. q' = q \/ (q' = reset_next_span_time(q) /\ q.spans # <<>>)
    BY Zenon, <1>10 DEF ResetTime, ResetThrows
  <2>2. CASE q' = reset_next_span_time(q) /\ q.spans # <<>>
    <3>1. First(q) \in DOMAIN q.spans
      BY Zenon, <1>1, <2>2, FirstSpan
    <3> QED BY Zenon, <1>1, <2>2, <3>1, RetimeSpans DEF reset_next_span_time
  <2> QED BY Zenon, <1>2, <2>1, <2>2
<1>11. ASSUME NEW c \in Conn, Reserve(c) PROVE Spans(q')
  <2>1. PICK y, r : /\ y = skip_unneeded_hashes(ctx[c], known)
                    /\ r = reserve_span(q, y.last, COUNT_LIMIT, c, y.needed)
                    /\ q' = r.q \/ q' = q \/ \E z : Finish(c, z, q)
    BY ZenonT(40), <1>11 DEF Reserve
  <2>2. ctx[c].pc = "reserve"
    BY <1>11 DEF Reserve, At
  <2>3. y.last \in Nat /\ RunAt(y.needed, y.last - Len(y.needed) + 1)
    BY Zenon, <2>1, <2>2, ReserveSees
  <2>4. COUNT_LIMIT \in Nat \ {0}
    BY LimitAssumption
  <2>5. Spans(reserve_span(q, y.last, COUNT_LIMIT, c, y.needed).q)
    BY Zenon, <1>1, <2>3, <2>4, ReserveSpans
  <2>6. CASE \E z : Finish(c, z, q)
    BY Zenon, <1>1, <2>6, FinishSpans
  <2> QED BY Zenon, <1>2, <2>1, <2>5, <2>6
<1>12. ASSUME NEW c \in Conn,
              SyncData(c) \/ on_callback(c) \/ kick_idle_peers(c) \/ check_standby_peers(c)
       PROVE  Spans(q')
  BY Zenon, <1>1, <1>12 DEF SyncData, on_callback, kick_idle_peers, check_standby_peers
<1>13. CASE vars' = vars
  BY Zenon, <1>2, <1>13 DEF vars
<1> QED BY Zenon, <1>3, <1>4, <1>5, <1>6, <1>7, <1>8, <1>9, <1>10, <1>11, <1>12, <1>13
        DEF Next, Handler

(* The blocks of a row whose first has a known parent.                     *)
LEMMA RowClosed ==
  ASSUME ChainOk, NEW s, Run(s), s # <<>>, Parent[s[1]] \in known,
         NEW K, K = known \cup Range(s)
  PROVE  /\ K \subseteq Block /\ Genesis \in K /\ \A b \in K : Parent[b] \in K
         /\ Last(s) \in Range(s) /\ s \in Seq(Range(s)) /\ Range(s) \subseteq Block
<1>1. s \in Seq(Block) /\ (\A i \in 2 .. Len(s) : Parent[s[i]] = s[i - 1])
  BY Zenon DEF Run
<1>2. DOMAIN s = 1 .. Len(s) /\ Len(s) \in Nat \ {0} /\ Range(s) \subseteq Block
  BY <1>1 DEF Range
<1>3. ASSUME NEW b \in Range(s) PROVE Parent[b] \in K
  <2>1. PICK i \in 1 .. Len(s) : b = s[i]
    BY Zenon, <1>2, <1>3 DEF Range
  <2>2. CASE i = 1
    BY Zenon, <2>1, <2>2
  <2>3. CASE i # 1
    <3>1. i \in 2 .. Len(s) /\ i - 1 \in 1 .. Len(s)
      BY <1>2, <2>3
    <3>2. Parent[b] = s[i - 1] /\ s[i - 1] \in Range(s)
      BY Zenon, <1>1, <1>2, <2>1, <3>1 DEF Range
    <3> QED BY Zenon, <3>2
  <2> QED BY <2>2, <2>3
<1>4. Last(s) \in Range(s)
  <2>1. Len(s) \in 1 .. Len(s) /\ Last(s) = s[Len(s)]
    BY <1>2 DEF Last
  <2> QED BY Zenon, <1>2, <2>1 DEF Range
<1>5. s \in Seq(Range(s))
  <2>1. \A i \in 1 .. Len(s) : s[i] \in Range(s)
    BY Zenon, <1>2 DEF Range
  <2>2. s = [i \in 1 .. Len(s) |-> s[i]]
    BY <1>1
  <2> DEFINE T == Range(s)
  <2> HIDE DEF T
  <2>3. \A i \in 1 .. Len(s) : s[i] \in T
    BY <2>1 DEF T
  <2>4. s \in [1 .. Len(s) -> T]
    BY Zenon, <2>2, <2>3
  <2>5. s \in Seq(T)
    BY <1>2, <2>4
  <2> QED BY <2>5 DEF T
<1>6. \A b \in known : Parent[b] \in K
  BY Zenon DEF ChainOk, KnownClosed
<1> QED BY Zenon, <1>2, <1>3, <1>4, <1>5, <1>6 DEF ChainOk

(* Every step keeps the known blocks closed, and a good one on top.        *)
LEMMA KnownStep ==
  ASSUME ChainOk, LockOk, [Next]_vars
  PROVE  ChainOk' /\ known \subseteq known'
<1>1. CASE UNCHANGED <<known, top>>
  BY Zenon, <1>1 DEF ChainOk, KnownClosed
<1>2. ASSUME NEW c \in Conn, AddBlocks(c) \/ AddFails(c) PROVE ChainOk' /\ known \subseteq known'
  <2> DEFINE s == cur.blocks
             K == known \cup Range(s)
  <2>1. ctx[c].pc = "add" /\ known' = K
    BY Zenon, <1>2 DEF AddBlocks, AddFails, At
  <2>2. Run(s) /\ s # <<>> /\ Parent[s[1]] \in known
    BY Zenon, <2>1 DEF LockOk, CurOk
  <2> HIDE DEF s
  <2>3. /\ K \subseteq Block /\ Genesis \in K /\ \A b \in K : Parent[b] \in K
        /\ Last(s) \in Range(s) /\ s \in Seq(Range(s)) /\ Range(s) \subseteq Block
    BY Zenon, <2>2, RowClosed
  <2>4. top' \in K \ Bad
    <3>1. CASE AddBlocks(c)
      <4>1. Range(s) \cap Bad = {} /\ (top' = Last(s) \/ top' = top)
        BY Zenon, <3>1 DEF AddBlocks, s
      <4> QED BY Zenon, <2>3, <4>1 DEF ChainOk
    <3>2. CASE AddFails(c)
      <4> DEFINE good == Among(s, Block \ Bad)
      <4>1. top' = top \/ (good # <<>> /\ top' = Last(good))
        BY Zenon, <3>2 DEF AddFails, s
      <4>2. good \in Seq(Range(s) \cap (Block \ Bad))
        BY Zenon, <2>3, AmongType
      <4> HIDE DEF good
      <4> DEFINE T == Range(s) \cap (Block \ Bad)
      <4>3. T \subseteq K \ Bad
        BY Zenon
      <4>4. good \in Seq(T)
        BY <4>2
      <4> HIDE DEF T
      <4>5. good # <<>> => Last(good) \in T
        BY <4>4 DEF Last
      <4> QED BY Zenon, <4>1, <4>3, <4>5 DEF ChainOk
    <3> QED BY <1>2, <3>1, <3>2
  <2> QED BY Zenon, <2>1, <2>3, <2>4 DEF ChainOk, KnownClosed
<1>3. ASSUME NEW c \in Conn,
             \/ TryLock(c) \/ NextSpan(c) \/ Unlock(c) \/ RequestMissing(c) \/ ForceNext(c)
             \/ ResetTime(c) \/ Reserve(c)
      PROVE  UNCHANGED <<known, top>>
  BY Zenon, <1>3 DEF TryLock, NextSpan, Unlock, RequestMissing, ForceNext, ResetTime, Reserve
<1>4. ASSUME NEW c \in Conn,
             \/ Answer(c) \/ SyncData(c) \/ on_callback(c) \/ kick_idle_peers(c)
             \/ check_standby_peers(c) \/ on_connection_close(c)
      PROVE  UNCHANGED <<known, top>>
  BY Zenon, <1>4 DEF Answer, handle_response_chain_entry, handle_response_get_objects, SyncData,
     on_callback, kick_idle_peers, check_standby_peers, on_connection_close
<1>5. ASSUME NEW h, Age(h) PROVE UNCHANGED <<known, top>>
  BY Zenon, <1>5 DEF Age
<1>6. CASE vars' = vars
  BY Zenon, <1>1, <1>6 DEF vars
<1> QED BY Zenon, <1>1, <1>2, <1>3, <1>4, <1>5, <1>6 DEF Next, Handler

-----------------------------------------------------------------------------
(* The lock.                                                               *)

(* Who is under the lock holds it, so no other is.                         *)
LEMMA Alone ==
  ASSUME LockOk, NEW c \in Conn, ctx[c].pc \in Locked
  PROVE  lock = c /\ \A d \in Conn \ {c} : ctx[d].pc \notin Locked
BY Zenon DEF LockOk

(* One context changes, and does not come under the lock.                  *)
LEMMA LockCarry ==
  ASSUME LockOk, ctx = [d \in Conn |-> ctx[d]], NEW c \in Conn, NEW y, Becomes(c, y),
         y.pc = ctx[c].pc \/ y.pc \notin Locked, UNCHANGED <<known, lock, cur>>
  PROVE  LockOk'
<1>1. ctx' = [d \in Conn |-> IF d = c THEN y ELSE ctx[d]]
  BY Zenon DEF Becomes
<1>2. ctx'[c] = y /\ \A d \in Conn \ {c} : ctx'[d] = ctx[d]
  BY Zenon, <1>1
<1>3. CurOk => CurOk'
  BY Zenon DEF CurOk
<1>4. "add" \in Locked
  BY DEF Locked
<1>5. ASSUME NEW d \in Conn, ctx'[d].pc \in Locked PROVE ctx'[d].pc = ctx[d].pc
  BY Zenon, <1>2, <1>5
<1>6. \A d \in Conn : ctx'[d].pc \in Locked => lock' = d
  BY Zenon, <1>5 DEF LockOk
<1>7. \A d \in Conn : ctx'[d].pc = "add" => CurOk'
  BY Zenon, <1>3, <1>4, <1>5 DEF LockOk
<1>8. lock' \in Conn \cup {NoConn} /\ (cur' = NoSpanYet \/ cur'.conn \in Conn)
  BY Zenon DEF LockOk
<1> QED BY Zenon, <1>6, <1>7, <1>8 DEF LockOk

(* A request leaves the handler idle.                                      *)
LEMMA RequestPc ==
  ASSUME NEW z, "pc" \in DOMAIN z, NEW hs
  PROVE  RequestObjects(z, hs).pc = "idle"
BY DEF RequestObjects

(* So does the end of request_missing_objects.                             *)
LEMMA FinishPc ==
  ASSUME NEW z, "pc" \in DOMAIN z, NEW c \in Conn, "pc" \in DOMAIN ctx[c], NEW r,
         Finish(c, z, r) \/ Drop(c, r)
  PROVE  \E y : Becomes(c, y) /\ y.pc = "idle"
<1> DEFINE y == [z EXCEPT !.needed = <<>>, !.pc = "idle", !.ask = <<>>]
           m == [type |-> "chain", start |-> SplitHeight(c, z.hash)]
           u == [[y EXCEPT !.wire = Append(@, m)] EXCEPT !.timed = TRUE]
           v == [y EXCEPT !.state = "normal"]
           w == [ctx[c] EXCEPT !.open = FALSE, !.pc = "idle"]
<1>1. Becomes(c, u) \/ Becomes(c, v) \/ Becomes(c, w)
  BY Zenon DEF Finish, Drop, RequestChain
<1>2. y.pc = "idle" /\ "pc" \in DOMAIN y /\ w.pc = "idle"
  OBVIOUS
<1> HIDE DEF y, w, m
<1>3. u.pc = "idle" /\ v.pc = "idle"
  BY <1>2
<1> QED BY Zenon, <1>1, <1>2, <1>3

(* A step that is not one of try_add_next_blocks leaves its handler where  *)
(* it is, or outside the stretch under the lock.                           *)
LEMMA FreeStep ==
  ASSUME ContextsOk, NEW c \in Conn,
         \/ SyncData(c) \/ on_callback(c) \/ kick_idle_peers(c) \/ check_standby_peers(c)
         \/ on_connection_close(c) \/ Answer(c)
         \/ RequestMissing(c) \/ ForceNext(c) \/ ResetTime(c) \/ Reserve(c)
  PROVE  \E y : Becomes(c, y) /\ (y.pc = ctx[c].pc \/ y.pc \notin Locked)
<1> DEFINE x == ctx[c]
           Free(p) == p \notin Locked
<1>1. x \in Context
  BY DEF ContextsOk, ContextOk
<1>2. "pc" \in DOMAIN x
  BY <1>1 DEF Context
<1>3. \A p \in {"idle", "try", "request", "force", "reset", "reserve", "dead"} : Free(p)
  BY DEF Locked
<1> HIDE DEF Free
<1>4. CASE SyncData(c) \/ kick_idle_peers(c) \/ check_standby_peers(c)
  <2>1. \/ Becomes(c, [x EXCEPT !.state = "normal"])
        \/ Becomes(c, [x EXCEPT !.state = "synchronizing", !.callbacks = @ + 1])
        \/ Becomes(c, [x EXCEPT !.timed = FALSE, !.state = "standby", !.callbacks = @ + 1])
        \/ Becomes(c, [x EXCEPT !.callbacks = @ + 1])
    BY Zenon, <1>4 DEF SyncData, kick_idle_peers, check_standby_peers
  <2>2. /\ [x EXCEPT !.state = "normal"].pc = x.pc
        /\ [x EXCEPT !.state = "synchronizing", !.callbacks = @ + 1].pc = x.pc
        /\ [x EXCEPT !.timed = FALSE, !.state = "standby", !.callbacks = @ + 1].pc = x.pc
        /\ [x EXCEPT !.callbacks = @ + 1].pc = x.pc
    BY <1>2
  <2> QED BY Zenon, <2>1, <2>2
<1>5. CASE on_callback(c)
  <2> DEFINE w == [x EXCEPT !.callbacks = @ - 1]
             n == SplitHeight(c, NoBlock)
             m == [type |-> "chain", start |-> n]
             u == [[w EXCEPT !.needed = <<>>] EXCEPT !.wire = Append(@, m)]
             v == [w EXCEPT !.state = "synchronizing", !.pc = "try"]
  <2>1. Becomes(c, CASE w.state = "synchronizing" -> u
                     [] w.state = "standby" -> v
                     [] OTHER -> w)
    BY <1>5 DEF on_callback, RequestChain
  <2>2. w.pc = x.pc /\ "pc" \in DOMAIN w
    BY <1>2
  <2> HIDE DEF w, m
  <2>3. u.pc = x.pc /\ v.pc = "try"
    BY <2>2
  <2> HIDE DEF u, v
  <2>4. Becomes(c, u) \/ Becomes(c, v) \/ Becomes(c, w)
    BY <2>1
  <2> QED BY Zenon, <1>3, <2>2, <2>3, <2>4 DEF Free
<1>6. CASE on_connection_close(c)
  <2>1. Becomes(c, ClosedContext) /\ ClosedContext.pc = "idle"
    BY <1>6 DEF on_connection_close, ClosedContext, NewContext
  <2> QED BY Zenon, <1>3, <2>1 DEF Free
<1>7. CASE Answer(c)
  <2>1. CASE handle_response_chain_entry(c)
    <3>1. PICK t, n, l : Becomes(c, [x EXCEPT !.wire = t, !.timed = FALSE, !.needed = n,
                                  !.last = l, !.pc = "request", !.force = FALSE])
      BY Zenon, <2>1 DEF handle_response_chain_entry
    <3>2. [x EXCEPT !.wire = t, !.timed = FALSE, !.needed = n, !.last = l,
                    !.pc = "request", !.force = FALSE].pc = "request"
      BY <1>2
    <3> QED BY Zenon, <1>3, <3>1, <3>2 DEF Free
  <2>2. CASE handle_response_get_objects(c)
    <3>1. CASE Drop(c, q)
      BY Zenon, <1>2, <1>3, <3>1, FinishPc DEF Free
    <3>2. CASE ~Drop(c, q)
      <4>1. PICK t, b : Becomes(c, [x EXCEPT !.wire = t, !.timed = FALSE, !.asked = {},
                                            !.hash = b, !.pc = "try"])
        BY Zenon, <2>2, <3>2 DEF handle_response_get_objects
      <4>2. [x EXCEPT !.wire = t, !.timed = FALSE, !.asked = {}, !.hash = b,
                      !.pc = "try"].pc = "try"
        BY <1>2
      <4> QED BY Zenon, <1>3, <4>1, <4>2 DEF Free
    <3> QED BY <3>1, <3>2
  <2> QED BY <1>7, <2>1, <2>2 DEF Answer
<1>8. ASSUME NEW S PROVE LET z == skip_unneeded_hashes(x, S) IN "pc" \in DOMAIN z
  BY <1>2 DEF skip_unneeded_hashes
<1>9. CASE RequestMissing(c)
  <2>1. PICK qq, z : 
        /\ z = skip_unneeded_hashes(x, known \cup qq.have)
        /\ \/ Becomes(c, [x EXCEPT !.pc = "force"])
           \/ Becomes(c, [[z EXCEPT !.state = "synchronizing", !.pc = "reserve"]
                            EXCEPT !.force = TRUE, !.pc = "force"])
           \/ Becomes(c, [z EXCEPT !.state = "synchronizing", !.pc = "reserve"])
           \/ Becomes(c, [[z EXCEPT !.state = "standby", !.pc = "idle"]
                            EXCEPT !.callbacks = @ + 1])
           \/ Becomes(c, [z EXCEPT !.state = "standby", !.pc = "idle"])
           \/ Drop(c, qq)
    BY Zenon, <1>9 DEF RequestMissing
  <2>2. "pc" \in DOMAIN z
    BY Zenon, <1>8, <2>1
  <2> DEFINE f1 == [x EXCEPT !.pc = "force"]
             f2 == [[z EXCEPT !.state = "synchronizing", !.pc = "reserve"]
                      EXCEPT !.force = TRUE, !.pc = "force"]
             f3 == [z EXCEPT !.state = "synchronizing", !.pc = "reserve"]
             f4 == [[z EXCEPT !.state = "standby", !.pc = "idle"] EXCEPT !.callbacks = @ + 1]
             f5 == [z EXCEPT !.state = "standby", !.pc = "idle"]
  <2>3. f1.pc = "force" /\ f2.pc = "force" /\ f3.pc = "reserve" /\ f4.pc = "idle" /\ f5.pc = "idle"
    BY <1>2, <2>2
  <2>4. \/ Becomes(c, f1) \/ Becomes(c, f2) \/ Becomes(c, f3) \/ Becomes(c, f4) \/ Becomes(c, f5)
        \/ Drop(c, qq)
    BY <2>1
  <2> HIDE DEF f1, f2, f3, f4, f5
  <2>5. CASE Drop(c, qq)
    BY Zenon, <1>2, <1>3, <2>5, FinishPc DEF Free
  <2>6. /\ f1.pc \notin Locked /\ f2.pc \notin Locked /\ f3.pc \notin Locked
        /\ f4.pc \notin Locked /\ f5.pc \notin Locked
    BY Zenon, <1>3, <2>3 DEF Free
  <2> QED BY Zenon, <2>4, <2>5, <2>6
<1>10. CASE ForceNext(c)
  <2>1. PICK hs, A : \/ Becomes(c, [x EXCEPT !.pc = "reserve"])
                     \/ Becomes(c, [x EXCEPT !.asked = A, !.ask = hs, !.pc = "reset"])
    BY Zenon, <1>10 DEF ForceNext
  <2>2. /\ [x EXCEPT !.pc = "reserve"].pc = "reserve"
        /\ [x EXCEPT !.asked = A, !.ask = hs, !.pc = "reset"].pc = "reset"
    BY <1>2
  <2> QED BY Zenon, <1>3, <2>1, <2>2 DEF Free
<1>11. CASE ResetTime(c)
  <2>1. Becomes(c, [x EXCEPT !.pc = "dead"]) \/ Becomes(c, RequestObjects(x, x.ask))
    BY Zenon, <1>11 DEF ResetTime
  <2>2. [x EXCEPT !.pc = "dead"].pc = "dead" /\ RequestObjects(x, x.ask).pc = "idle"
    BY <1>2, RequestPc
  <2> QED BY Zenon, <1>3, <2>1, <2>2 DEF Free
<1>12. CASE Reserve(c)
  <2> DEFINE y == skip_unneeded_hashes(x, known)
             o == [x EXCEPT !.last = 0]
  <2>1. \/ \E z \in {x, y, o} : Finish(c, z, q)
        \/ \E n, A, hs : Becomes(c, RequestObjects([y EXCEPT !.needed = n, !.asked = A], hs))
    BY ZenonT(40), <1>12 DEF Reserve
  <2>2. "pc" \in DOMAIN y /\ "pc" \in DOMAIN o
    BY <1>2, <1>8
  <2> HIDE DEF y, o
  <2>3. \A n, A : "pc" \in DOMAIN [y EXCEPT !.needed = n, !.asked = A]
    BY <2>2
  <2>4. CASE \E z \in {x, y, o} : Finish(c, z, q)
    BY Zenon, <1>2, <1>3, <2>2, <2>4, FinishPc DEF Free
  <2>5. CASE \E n, A, hs : Becomes(c, RequestObjects([y EXCEPT !.needed = n, !.asked = A], hs))
    BY Zenon, <1>3, <2>3, <2>5, RequestPc DEF Free
  <2> QED BY Zenon, <2>1, <2>4, <2>5
<1> QED BY Zenon, <1>4, <1>5, <1>6, <1>7, <1>9, <1>10, <1>11, <1>12

(* Every step keeps m_sync_lock with the one that is adding blocks, and    *)
(* what it adds in a row on a known parent.                                *)
LEMMA LockStep ==
  ASSUME SyncInv, [Next]_vars
  PROVE  LockOk'
<1>1. ContextsOk /\ QueueOk /\ ChainOk /\ LockOk /\ ctx = [d \in Conn |-> ctx[d]]
  BY DEF SyncInv, ContextsOk
<1>2. NoConn \notin Conn /\ "add" \in Locked
  BY Zenon, ConnAssumption DEF Locked
<1>3. CASE UNCHANGED <<known, ctx, lock, cur>>
  BY Zenon, <1>1, <1>3 DEF LockOk, CurOk
<1>4. ASSUME NEW c \in Conn,
             \/ SyncData(c) \/ on_callback(c) \/ kick_idle_peers(c) \/ check_standby_peers(c)
             \/ on_connection_close(c) \/ Answer(c)
             \/ RequestMissing(c) \/ ForceNext(c) \/ ResetTime(c) \/ Reserve(c)
      PROVE  LockOk'
  <2>1. PICK y : Becomes(c, y) /\ (y.pc = ctx[c].pc \/ y.pc \notin Locked)
    BY Zenon, <1>1, <1>4, FreeStep
  <2>2. UNCHANGED <<known, lock, cur>>
    BY Zenon, <1>4 DEF SyncData, on_callback, kick_idle_peers, check_standby_peers,
       on_connection_close, Answer, handle_response_chain_entry, handle_response_get_objects,
       RequestMissing, ForceNext, ResetTime, Reserve
  <2> QED BY Zenon, <1>1, <2>1, <2>2, LockCarry
(* A step of c under the lock, when no other connection is.                *)
<1>5. ASSUME NEW c \in Conn, NEW y, Becomes(c, y), \A d \in Conn \ {c} : ctx[d].pc \notin Locked,
             lock' = c \/ (lock' = NoConn /\ y.pc \notin Locked),
             cur' = NoSpanYet \/ cur'.conn \in Conn, y.pc = "add" => CurOk'
      PROVE  LockOk'
  <2>1. ctx' = [d \in Conn |-> IF d = c THEN y ELSE ctx[d]]
    BY Zenon, <1>1, <1>5 DEF Becomes
  <2>2. ctx'[c] = y /\ \A d \in Conn \ {c} : ctx'[d] = ctx[d]
    BY Zenon, <2>1
  <2>3. \A d \in Conn : ctx'[d].pc \in Locked => d = c /\ lock' = d
    BY Zenon, <1>5, <2>2
  <2>4. \A d \in Conn : ctx'[d].pc = "add" => CurOk'
    BY Zenon, <1>2, <1>5, <2>2, <2>3
  <2>5. lock' \in Conn \cup {NoConn}
    BY Zenon, <1>5
  <2> QED BY Zenon, <1>5, <2>3, <2>4, <2>5 DEF LockOk
<1>6. ASSUME NEW c \in Conn PROVE "pc" \in DOMAIN ctx[c]
  <2>1. ctx[c] \in Context
    BY Zenon, <1>1 DEF ContextsOk, ContextOk
  <2> QED BY <2>1 DEF Context
<1>7. ASSUME NEW c \in Conn, TryLock(c) PROVE LockOk'
  <2>1. CASE lock = NoConn
    <3> DEFINE y == [ctx[c] EXCEPT !.pc = "next"]
    <3>1. Becomes(c, y) /\ lock' = c /\ cur' = cur
      BY Zenon, <1>7, <2>1 DEF TryLock
    <3>2. \A d \in Conn : ctx[d].pc \notin Locked
      BY Zenon, <1>1, <1>2, <2>1 DEF LockOk
    <3>3. y.pc # "add"
      <4>1. y.pc = "next"
        BY <1>6
      <4> HIDE DEF y
      <4> QED BY <4>1
    <3>4. cur' = NoSpanYet \/ cur'.conn \in Conn
      BY Zenon, <1>1, <3>1 DEF LockOk
    <3> HIDE DEF y
    <3> QED BY Zenon, <1>5, <3>1, <3>2, <3>3, <3>4
  <2>2. CASE lock # NoConn
    <3> DEFINE y == [ctx[c] EXCEPT !.pc = "request", !.force = FALSE]
    <3>1. Becomes(c, y) /\ UNCHANGED <<known, lock, cur>>
      BY Zenon, <1>7, <2>2 DEF TryLock
    <3>2. y.pc \notin Locked
      <4>1. y.pc = "request"
        BY <1>6
      <4> HIDE DEF y
      <4> QED BY <4>1 DEF Locked
    <3> HIDE DEF y
    <3> QED BY Zenon, <1>1, <3>1, <3>2, LockCarry
  <2> QED BY <2>1, <2>2
<1>8. ASSUME NEW c \in Conn, NextSpan(c) PROVE LockOk'
  <2>1. ctx[c].pc = "next" /\ ctx[c].pc \in Locked /\ known' = known /\ lock' = lock
    BY <1>8 DEF NextSpan, At, Locked
  <2>2. lock' = c /\ \A d \in Conn \ {c} : ctx[d].pc \notin Locked
    BY Zenon, <1>1, <2>1, Alone
  <2>3. \/ UNCHANGED <<ctx, cur>>
        \/ \E p \in {"leave", "skip"} : Becomes(c, [ctx[c] EXCEPT !.pc = p]) /\ cur' = cur
        \/ Becomes(c, [[ctx[c] EXCEPT !.pc = "skip"] EXCEPT !.needed = <<>>, !.last = 0])
             /\ cur' = cur
        \/ \E h \in FilledAt(q) :
             /\ cur' = [start |-> h, conn |-> q.spans[h].conn, blocks |-> q.spans[h].blocks]
             /\ ParentKnown(q.spans[h])
             /\ Becomes(c, [ctx[c] EXCEPT !.pc = "add"])
    <3>1. FilledAt(q) # {} => Min(FilledAt(q)) \in FilledAt(q)
      <4>1. FilledAt(q) \subseteq Nat
        BY Zenon, <1>1 DEF FilledAt, QueueOk, Spans, SpanOk
      <4> QED BY Zenon, <4>1, LeastOf
    <3> QED BY Zenon, <1>8, <3>1 DEF NextSpan
  <2>4. CASE UNCHANGED <<ctx, cur>>
    BY Zenon, <1>3, <2>1, <2>4
  <2>5. ASSUME NEW p \in {"leave", "skip"}, NEW y, Becomes(c, y), y.pc = p, cur' = cur
        PROVE LockOk'
    <3>1. y.pc # "add"
      BY <2>5
    <3>2. cur' = NoSpanYet \/ cur'.conn \in Conn
      BY Zenon, <1>1, <2>5 DEF LockOk
    <3> QED BY Zenon, <1>5, <2>2, <2>5, <3>1, <3>2
  <2>6. ASSUME NEW h \in FilledAt(q), NEW y, Becomes(c, y), ParentKnown(q.spans[h]),
               cur' = [start |-> h, conn |-> q.spans[h].conn, blocks |-> q.spans[h].blocks]
        PROVE  LockOk'
    <3> DEFINE s == q.spans[h]
    <3>1. SpanOk(h, s) /\ s.blocks # <<>>
      BY Zenon, <1>1 DEF FilledAt, Filled, QueueOk, Spans
    <3>2. s.conn \in Conn /\ Run(s.blocks) /\ Parent[s.blocks[1]] \in known
      BY <2>6, <3>1 DEF SpanOk, RunAt, Span, ParentKnown
    <3> HIDE DEF s
    <3>3. cur'.conn = s.conn /\ cur'.blocks = s.blocks
      BY <2>6 DEF s
    <3>4. CurOk'
      BY Zenon, <2>1, <3>1, <3>2, <3>3 DEF CurOk
    <3> QED BY Zenon, <1>5, <2>2, <2>6, <3>2, <3>3, <3>4
  <2> DEFINE g(p) == [ctx[c] EXCEPT !.pc = p]
             k == [g("skip") EXCEPT !.needed = <<>>, !.last = 0]
  <2>7. (\A p : g(p).pc = p) /\ k.pc = "skip"
    BY <1>6
  <2>8. \/ UNCHANGED <<ctx, cur>>
        \/ \E p \in {"leave", "skip"} : Becomes(c, g(p)) /\ cur' = cur
        \/ Becomes(c, k) /\ cur' = cur
        \/ \E h \in FilledAt(q) :
             /\ cur' = [start |-> h, conn |-> q.spans[h].conn, blocks |-> q.spans[h].blocks]
             /\ ParentKnown(q.spans[h]) /\ Becomes(c, g("add"))
    BY <2>3
  <2>9. "skip" \in {"leave", "skip"}
    OBVIOUS
  <2> HIDE DEF g, k
  <2> QED BY Zenon, <2>4, <2>5, <2>6, <2>7, <2>8, <2>9
<1>9. ASSUME NEW c \in Conn, Unlock(c) PROVE LockOk'
  <2> DEFINE f == At(c, "leave") /\ should_download_next_span(c, q)
             y == [ctx[c] EXCEPT !.pc = "request", !.force = f]
  <2>1. ctx[c].pc \in Locked
    BY <1>9 DEF Unlock, At, Locked
  <2>2. Becomes(c, y) /\ lock' = NoConn /\ cur' = cur
    BY Zenon, <1>9 DEF Unlock
  <2>3. y.pc \notin Locked /\ y.pc # "add"
    <3>1. y.pc = "request"
      BY <1>6
    <3> HIDE DEF y
    <3> QED BY <3>1 DEF Locked
  <2> HIDE DEF y
  <2>4. cur' = NoSpanYet \/ cur'.conn \in Conn
    BY Zenon, <1>1, <2>2 DEF LockOk
  <2>5. \A d \in Conn \ {c} : ctx[d].pc \notin Locked
    BY Zenon, <1>1, <2>1, Alone
  <2> QED BY Zenon, <1>5, <2>2, <2>3, <2>4, <2>5
<1>10. ASSUME NEW c \in Conn, AddBlocks(c) PROVE LockOk'
  <2> DEFINE y == [ctx[c] EXCEPT !.pc = "next"]
  <2>1. ctx[c].pc \in Locked
    BY <1>10 DEF AddBlocks, At, Locked
  <2>2. Becomes(c, y) /\ lock' = lock /\ cur' = NoSpanYet
    BY Zenon, <1>10 DEF AddBlocks
  <2>3. y.pc # "add"
    <3>1. y.pc = "next"
      BY <1>6
    <3> HIDE DEF y
    <3> QED BY <3>1
  <2> HIDE DEF y
  <2>4. lock = c /\ \A d \in Conn \ {c} : ctx[d].pc \notin Locked
    BY Zenon, <1>1, <2>1, Alone
  <2> QED BY Zenon, <1>5, <2>2, <2>3, <2>4
<1>11. ASSUME NEW c \in Conn, AddFails(c) PROVE LockOk'
  <2>1. ctx[c].pc \in Locked
    BY <1>11 DEF AddFails, At, Locked
  <2>2. \A d \in Conn \ {c} : ctx[d].pc \notin Locked
    BY Zenon, <1>1, <2>1, Alone
  <2>3. ASSUME NEW d \in Conn PROVE ctx'[d].pc = IF d = c THEN "idle" ELSE ctx[d].pc
    <3> DEFINE dropped == {cur.conn} \cap live
    <3>1. ctx'[d] = [ctx[d] EXCEPT !.open = @ /\ d \notin dropped,
                                   !.pc = IF d = c THEN "idle" ELSE @]
      BY Zenon, <1>11 DEF AddFails, DropSpan
    <3>2. ctx[d] \in Context
      BY Zenon, <1>1 DEF ContextsOk, ContextOk
    <3>3. "pc" \in DOMAIN ctx[d]
      BY <3>2 DEF Context
    <3> HIDE DEF dropped
    <3> QED BY <3>1, <3>3
  <2>4. "idle" \notin Locked
    BY DEF Locked
  <2>5. \A d \in Conn : ctx'[d].pc \notin Locked
    BY Zenon, <2>2, <2>3, <2>4
  <2>6. lock' = NoConn /\ cur' = NoSpanYet
    BY Zenon, <1>11 DEF AddFails, DropSpan
  <2> QED BY Zenon, <1>2, <2>5, <2>6 DEF LockOk
<1>12. ASSUME NEW h, Age(h) PROVE LockOk'
  BY Zenon, <1>3, <1>12 DEF Age
<1>13. CASE vars' = vars
  BY Zenon, <1>3, <1>13 DEF vars
<1> QED BY Zenon, <1>4, <1>7, <1>8, <1>9, <1>10, <1>11, <1>12, <1>13 DEF Next, Handler

-----------------------------------------------------------------------------
(* The initial state.                                                      *)
LEMMA SyncInit ==
  ASSUME Init
  PROVE  SyncInv
<1>1. ContextsOk
  <2>2. \A c \in Conn : ContextOk(c, NewContext)
    BY Zenon, FreshOk
  <2>3. ctx = [c \in Conn |-> NewContext]
    BY Zenon DEF Init
  <2> QED BY Zenon, <2>2, <2>3 DEF ContextsOk
<1>2. QueueOk
  <2>1. q = EmptyQueue
    BY Zenon DEF Init
  <2>2. /\ q.spans = <<>> /\ q.requested = {} /\ q.have = {}
        /\ q = [spans |-> <<>>, requested |-> {}, have |-> {}] /\ DOMAIN <<>> = {}
    BY <2>1 DEF EmptyQueue
  <2>3. IsQueue(q)
    <3>1. <<>> = [h \in {} |-> q.spans[h]]
      OBVIOUS
    <3> QED BY Zenon, <2>2, <3>1 DEF IsQueue
  <2>4. Backed(q) /\ Spans(q)
    BY Zenon, <2>2 DEF Backed, Spans
  <2> QED BY Zenon, <2>3, <2>4 DEF QueueOk, Sound
<1>3. ChainOk
  BY Zenon, BlockAssumption DEF Init, ChainOk, KnownClosed
<1>4. LockOk
  <2>1. "idle" \notin Locked /\ "idle" # "add" /\ NewContext.pc = "idle"
    BY DEF Locked, NewContext
  <2>2. \A c \in Conn : ctx[c].pc = "idle"
    BY Zenon, <2>1 DEF Init
  <2> QED BY Zenon, <2>1, <2>2 DEF Init, LockOk
<1> QED BY <1>1, <1>2, <1>3, <1>4 DEF SyncInv

(* Every step.                                                             *)
LEMMA SyncStep ==
  ASSUME SyncInv, [Next]_vars
  PROVE  SyncInv'
<1>1. ContextsOk'
  BY Zenon, ContextsStep
<1>2. QueueOk'
  BY Zenon, SpansStep, SoundStep, AnswersOk DEF SyncInv, QueueOk, Sound, IsQueue, Backed, Spans
<1>3. ChainOk'
  BY Zenon, KnownStep DEF SyncInv
<1>4. LockOk'
  BY Zenon, LockStep
<1> QED BY Zenon, <1>1, <1>2, <1>3, <1>4 DEF SyncInv

(* What the types follow from.                                             *)
LEMMA SyncTyped ==
  ASSUME SyncInv
  PROVE  TypeOK
<1>1. ContextsOk /\ Sound(q) /\ Spans(q) /\ ChainOk /\ LockOk
  BY DEF SyncInv, QueueOk
<1>2. ASSUME NEW c \in Conn
      PROVE  ctx[c] \in Context /\ Len(ctx[c].wire) + ctx[c].callbacks <= MaxWire
  <2> DEFINE x == ctx[c]
             L == Len(x.wire)
  <2>1. ContextOk(c, x)
    BY <1>1 DEF ContextsOk
  <2>2. /\ x \in Context /\ L \in Nat /\ x.callbacks \in Nat /\ Busy(x) \in {0, 1}
        /\ Load(x) <= MaxWire /\ MaxWire \in Nat /\ Load(x) = L + x.callbacks + Busy(x)
    BY Zenon, <2>1, ContextFacts DEF Load
  <2> HIDE DEF L, x
  <2>3. L + x.callbacks <= MaxWire
    BY <2>2
  <2> QED BY Zenon, <2>2, <2>3 DEF L, x
<1>3. \A h \in DOMAIN q.spans : h \in Nat /\ q.spans[h] \in Span
  BY Zenon, <1>1 DEF Spans, SpanOk
<1>4. \A h \in DOMAIN q.spans : Range(q.spans[h].hashes) \subseteq Block
  <2> TAKE h \in DOMAIN q.spans
  <2> DEFINE s == q.spans[h].hashes
  <2>1. s \in Seq(Block)
    BY Zenon, <1>1 DEF Spans, SpanOk, RunAt, Run
  <2> HIDE DEF s
  <2>2. Range(s) \subseteq Block
    BY <2>1 DEF Range
  <2> QED BY <2>2 DEF s
<1>5. FilledAt(q) \subseteq DOMAIN q.spans
  BY DEF FilledAt
<1>6. HashesOf(q, DOMAIN q.spans) \subseteq Block /\ HashesOf(q, FilledAt(q)) \subseteq Block
  BY Zenon, <1>4, <1>5, InHashes
<1>7. q.requested \subseteq Block /\ q.have \subseteq Block
  BY Zenon, <1>1, <1>6 DEF Sound, Backed
<1> QED BY Zenon, <1>1, <1>2, <1>3, <1>7 DEF TypeOK, ChainOk, LockOk

(* The invariant that the following theorems rest on.                      *)
THEOREM SyncAlways == Spec => []SyncInv
<1>1. Init => SyncInv
  BY SyncInit
<1>2. SyncInv /\ [Next]_vars => SyncInv'
  BY SyncStep
<1> QED BY <1>1, <1>2, PTL DEF Spec

(* TypeOK holds for any peers, chains and limits: in particular no peer is *)
(* ever owed more than MaxWire requests, though kicks, standby callbacks   *)
(* and re-requests interleave with the handlers.                           *)
THEOREM BlockSyncTyped == Spec => []TypeOK
<1>1. SyncInv => TypeOK
  BY SyncTyped
<1> QED BY <1>1, SyncAlways, PTL

(* Whatever peers there are, whatever their chains and in whatever order   *)
(* the handlers, timers and closed connections act on the queue, a hash is *)
(* marked in requested_hashes only while a span holds it and in            *)
(* have_blocks only while a filled span does.                              *)
THEOREM HashesAlwaysBacked == Spec => []HashesBacked
<1>1. SyncInv => HashesBacked
  BY Zenon DEF SyncInv, QueueOk, Sound, Backed, HashesBacked
<1> QED BY <1>1, SyncAlways, PTL

(* An answer that handle_response_get_objects takes has a block.           *)
THEOREM AnswersAlwaysHaveBlocks == Spec => []AnswersHaveBlocks
<1>1. SyncInv => AnswersHaveBlocks
  BY Zenon, AnswersOk DEF SyncInv
<1> QED BY <1>1, SyncAlways, PTL

(* No block is added before its parent, whatever spans the queue holds and *)
(* whichever connection's handler adds them.                               *)
THEOREM KnownAlwaysClosed == Spec => []KnownClosed
<1>1. SyncInv => KnownClosed
  BY Zenon DEF SyncInv, ChainOk
<1> QED BY <1>1, SyncAlways, PTL
=============================================================================
