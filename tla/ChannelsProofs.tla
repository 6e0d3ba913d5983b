--------------------------- MODULE ChannelsProofs ---------------------------
(***************************************************************************)
(* Theorems about Channels: the shares and slots a bridge accounts for,    *)
(* and the streams between visitors and targets, for any number of         *)
(* connections, of connection numbers and of frames, and any budgets.      *)
(*                                                                         *)
(* A connection is spoken of while it is active, served, with the reader   *)
(* or in a message under way; until a number clashes no two such           *)
(* connections have one number, so that whatever a number finds in a table *)
(* is the connection meant (Tables).  In each direction the frames taken,  *)
(* those held on the way and those in a queue are then the stream, in      *)
(* order and without a gap, and an end comes behind all of them (UpOK,     *)
(* DownOK).                                                                *)
(***************************************************************************)
EXTENDS Channels, FiniteSetTheorems, SequenceTheorems, TLAPS

-----------------------------------------------------------------------------
(* The inductive invariant. *)

Number == 1 .. Numbers - 1
MessageType == [t : {"none", "open", "data", "end", "reset", "ping", "pong", "drain"}, n : Nat, c : Conn \union {None}, k : Nat]
Item == Conn \X Nat

VisitorTypes ==
    /\ visit \in [Conn -> {"new", "routed", "carried", "done"}] /\ num \in [Conn -> Nat]
    /\ up \in [Conn -> {"off", "run", "done"}] /\ down \in [Conn -> {"off", "run", "done"}]
    /\ vis \in [Conn -> {"open", "fin", "reset"}] /\ got \in [Conn -> Seq(Item)] /\ sent \in [Conn -> Nat] /\ vend \subseteq Conn

HeldTypes ==
    /\ finished \subseteq Conn /\ abort \subseteq finished
    /\ inbound \in [Conn -> Seq(Item)] /\ budget \in [Conn -> Int] /\ shared \in Int

BridgeTypes ==
    /\ bridge \in {"up", "closing", "lost", "gone"} /\ sequence \in Nat
    /\ channels \in [Number -> Conn \union {None}] /\ visitors \in Int

ReaderTypes ==
    /\ DOMAIN reader = {"at", "c", "x", "todo", "tell"}
    /\ reader.at \in {"read", "wait", "stall", "tell"} /\ reader.c \in Conn \union {None}
    /\ reader.x \in Item \union {<<>>} /\ reader.todo \subseteq Conn /\ reader.tell \in MessageType

ClientTypes ==
    /\ served \in [Number -> Conn \union {None}] /\ task \in [Conn -> {"off", "run", "ended", "failed", "done"}]
    /\ local \in [Conn -> Seq(Item)] /\ tgot \in [Conn -> Seq(Item)] /\ tsent \in [Conn -> Nat]
    /\ tfin \subseteq Conn /\ tcut \subseteq Conn /\ tend \subseteq Conn

QueueTypes ==
    /\ outbound \in Seq(MessageType) /\ credit \in Int
    /\ controls \in Seq(MessageType) /\ datas \in Seq(MessageType) /\ creader \in (Conn \X Item) \union {None}

ChannelsTypeOK == VisitorTypes /\ HeldTypes /\ BridgeTypes /\ ReaderTypes /\ ClientTypes /\ QueueTypes

Active(c) == visit[c] \in {"routed", "carried"}
Told(c) == visit[c] \in {"carried", "done"}
Underway == Range(outbound) \union Range(controls) \union Range(datas)

\* What a message says of its connection.
Sound(m) ==
    /\ m.c = None => m.n = 0 /\ m.t \notin {"open", "data", "end", "reset"}
    /\ m.c # None => m.n = num[m.c] /\ Told(m.c)
    /\ m.t = "data" => m.k > 0
    /\ m.t = "end" => m.k = 0

WithReader == (reader.todo \union {reader.c, reader.tell.c}) \ {None}
Spoken == {c \in Conn : Active(c)} \union WithReader \union (Range(served) \ {None}) \union ({m.c : m \in Underway} \ {None})

Tables ==
    /\ \A c \in Conn : visit[c] # "new" => num[c] \in Number
    /\ \A n \in Number : channels[n] # None => Active(channels[n]) /\ num[channels[n]] = n
    /\ \A c \in Conn : visit[c] = "routed" => channels[num[c]] = c \/ bridge = "gone"
    /\ bridge = "gone" => \A n \in Number : channels[n] = None
    /\ \A n \in Number : served[n] # None => num[served[n]] = n /\ Told(served[n]) /\ task[served[n]] \in {"run", "ended", "failed"}
    /\ \A c \in Conn : task[c] \in {"run", "ended", "failed"} => Told(c) /\ served[num[c]] = c
    /\ \A m \in Underway : Sound(m)
    /\ Sound(reader.tell)
    /\ \A c \in WithReader : Told(c)
    /\ \A c, d \in Spoken : num[c] = num[d] => c = d

\* Where each connection is.
Phases ==
    /\ reader.at = "read" => reader = Reading
    /\ reader.at \in {"wait", "stall"} => reader.c # None
    /\ reader.c # None => reader.x \in Item /\ reader.x[2] # 0
    /\ reader.tell.t \in {"none", "pong", "reset"}
    /\ ~Open => outbound = <<>>
    /\ \A m \in Range(controls) : m.t \in {"reset", "ping", "pong"}
    /\ \A c \in Conn :
         /\ visit[c] = "carried" => up[c] # "off" /\ down[c] # "off" /\ sent[c] > 0
         /\ visit[c] # "carried" => up[c] = "off" /\ down[c] = "off"
         /\ visit[c] \in {"new", "routed"} => task[c] = "off" /\ got[c] = <<>> /\ vis[c] = "open" /\ sent[c] = 0 /\ c \notin vend
         /\ visit[c] = "new" => c \notin finished
         /\ task[c] = "off" =>
              tgot[c] = <<>> /\ local[c] = <<>> /\ tsent[c] = 0 /\ c \notin tfin \union tend
         /\ c \in tend => task[c] # "run"
         /\ creader # None => task[creader[1]] # "off"

IsData(m, c) == m.t = "data" /\ m.c = c
IsEnd(m, c) == m.t = "end" /\ m.c = c

\* The data of c in a queue is its frames lo + 1 .. hi in order, then perhaps its end.
Ordered(q, c, lo, hi) ==
    /\ \A i \in 1 .. Len(q) : IsData(q[i], c) => lo < q[i].k /\ q[i].k <= hi
    /\ \A i, j \in 1 .. Len(q) : IsData(q[i], c) /\ IsData(q[j], c) /\ i < j => q[i].k < q[j].k
    /\ \A k \in Nat : lo < k /\ k <= hi => \E i \in 1 .. Len(q) : IsData(q[i], c) /\ q[i].k = k
    /\ \A i, j \in 1 .. Len(q) : IsEnd(q[i], c) /\ (IsData(q[j], c) \/ IsEnd(q[j], c)) => j <= i
NoEnd(q, c) == \A i \in 1 .. Len(q) : ~IsEnd(q[i], c)

\* Items on their way: the frames behind from, in order, then perhaps the end.
Shape(s, c, from) ==
    \A i \in 1 .. Len(s) : s[i] = <<c, from + i>> \/ (i = Len(s) /\ s[i] = EndOf(c))
Ends(s, c) == s # <<>> /\ s[Len(s)] = EndOf(c)
Count(s, c) == IF Ends(s, c) THEN Len(s) - 1 ELSE Len(s)

\* From the target: what is queued for the visitor, and what the reader waits with.
DownFlow(c) == IF reader.c = c THEN Append(inbound[c], reader.x) ELSE inbound[c]
DownCount(c) == Len(got[c]) + Count(DownFlow(c), c)

\* The client's end was read, and everything before it.
EndRead(c) ==
    /\ visit[c] = "carried" /\ channels[num[c]] # c /\ reader.c # c /\ c \in tend
    /\ down[c] = "run" => Ends(inbound[c], c)
    /\ vis[c] = "fin" => Len(got[c]) = tsent[c]

DownOK(c) ==
    /\ \A i \in 1 .. Len(got[c]) : got[c][i] = <<c, i>>
    /\ vis[c] = "fin" => down[c] # "run"
    /\ visit[c] = "carried" /\ down[c] = "run" => Shape(DownFlow(c), c, Len(got[c]))
    /\ Ends(inbound[c], c) => channels[num[c]] # c /\ reader.c # c /\ c \in tend /\ DownCount(c) = tsent[c]
    /\ Active(c) /\ c \notin abort =>
         \/ channels[num[c]] = c /\ c \notin finished /\ down[c] # "done"
         \/ EndRead(c)
    /\ Active(c) /\ c \notin abort /\ channels[num[c]] = c /\ bridge = "up" =>
         DownCount(c) <= tsent[c] /\ Ordered(datas, c, DownCount(c), tsent[c])
    /\ Active(c) /\ c \in abort /\ channels[num[c]] = c => ~Open
    /\ c \notin tend => NoEnd(datas, c)

\* From the visitor: what is queued for the target, and what the client's reader waits with.
UpFlow(c) == IF creader # None /\ creader[1] = c THEN Append(local[c], creader[2]) ELSE local[c]
UpCount(c) == Len(tgot[c]) + Count(UpFlow(c), c)
IsOpen(m, c) == m.t = "open" /\ m.c = c
Opening(c) == \E i \in 1 .. Len(outbound) : IsOpen(outbound[i], c)
OpenFirst(c) ==
    \A i, j \in 1 .. Len(outbound) :
      IsOpen(outbound[i], c) /\ outbound[j].c = c /\ outbound[j].t \in {"open", "data", "end"} => i <= j

UpOK(c) ==
    /\ \A i \in 1 .. Len(tgot[c]) : tgot[c][i] = <<c, i>>
    /\ c \in tfin => c \in vend /\ up[c] # "run" /\ Told(c) /\ Len(tgot[c]) = sent[c]
    /\ up[c] = "run" => c \notin vend
    /\ Running(c) => Shape(UpFlow(c), c, Len(tgot[c]))
    /\ Running(c) /\ (c \in tfin \/ Ends(UpFlow(c), c)) =>
         /\ c \in vend /\ UpCount(c) = sent[c] /\ NoEnd(outbound, c)
         /\ c \in tfin => UpFlow(c) = <<>>
    /\ Open /\ (Running(c) \/ Opening(c)) => UpCount(c) <= sent[c] /\ Ordered(outbound, c, UpCount(c), sent[c])
    /\ c \notin vend => NoEnd(outbound, c)
    /\ Opening(c) => task[c] = "off"
    /\ OpenFirst(c)

\* A connection that is over, and was not torn down.
Settled(c) == visit[c] = "done" /\ vis[c] = "fin" => c \in tend /\ Len(got[c]) = tsent[c]

ChannelsInv ==
    /\ ChannelsTypeOK /\ Tables /\ Phases /\ Balanced
    /\ \A c \in Conn : DownOK(c) /\ UpOK(c) /\ Settled(c)

-----------------------------------------------------------------------------
(* Sequences. *)

LEMMA AppendIs ==
    ASSUME NEW S, NEW s \in Seq(S), NEW m \in S
    PROVE  /\ Append(s, m) \in Seq(S) /\ Len(Append(s, m)) = Len(s) + 1 /\ Len(s) \in Nat
           /\ Append(s, m)[Len(s) + 1] = m
           /\ \A i \in 1 .. Len(s) : Append(s, m)[i] = s[i]
           /\ Append(s, m) # <<>>
  OBVIOUS

LEMMA TailIs ==
    ASSUME NEW S, NEW s \in Seq(S), s # <<>>
    PROVE  /\ Tail(s) \in Seq(S) /\ Len(Tail(s)) = Len(s) - 1 /\ Len(s) \in Nat \ {0}
           /\ Head(s) = s[1] /\ Head(s) \in S
           /\ \A i \in 1 .. Len(Tail(s)) : Tail(s)[i] = s[i + 1]
  OBVIOUS

LEMMA ConcatIs ==
    ASSUME NEW S, NEW s \in Seq(S), NEW m \in S, NEW l \in S
    PROVE  s \o <<m>> = Append(s, m) /\ s \o <<m, l>> = Append(Append(s, m), l)
  OBVIOUS

LEMMA RangeIs ==
    ASSUME NEW S, NEW s \in Seq(S)
    PROVE  /\ \A m \in S : Range(Append(s, m)) = Range(s) \union {m}
           /\ s # <<>> => Head(s) \in Range(s) /\ Range(Tail(s)) \subseteq Range(s)
           /\ \A i \in 1 .. Len(s) : s[i] \in Range(s)
           /\ \A m \in Range(s) : m \in S /\ \E i \in 1 .. Len(s) : s[i] = m
           /\ Range(<<>>) = {}
  <1>1. ASSUME NEW m \in S PROVE Range(Append(s, m)) = Range(s) \union {m}
    BY AppendIs DEF Range
  <1>2. ASSUME s # <<>> PROVE Head(s) \in Range(s) /\ Range(Tail(s)) \subseteq Range(s)
    BY <1>2, TailIs DEF Range
  <1>3. /\ \A i \in 1 .. Len(s) : s[i] \in Range(s)
        /\ \A m \in Range(s) : m \in S /\ \E i \in 1 .. Len(s) : s[i] = m
    BY DEF Range
  <1>4. Range(<<>>) = {}
    BY DEF Range
  <1> QED
    BY <1>1, <1>2, <1>3, <1>4

-----------------------------------------------------------------------------
(* The frames of one connection in a queue. *)

Irrelevant(m, c) == ~(m.c = c /\ m.t \in {"open", "data", "end"})

LEMMA MessageIs ==
    ASSUME NEW q \in Seq(MessageType), NEW i \in 1 .. Len(q)
    PROVE  q[i] \in MessageType /\ q[i].k \in Nat
  <1>1. q[i] \in MessageType
    OBVIOUS
  <1> QED
    BY <1>1 DEF MessageType

LEMMA OrderedAppendOther ==
    ASSUME NEW q \in Seq(MessageType), NEW m \in MessageType, NEW c \in Conn, NEW lo \in Nat, NEW hi \in Nat,
           Ordered(q, c, lo, hi), ~IsData(m, c), ~IsEnd(m, c)
    PROVE  Ordered(Append(q, m), c, lo, hi)
  <1> DEFINE r == Append(q, m)
  <1>1. Len(r) = Len(q) + 1 /\ r[Len(q) + 1] = m /\ Len(q) \in Nat /\ \A i \in 1 .. Len(q) : r[i] = q[i]
    BY AppendIs
  <1> HIDE DEF r
  <1>2. \A i \in 1 .. Len(r) : IsData(r[i], c) \/ IsEnd(r[i], c) => i \in 1 .. Len(q) /\ r[i] = q[i]
    BY <1>1
  <1>3. \A k \in Nat : lo < k /\ k <= hi => \E i \in 1 .. Len(r) : IsData(r[i], c) /\ r[i].k = k
    BY <1>1 DEF Ordered
  <1>4. Ordered(r, c, lo, hi)
    BY <1>2, <1>3 DEF Ordered
  <1> QED
    BY <1>4 DEF r

LEMMA OrderedAppendData ==
    ASSUME NEW q \in Seq(MessageType), NEW m \in MessageType, NEW c \in Conn, NEW lo \in Nat, NEW hi \in Nat, lo <= hi,
           Ordered(q, c, lo, hi), NoEnd(q, c), IsData(m, c), m.k = hi + 1
    PROVE  Ordered(Append(q, m), c, lo, hi + 1)
  <1> DEFINE r == Append(q, m)
  <1>1. Len(r) = Len(q) + 1 /\ r[Len(q) + 1] = m /\ Len(q) \in Nat /\ \A i \in 1 .. Len(q) : r[i] = q[i]
    BY AppendIs
  <1> HIDE DEF r
  <1>0. ~IsEnd(m, c)
    BY DEF IsEnd, IsData
  <1>2. \A i \in 1 .. Len(r) : \/ i \in 1 .. Len(q) /\ r[i] = q[i]
                               \/ i = Len(q) + 1 /\ r[i] = m
    BY <1>1
  <1>3. \A k \in Nat : lo < k /\ k <= hi + 1 => \E i \in 1 .. Len(r) : IsData(r[i], c) /\ r[i].k = k
    BY <1>1 DEF Ordered
  <1>4. \A i \in 1 .. Len(r) : ~IsEnd(r[i], c)
    BY <1>0, <1>2 DEF NoEnd
  <1>8. \A i \in 1 .. Len(q) : q[i].k \in Nat
    BY MessageIs
  <1>9. \A i \in 1 .. Len(q) : IsData(q[i], c) => lo < q[i].k /\ q[i].k <= hi
    BY DEF Ordered
  <1>5. \A i \in 1 .. Len(r) : IsData(r[i], c) => lo < r[i].k /\ r[i].k <= hi + 1
    BY <1>2, <1>8, <1>9
  <1>6. ASSUME NEW i \in 1 .. Len(r), NEW j \in 1 .. Len(r), IsData(r[i], c), IsData(r[j], c), i < j
        PROVE  r[i].k < r[j].k
    <2>1. i \in 1 .. Len(q) /\ r[i] = q[i]
      BY <1>1, <1>6
    <2>2. CASE j \in 1 .. Len(q) /\ r[j] = q[j]
      BY <1>6, <2>1, <2>2 DEF Ordered
    <2>3. CASE r[j] = m
      BY <1>6, <1>8, <1>9, <2>1, <2>3
    <2> QED
      BY <1>2, <2>2, <2>3
  <1>7. Ordered(r, c, lo, hi + 1)
    BY <1>3, <1>4, <1>5, <1>6 DEF Ordered
  <1> QED
    BY <1>7 DEF r

LEMMA OrderedAppendEnd ==
    ASSUME NEW q \in Seq(MessageType), NEW m \in MessageType, NEW c \in Conn, NEW lo \in Nat, NEW hi \in Nat,
           Ordered(q, c, lo, hi), NoEnd(q, c), IsEnd(m, c)
    PROVE  Ordered(Append(q, m), c, lo, hi)
  <1> DEFINE r == Append(q, m)
  <1>1. Len(r) = Len(q) + 1 /\ r[Len(q) + 1] = m /\ Len(q) \in Nat /\ \A i \in 1 .. Len(q) : r[i] = q[i]
    BY AppendIs
  <1> HIDE DEF r
  <1>0. ~IsData(m, c)
    BY DEF IsEnd, IsData
  <1>2. \A i \in 1 .. Len(r) : IsData(r[i], c) => i \in 1 .. Len(q) /\ r[i] = q[i]
    BY <1>0, <1>1
  <1>3. \A k \in Nat : lo < k /\ k <= hi => \E i \in 1 .. Len(r) : IsData(r[i], c) /\ r[i].k = k
    BY <1>1 DEF Ordered
  <1>4. \A i \in 1 .. Len(r) : IsEnd(r[i], c) => i = Len(q) + 1
    BY <1>1 DEF NoEnd
  <1>5. \A i, j \in 1 .. Len(r) : IsEnd(r[i], c) /\ (IsData(r[j], c) \/ IsEnd(r[j], c)) => j <= i
    BY <1>1, <1>4
  <1>6. Ordered(r, c, lo, hi)
    BY <1>2, <1>3, <1>5 DEF Ordered
  <1> QED
    BY <1>6 DEF r

LEMMA NoEndAppend ==
    ASSUME NEW q \in Seq(MessageType), NEW m \in MessageType, NEW c \in Conn, NoEnd(q, c), ~IsEnd(m, c)
    PROVE  NoEnd(Append(q, m), c)
  BY AppendIs DEF NoEnd

LEMMA NoEndTail ==
    ASSUME NEW q \in Seq(MessageType), q # <<>>, NEW c \in Conn, NoEnd(q, c)
    PROVE  NoEnd(Tail(q), c)
  BY TailIs DEF NoEnd

\* The tail of a queue keeps its order.
LEMMA TailOrdered ==
    ASSUME NEW q \in Seq(MessageType), q # <<>>, NEW c \in Conn, NEW lo, NEW hi, Ordered(q, c, lo, hi),
           NEW i \in 1 .. Len(Tail(q)), NEW j \in 1 .. Len(Tail(q))
    PROVE  /\ IsData(Tail(q)[i], c) /\ IsData(Tail(q)[j], c) /\ i < j => Tail(q)[i].k < Tail(q)[j].k
           /\ IsEnd(Tail(q)[i], c) /\ (IsData(Tail(q)[j], c) \/ IsEnd(Tail(q)[j], c)) => j <= i
  <1>1. PICK a \in 1 .. Len(q), b \in 1 .. Len(q) : a = i + 1 /\ b = j + 1 /\ Tail(q)[i] = q[a] /\ Tail(q)[j] = q[b]
    BY TailIs
  <1>2. i \in Nat /\ j \in Nat
    BY TailIs
  <1>3. (i < j => a < b) /\ (b <= a => j <= i)
    BY <1>1, <1>2
  <1>4. IsData(q[a], c) /\ IsData(q[b], c) /\ a < b => q[a].k < q[b].k
    BY <1>1 DEF Ordered
  <1>5. IsEnd(q[a], c) /\ (IsData(q[b], c) \/ IsEnd(q[b], c)) => b <= a
    BY <1>1 DEF Ordered
  <1> QED
    BY <1>1, <1>3, <1>4, <1>5

LEMMA OrderedTailOther ==
    ASSUME NEW q \in Seq(MessageType), q # <<>>, NEW c \in Conn, NEW lo \in Nat, NEW hi \in Nat,
           Ordered(q, c, lo, hi), ~IsData(Head(q), c), ~IsEnd(Head(q), c)
    PROVE  Ordered(Tail(q), c, lo, hi)
  <1> DEFINE r == Tail(q)
  <1>1. /\ Len(r) = Len(q) - 1 /\ Len(q) \in Nat \ {0} /\ Head(q) = q[1]
        /\ \A i \in 1 .. Len(r) : r[i] = q[i + 1] /\ i + 1 \in 1 .. Len(q)
    BY TailIs
  <1> HIDE DEF r
  <1>2. ASSUME NEW k \in Nat, lo < k, k <= hi
        PROVE  \E i \in 1 .. Len(r) : IsData(r[i], c) /\ r[i].k = k
    <2>1. PICK i \in 1 .. Len(q) : IsData(q[i], c) /\ q[i].k = k
      BY <1>2 DEF Ordered
    <2>2. i # 1 /\ i - 1 \in 1 .. Len(r) /\ r[i - 1] = q[i]
      BY <1>1, <2>1
    <2> QED
      BY <2>1, <2>2
  <1>3. \A i \in 1 .. Len(r) : IsData(r[i], c) => lo < r[i].k /\ r[i].k <= hi
    BY <1>1 DEF Ordered
  <1>4. \A i, j \in 1 .. Len(r) : IsData(r[i], c) /\ IsData(r[j], c) /\ i < j => r[i].k < r[j].k
    BY TailOrdered DEF r
  <1>5. \A i, j \in 1 .. Len(r) : IsEnd(r[i], c) /\ (IsData(r[j], c) \/ IsEnd(r[j], c)) => j <= i
    BY TailOrdered DEF r
  <1>6. Ordered(r, c, lo, hi)
    BY <1>2, <1>3, <1>4, <1>5 DEF Ordered
  <1> QED
    BY <1>6 DEF r

LEMMA OrderedTailData ==
    ASSUME NEW q \in Seq(MessageType), q # <<>>, NEW c \in Conn, NEW lo \in Nat, NEW hi \in Nat,
           Ordered(q, c, lo, hi), IsData(Head(q), c)
    PROVE  Head(q).k = lo + 1 /\ lo + 1 <= hi /\ Ordered(Tail(q), c, lo + 1, hi)
  <1> DEFINE r == Tail(q)
  <1>1. /\ Len(r) = Len(q) - 1 /\ Len(q) \in Nat \ {0} /\ Head(q) = q[1]
        /\ \A i \in 1 .. Len(r) : r[i] = q[i + 1] /\ i + 1 \in 1 .. Len(q)
    BY TailIs
  <1>0. \A i \in 1 .. Len(q) : q[i].k \in Nat
    BY MessageIs
  <1> HIDE DEF r
  <1>2. 1 \in 1 .. Len(q) /\ lo < q[1].k /\ q[1].k <= hi
    BY <1>1 DEF Ordered
  <1>3. lo + 1 <= hi
    BY <1>0, <1>2
  <1>4. PICK f \in 1 .. Len(q) : IsData(q[f], c) /\ q[f].k = lo + 1
    BY <1>3 DEF Ordered
  <1>5. f = 1
    <2>1. f > 1 => q[1].k < q[f].k
      BY <1>1, <1>2, <1>4 DEF Ordered
    <2> QED
      BY <1>0, <1>2, <1>4, <2>1
  <1>6. ASSUME NEW k \in Nat, lo + 1 < k, k <= hi
        PROVE  \E i \in 1 .. Len(r) : IsData(r[i], c) /\ r[i].k = k
    <2>1. PICK i \in 1 .. Len(q) : IsData(q[i], c) /\ q[i].k = k
      BY <1>6 DEF Ordered
    <2>2. i # 1
      BY <1>4, <1>5, <1>6, <2>1
    <2>3. i - 1 \in 1 .. Len(r) /\ r[i - 1] = q[i]
      BY <1>1, <2>1, <2>2
    <2> QED
      BY <2>1, <2>3
  <1>7. ASSUME NEW i \in 1 .. Len(r), IsData(r[i], c) PROVE lo + 1 < r[i].k /\ r[i].k <= hi
    <2>1. q[1].k < q[i + 1].k /\ q[i + 1].k <= hi
      BY <1>1, <1>2, <1>7 DEF Ordered
    <2> QED
      BY <1>1, <1>4, <1>5, <2>1
  <1>8. \A i, j \in 1 .. Len(r) : IsData(r[i], c) /\ IsData(r[j], c) /\ i < j => r[i].k < r[j].k
    BY TailOrdered DEF r
  <1>9. \A i, j \in 1 .. Len(r) : IsEnd(r[i], c) /\ (IsData(r[j], c) \/ IsEnd(r[j], c)) => j <= i
    BY TailOrdered DEF r
  <1>10. Ordered(r, c, lo + 1, hi)
    BY <1>6, <1>7, <1>8, <1>9 DEF Ordered
  <1> QED
    BY <1>1, <1>3, <1>4, <1>5, <1>10 DEF r

LEMMA OrderedTailEnd ==
    ASSUME NEW q \in Seq(MessageType), q # <<>>, NEW c \in Conn, NEW lo \in Nat, NEW hi \in Nat, lo <= hi,
           Ordered(q, c, lo, hi), IsEnd(Head(q), c)
    PROVE  lo = hi /\ NoEnd(Tail(q), c) /\ Ordered(Tail(q), c, lo, hi)
  <1> DEFINE r == Tail(q)
  <1>1. /\ Len(r) = Len(q) - 1 /\ Len(q) \in Nat \ {0} /\ Head(q) = q[1]
        /\ \A i \in 1 .. Len(r) : r[i] = q[i + 1] /\ i + 1 \in 1 .. Len(q)
    BY TailIs
  <1> HIDE DEF r
  <1>2. \A i \in 1 .. Len(q) : IsData(q[i], c) \/ IsEnd(q[i], c) => i <= 1
    BY <1>1 DEF Ordered
  <1>3. ~IsData(q[1], c)
    BY <1>1 DEF IsData, IsEnd
  <1>4. \A i \in 1 .. Len(r) : ~IsData(r[i], c) /\ ~IsEnd(r[i], c)
    BY <1>1, <1>2
  <1>5. lo = hi
    <2>1. SUFFICES ASSUME lo < hi PROVE FALSE
      OBVIOUS
    <2>2. PICK i \in 1 .. Len(q) : IsData(q[i], c) /\ q[i].k = lo + 1
      BY <2>1 DEF Ordered
    <2> QED
      BY <1>2, <1>3, <2>2
  <1>6. Ordered(r, c, lo, hi) /\ NoEnd(r, c)
    BY <1>4, <1>5 DEF Ordered, NoEnd
  <1> QED
    BY <1>5, <1>6 DEF r

\* Nothing of c.
LEMMA OrderedNone ==
    ASSUME NEW q \in Seq(MessageType), NEW c \in Conn, NEW lo \in Nat, \A m \in Range(q) : m.c # c
    PROVE  Ordered(q, c, lo, lo) /\ NoEnd(q, c)
  <1>1. \A i \in 1 .. Len(q) : q[i].c # c
    BY RangeIs
  <1> QED
    BY <1>1 DEF Ordered, NoEnd, IsData, IsEnd

-----------------------------------------------------------------------------
(* The items of one connection on their way. *)

LEMMA EndIs ==
    ASSUME NEW c \in Conn, NEW k \in Nat
    PROVE  EndOf(c) \in Item /\ <<c, k>> \in Item /\ <<c, k + 1>> # EndOf(c)
  BY DEF EndOf, Item

LEMMA CountIs ==
    ASSUME NEW s \in Seq(Item), NEW c \in Conn
    PROVE  Count(s, c) \in Nat /\ Count(<<>>, c) = 0 /\ ~Ends(<<>>, c) /\ Count(s, c) <= Len(s)
  BY DEF Count, Ends

LEMMA TailAppend ==
    ASSUME NEW S, NEW s \in Seq(S), s # <<>>, NEW x \in S
    PROVE  Tail(Append(s, x)) = Append(Tail(s), x) /\ Head(Append(s, x)) = Head(s)
  BY HeadTailAppend

LEMMA ShapeAppend ==
    ASSUME NEW s \in Seq(Item), NEW c \in Conn, NEW from \in Nat, Shape(s, c, from), ~Ends(s, c),
           NEW x \in Item, x = <<c, from + Len(s) + 1>> \/ x = EndOf(c)
    PROVE  /\ Shape(Append(s, x), c, from)
           /\ Ends(Append(s, x), c) <=> x = EndOf(c)
           /\ Count(Append(s, x), c) = IF x = EndOf(c) THEN Len(s) ELSE Len(s) + 1
           /\ Count(s, c) = Len(s)
  <1> DEFINE r == Append(s, x)
  <1>1. Len(r) = Len(s) + 1 /\ r[Len(s) + 1] = x /\ Len(s) \in Nat /\ r # <<>> /\ \A i \in 1 .. Len(s) : r[i] = s[i]
    BY AppendIs
  <1> HIDE DEF r
  <1>2. \A i \in 1 .. Len(s) : s[i] = <<c, from + i>>
    BY DEF Shape, Ends
  <1>3. ASSUME NEW i \in 1 .. Len(r) PROVE r[i] = <<c, from + i>> \/ (i = Len(r) /\ r[i] = EndOf(c))
    <2>1. CASE i \in 1 .. Len(s)
      BY <1>1, <1>2, <2>1
    <2>2. CASE i = Len(s) + 1
      BY <1>1, <2>2
    <2> QED
      BY <1>1, <2>1, <2>2
  <1>4. Shape(r, c, from) /\ (Ends(r, c) <=> x = EndOf(c))
    BY <1>1, <1>3 DEF Shape, Ends
  <1>5. Count(r, c) = (IF x = EndOf(c) THEN Len(s) ELSE Len(s) + 1) /\ Count(s, c) = Len(s)
    BY <1>1, <1>4 DEF Count
  <1> QED
    BY <1>4, <1>5 DEF r

LEMMA ShapeFront ==
    ASSUME NEW s \in Seq(Item), NEW c \in Conn, NEW from \in Nat, NEW x \in Item, Shape(Append(s, x), c, from)
    PROVE  /\ Shape(s, c, from) /\ ~Ends(s, c) /\ Count(s, c) = Len(s)
           /\ x = <<c, from + Len(s) + 1>> \/ x = EndOf(c)
  <1> DEFINE r == Append(s, x)
  <1>1. Len(r) = Len(s) + 1 /\ r[Len(s) + 1] = x /\ Len(s) \in Nat /\ r # <<>> /\ \A i \in 1 .. Len(s) : r[i] = s[i]
    BY AppendIs
  <1>2. Shape(r, c, from)
    OBVIOUS
  <1> HIDE DEF r
  <1>3. \A i \in 1 .. Len(s) : s[i] = <<c, from + i>>
    BY <1>1, <1>2 DEF Shape
  <1>4. ~Ends(s, c)
    BY <1>1, <1>3 DEF Ends, EndOf
  <1>5. x = <<c, from + (Len(s) + 1)>> \/ x = EndOf(c)
    <2>1. Len(s) + 1 \in 1 .. Len(r)
      BY <1>1
    <2>2. r[Len(s) + 1] = <<c, from + (Len(s) + 1)>> \/ r[Len(s) + 1] = EndOf(c)
      BY <1>2, <2>1 DEF Shape
    <2> QED
      BY <1>1, <2>2
  <1>6. from + (Len(s) + 1) = from + Len(s) + 1
    BY <1>1
  <1> QED
    BY <1>3, <1>4, <1>5, <1>6 DEF Shape, Count

LEMMA ShapeTail ==
    ASSUME NEW s \in Seq(Item), NEW c \in Conn, NEW from \in Nat, Shape(s, c, from), s # <<>>, Head(s) # EndOf(c)
    PROVE  /\ Head(s) = <<c, from + 1>> /\ Shape(Tail(s), c, from + 1)
           /\ Ends(Tail(s), c) <=> Ends(s, c)
           /\ Count(s, c) = Count(Tail(s), c) + 1
  <1> DEFINE r == Tail(s)
  <1>1. /\ Len(r) = Len(s) - 1 /\ Len(s) \in Nat \ {0} /\ Head(s) = s[1]
        /\ \A i \in 1 .. Len(r) : r[i] = s[i + 1] /\ i + 1 \in 1 .. Len(s)
        /\ r \in Seq(Item)
    BY TailIs
  <1> HIDE DEF r
  <1>2. Head(s) = <<c, from + 1>>
    BY <1>1 DEF Shape
  <1>3. ASSUME NEW i \in 1 .. Len(r) PROVE r[i] = <<c, from + 1 + i>> \/ (i = Len(r) /\ r[i] = EndOf(c))
    <2>1. from + (i + 1) = from + 1 + i
      OBVIOUS
    <2>2. s[i + 1] = <<c, from + (i + 1)>> \/ (i + 1 = Len(s) /\ s[i + 1] = EndOf(c))
      BY <1>1 DEF Shape
    <2> QED
      BY <1>1, <2>1, <2>2
  <1>4. Ends(r, c) <=> Ends(s, c)
    <2>1. CASE Len(s) = 1
      BY <1>1, <2>1 DEF Ends
    <2>2. CASE Len(s) # 1
      BY <1>1, <2>2 DEF Ends
    <2> QED
      BY <2>1, <2>2
  <1>5. Count(s, c) = Count(r, c) + 1
    BY <1>1, <1>4 DEF Count
  <1> QED
    BY <1>2, <1>3, <1>4, <1>5 DEF r, Shape

LEMMA ShapeEnd ==
    ASSUME NEW s \in Seq(Item), NEW c \in Conn, NEW from \in Nat, Shape(s, c, from), s # <<>>, Head(s) = EndOf(c)
    PROVE  Len(s) = 1 /\ Ends(s, c) /\ Count(s, c) = 0 /\ Tail(s) = <<>>
  <1>1. Len(s) \in Nat \ {0} /\ Head(s) = s[1] /\ Len(Tail(s)) = Len(s) - 1
    BY TailIs
  <1>2. s[1] # <<c, from + 1>>
    BY <1>1 DEF EndOf
  <1>3. Len(s) = 1
    <2>1. 1 \in 1 .. Len(s)
      BY <1>1
    <2> QED
      BY <1>2, <2>1 DEF Shape
  <1>4. Ends(s, c)
    BY <1>1, <1>3 DEF Ends
  <1>5. Count(s, c) = 0
    BY <1>3, <1>4 DEF Count
  <1>6. Tail(s) = <<>>
    <2>1. Tail(s) \in Seq(Item) /\ Len(Tail(s)) = 0
      BY <1>1, <1>3, TailIs
    <2> QED
      BY <2>1, EmptySeq
  <1> QED
    BY <1>3, <1>4, <1>5, <1>6

-----------------------------------------------------------------------------
(* Types. *)

LEMMA ConstantsAre ==
    /\ None \notin Conn /\ None \notin Conn \X Item /\ IsFiniteSet(Conn) /\ Numbers \in Nat \ {0, 1}
    /\ CHANNEL_BUDGET \in Nat \ {0} /\ BRIDGE_BUDGET \in Nat \ {0} /\ OUTBOUND_BUDGET \in Nat \ {0}
  BY ChannelAssumption DEF Item

LEMMA SignalIs ==
    ASSUME NEW t \in {"none", "ping", "pong", "drain"}
    PROVE  Signal(t) \in MessageType
  BY DEF Signal, MessageType

LEMMA MessageHas ==
    ASSUME num \in [Conn -> Nat], NEW t \in {"open", "data", "end", "reset"}, NEW c \in Conn, NEW k \in Nat
    PROVE  /\ Message(t, c, k) \in MessageType
           /\ Message(t, c, k).t = t /\ Message(t, c, k).c = c /\ Message(t, c, k).k = k /\ Message(t, c, k).n = num[c]
  BY DEF Message, MessageType

-----------------------------------------------------------------------------
(* The steps, by what they leave alone. *)

VisitorStep(c) ==
    \/ Route(c) \/ Carry(c) \/ Refuse(c) \/ Upload(c) \/ UploadEnd(c) \/ UploadError(c) \/ UploadAborted(c)
    \/ Written(c) \/ Progress(c) \/ WriteError(c) \/ DownloadEnd(c) \/ DownloadAborted(c) \/ Ended(c) \/ Idle(c)
ReadStep == Ignore \/ ReadPing \/ ReadData \/ ReadEnd \/ ReadReset
ReaderStep == WaitEnds \/ Stall \/ ResetStalled \/ LastTry \/ Tell
BridgeStep == KeepAlive \/ Lose \/ Drain \/ CloseBridge
HearStep == RefuseOpen \/ AcceptOpen \/ Deliver \/ HearReset \/ HearPing \/ HearPong
TargetStep(c) ==
    Take(c) \/ TakeEnd(c) \/ Answer(c) \/ AnswerEnds(c) \/ ChannelDone(c) \/ ChannelFails(c) \/ TellFailed(c)
ClientStep == Delivered \/ Stalled \/ Heartbeat \/ \E c \in Conn : TargetStep(c)

LEMMA Steps ==
    ASSUME ChannelsNext
    PROVE  \/ \E c \in Conn : VisitorStep(c)
           \/ ReadStep \/ ReaderStep \/ BridgeStep \/ HearStep \/ ClientStep \/ SessionEnds
  BY DEF ChannelsNext, VisitorStep, ReadStep, ReaderStep, BridgeStep, HearStep, TargetStep, ClientStep, Reader, ClientReader

LEMMA VisitorFrame ==
    ASSUME NEW c \in Conn, VisitorStep(c)
    PROVE  UNCHANGED <<clientVars, bridge, reader>>
  <1>1. CASE Route(c) \/ Carry(c) \/ Refuse(c)
    BY <1>1 DEF Route, Carry, Refuse
  <1>2. CASE Upload(c) \/ UploadEnd(c) \/ UploadError(c) \/ UploadAborted(c)
    BY <1>2 DEF Upload, UploadEnd, UploadError, UploadAborted, Uploading
  <1>3. CASE Written(c) \/ Progress(c) \/ WriteError(c) \/ DownloadEnd(c) \/ DownloadAborted(c)
    BY <1>3 DEF Written, Progress, WriteError, DownloadEnd, DownloadAborted, Downloading
  <1>4. CASE Ended(c) \/ Idle(c)
    BY <1>4 DEF Ended, Idle, Over
  <1> QED
    BY <1>1, <1>2, <1>3, <1>4 DEF VisitorStep

LEMMA ReadFrame ==
    ASSUME ReadStep
    PROVE  /\ UNCHANGED <<visitorVars, served, task, local, tgot, tsent, tfin, tcut, tend, creader, outVars, bridge, sequence, visitors>>
           /\ reader.at = "read" /\ Open
           /\ \/ controls # <<>> /\ controls' = Tail(controls) /\ datas' = datas /\ Arrived = Head(controls)
              \/ datas # <<>> /\ datas' = Tail(datas) /\ controls' = controls /\ Arrived = Head(datas)
  BY DEF ReadStep, Ignore, ReadPing, ReadData, ReadEnd, ReadReset, Arrive, Arrived

LEMMA ReaderFrame ==
    ASSUME ReaderStep
    PROVE  UNCHANGED <<visitorVars, clientVars, bridge, sequence, visitors>>
  BY DEF ReaderStep, WaitEnds, Stall, ResetStalled, LastTry, Tell, ReaderOnly

LEMMA HearFrame ==
    ASSUME HearStep
    PROVE  /\ UNCHANGED <<visitorVars, finishVars, heldVars, sequence, channels, visitors, reader, bridge, datas, pings, lostResets>>
           /\ Open /\ creader = None /\ outbound # <<>> /\ outbound' = Tail(outbound)
           /\ credit' = IF Head(outbound).t = "data" /\ Head(outbound).k > 1 THEN credit + 1 ELSE credit
  <1>1. \E t \in {"open", "data", "end", "reset", "ping", "pong"} : Receive(t)
    BY DEF HearStep, RefuseOpen, AcceptOpen, Deliver, HearReset, HearPing, HearPong
  <1>2. datas' = datas /\ bridge' = bridge
    BY DEF HearStep, RefuseOpen, AcceptOpen, Deliver, HearReset, HearPing, HearPong, Control
  <1> QED
    BY <1>1, <1>2 DEF Receive, ServerSide

LEMMA ClientFrame ==
    ASSUME ClientStep
    PROVE  UNCHANGED <<visitorVars, finishVars, heldVars, sequence, channels, visitors, reader, outbound, credit, lostResets, bridge>>
  <1>1. CASE Delivered \/ Stalled \/ Heartbeat
    BY <1>1 DEF Delivered, Stalled, Heartbeat, ClientOnly, ServerSide
  <1>2. ASSUME NEW c \in Conn, TargetStep(c) PROVE ClientOnly
    BY <1>2 DEF TargetStep, Take, TakeEnd, Answer, AnswerEnds, ChannelDone, ChannelFails, TellFailed, Serving
  <1> QED
    BY <1>1, <1>2 DEF ClientStep, ClientOnly, ServerSide

LEMMA BridgeFrame ==
    ASSUME BridgeStep
    PROVE  UNCHANGED <<visitorVars, inbound, budget, shared, served, task, local, tgot, tsent, tfin, tcut, tend, controls, datas, creader,
                       sequence, visitors, lostResets>>
  BY DEF BridgeStep, KeepAlive, Lose, Drain, CloseBridge, heldVars, clientVars, outVars, DropOutbound

LEMMA SessionFrame ==
    ASSUME SessionEnds
    PROVE  UNCHANGED <<visitorVars, finishVars, heldVars, sequence, channels, visitors, reader, tsent, tend, pings, lostResets>>
  BY DEF SessionEnds, DropOutbound

-----------------------------------------------------------------------------
(* Types. *)

LEMMA VisitorTypesKept ==
    ASSUME ChannelsInv, ChannelsNext, ~clash'
    PROVE  VisitorTypes'
  <1>0. VisitorTypes /\ inbound \in [Conn -> Seq(Item)] /\ sequence \in Nat
    BY DEF ChannelsInv, ChannelsTypeOK, HeldTypes, BridgeTypes
  <1> USE <1>0 DEF VisitorTypes
  <1>1. ASSUME NEW c \in Conn, Route(c) PROVE VisitorTypes'
    <2>1. \A i \in Nat : Candidate(i) \in Nat
      BY ConstantsAre DEF Candidate
    <2>2. num' \in [Conn -> Nat]
      BY <1>1, <2>1 DEF Route
    <2> QED
      BY <1>1, <2>2 DEF Route
  <1>2. ASSUME NEW c \in Conn, Carry(c) PROVE VisitorTypes'
    BY <1>2 DEF Carry
  <1>8. ASSUME NEW c \in Conn, Refuse(c) PROVE VisitorTypes'
    BY <1>8 DEF Refuse
  <1>3. ASSUME NEW c \in Conn, Upload(c) PROVE VisitorTypes'
    BY <1>3 DEF Upload, Uploading
  <1>9. ASSUME NEW c \in Conn, UploadEnd(c) \/ UploadError(c) \/ UploadAborted(c) PROVE VisitorTypes'
    BY <1>9 DEF UploadEnd, UploadError, UploadAborted, Uploading
  <1>4. ASSUME NEW c \in Conn, Written(c) PROVE VisitorTypes'
    <2>1. Head(inbound[c]) \in Item
      BY <1>4, TailIs DEF Written, Waiting
    <2>2. Append(got[c], Head(inbound[c])) \in Seq(Item)
      BY <2>1, AppendIs
    <2> QED
      BY <1>4, <2>2 DEF Written, Downloading
  <1>5. ASSUME NEW c \in Conn, Progress(c) \/ WriteError(c) \/ DownloadEnd(c) \/ DownloadAborted(c) PROVE VisitorTypes'
    BY <1>5 DEF Progress, WriteError, DownloadEnd, DownloadAborted, Downloading
  <1>6. ASSUME NEW c \in Conn, Ended(c) \/ Idle(c) PROVE VisitorTypes'
    <2>1. Over(c, c \in abort) \/ Over(c, TRUE)
      BY <1>6 DEF Ended, Idle
    <2> QED
      BY <2>1 DEF Over
  <1>7. CASE UNCHANGED visitorVars
    BY <1>7 DEF visitorVars
  <1> QED
    <2> USE DEF visitorVars
    <2> QED
    BY <1>1, <1>2, <1>3, <1>4, <1>5, <1>6, <1>7, <1>8, <1>9, Steps, ReadFrame, ReaderFrame, BridgeFrame, HearFrame, ClientFrame, SessionFrame
       DEF VisitorStep

\* What is queued for a visitor, and what goes on when it is dropped.
LEMMA HoldTypes ==
    ASSUME HeldTypes, NEW c \in Conn, NEW x \in Item, Hold(c, x)
    PROVE  inbound' \in [Conn -> Seq(Item)] /\ budget' \in [Conn -> Int] /\ shared' \in Int
  <1>1. Append(inbound[c], x) \in Seq(Item)
    BY AppendIs DEF HeldTypes
  <1>2. CASE UNCHANGED <<inbound, budget, shared>>
    BY <1>2 DEF HeldTypes
  <1>3. CASE /\ inbound' = [inbound EXCEPT ![c] = Append(@, x)]
             /\ budget' = [budget EXCEPT ![c] = @ - 1] /\ shared' = shared - 1
    BY <1>1, <1>3 DEF HeldTypes
  <1> QED
    BY <1>2, <1>3 DEF Hold

LEMMA FramesAre ==
    ASSUME HeldTypes, NEW c \in Conn
    PROVE  Frames(c) \subseteq 1 .. Len(inbound[c]) /\ IsFiniteSet(Frames(c)) /\ Data(c) \in Nat
  <1>1. Len(inbound[c]) \in Nat /\ DOMAIN inbound[c] = 1 .. Len(inbound[c])
    BY LenProperties DEF HeldTypes
  <1>2. Frames(c) \subseteq 1 .. Len(inbound[c])
    BY <1>1 DEF Frames
  <1>3. IsFiniteSet(1 .. Len(inbound[c]))
    BY <1>1, FS_Interval
  <1>4. IsFiniteSet(Frames(c))
    BY <1>2, <1>3, FS_Subset
  <1> QED
    BY <1>2, <1>4, FS_CardinalityType DEF Data

LEMMA GiveBackTypes ==
    ASSUME HeldTypes, NEW c \in Conn, GiveBack(c)
    PROVE  inbound' \in [Conn -> Seq(Item)] /\ budget' \in [Conn -> Int] /\ shared' \in Int
  <1>1. Data(c) \in Nat
    BY FramesAre
  <1> QED
    BY <1>1 DEF GiveBack, HeldTypes

LEMMA FinishTypes ==
    ASSUME HeldTypes, NEW conns, conns \subseteq Conn
    PROVE  Finish(conns, TRUE) \/ Finish(conns, FALSE) => finished' \subseteq Conn /\ abort' \subseteq finished'
  BY DEF Finish, HeldTypes

LEMMA ArrivedIs ==
    ASSUME ChannelsInv, ReadStep
    PROVE  /\ Arrived \in MessageType /\ Arrived \in Underway /\ Sound(Arrived)
           /\ Arrived.t \in {"data", "end", "reset"} =>
                /\ Arrived.c \in Conn /\ Arrived.n \in Number /\ Arrived.n = num[Arrived.c]
                /\ channels[Arrived.n] \in Conn \union {None}
           /\ Arrived.k \in Nat
  <1> USE DEF ChannelsInv, ChannelsTypeOK
  <1>1. Arrived \in MessageType /\ Arrived \in Underway
    BY ReadFrame, RangeIs, TailIs DEF QueueTypes, Underway
  <1>2. Sound(Arrived)
    BY <1>1 DEF Tables
  <1>3. Arrived.c \in Conn \union {None} /\ Arrived.k \in Nat
    BY <1>1 DEF MessageType
  <1>4. ASSUME Arrived.t \in {"data", "end", "reset"}
        PROVE  /\ Arrived.c \in Conn /\ Arrived.n \in Number /\ Arrived.n = num[Arrived.c]
               /\ channels[Arrived.n] \in Conn \union {None}
    <2>1. Arrived.c # None /\ Arrived.c \in Conn /\ Arrived.n = num[Arrived.c] /\ Told(Arrived.c)
      BY <1>2, <1>3, <1>4 DEF Sound
    <2>2. num[Arrived.c] \in Number
      BY <2>1 DEF Tables, Told
    <2> QED
      BY <2>1, <2>2 DEF BridgeTypes
  <1> QED
    BY <1>1, <1>2, <1>3, <1>4

LEMMA HeldTypesKept ==
    ASSUME ChannelsInv, ChannelsNext, ~clash'
    PROVE  HeldTypes'
  <1> USE DEF ChannelsInv, ChannelsTypeOK
  <1>1. ASSUME NEW c \in Conn, Upload(c) \/ UploadError(c) PROVE HeldTypes'
    <2>1. UNCHANGED <<inbound, budget, shared>>
      BY <1>1 DEF Upload, UploadError, Uploading, heldVars
    <2>2. UNCHANGED finishVars \/ Finish({c}, TRUE)
      BY <1>1 DEF Upload, UploadError
    <2>3. finished' \subseteq Conn /\ abort' \subseteq finished'
      <3>1. {c} \subseteq Conn
        OBVIOUS
      <3> QED
        BY <2>1, <2>2, <3>1, FinishTypes DEF HeldTypes, finishVars
    <2> QED
      BY <2>1, <2>2, <2>3 DEF HeldTypes, finishVars
  <1>2. ASSUME NEW c \in Conn, Written(c) PROVE HeldTypes'
    <2>1. Tail(inbound[c]) \in Seq(Item)
      BY <1>2, TailIs DEF Written, Waiting, HeldTypes
    <2> QED
      BY <1>2, <2>1 DEF Written, HeldTypes, finishVars
  <1>3. ASSUME NEW c \in Conn, WriteError(c) \/ DownloadEnd(c) \/ DownloadAborted(c) PROVE HeldTypes'
    <2>1. UNCHANGED finishVars \/ Finish({c}, TRUE)
      BY <1>3 DEF WriteError, DownloadEnd, DownloadAborted
    <2>2. GiveBack(c)
      BY <1>3 DEF WriteError, DownloadEnd, DownloadAborted
    <2>3. finished' \subseteq Conn /\ abort' \subseteq finished'
      <3>1. {c} \subseteq Conn
        OBVIOUS
      <3> QED
        BY <2>1, <2>2, <3>1, FinishTypes DEF HeldTypes, finishVars
    <2> QED
      BY <2>1, <2>2, <2>3, GiveBackTypes DEF HeldTypes, finishVars
  <1>4. ASSUME NEW c \in Conn, Ended(c) \/ Idle(c) PROVE HeldTypes'
    <2>1. finished' = finished \ {c} /\ abort' = abort \ {c}
      BY <1>4 DEF Ended, Idle, Over
    <2>2. UNCHANGED heldVars \/ GiveBack(c)
      BY <1>4 DEF Ended, Idle
    <2> QED
      BY <2>1, <2>2, GiveBackTypes DEF HeldTypes, heldVars
  <1>5. CASE ReadData
    <2>1. ReadStep /\ Arrived.t = "data" /\ UNCHANGED finishVars
      BY <1>5 DEF ReadData, ReadStep
    <2>2. <<Arrived.c, Arrived.k>> \in Item
      BY <2>1, ArrivedIs DEF Item
    <2>3. channels[Arrived.n] \in Conn
      BY <1>5, <2>1, ArrivedIs DEF ReadData
    <2>4. UNCHANGED <<inbound, budget, shared>> \/ Hold(channels[Arrived.n], <<Arrived.c, Arrived.k>>)
      BY <1>5 DEF ReadData
    <2> QED
      BY <2>1, <2>2, <2>3, <2>4, HoldTypes DEF HeldTypes, finishVars
  <1>6. CASE ReadEnd
    <2>1. ReadStep /\ Arrived.t = "end"
      BY <1>6 DEF ReadEnd, ReadStep
    <2>2. channels[Arrived.n] \in Conn
      BY <1>6, <2>1, ArrivedIs DEF ReadEnd
    <2>3. Append(inbound[channels[Arrived.n]], EndOf(channels[Arrived.n])) \in Seq(Item)
      BY <2>2, EndIs, AppendIs DEF HeldTypes
    <2>4. inbound' \in [Conn -> Seq(Item)]
      BY <1>6, <2>2, <2>3 DEF ReadEnd, HeldTypes
    <2>5. Finish({channels[Arrived.n]}, FALSE) /\ UNCHANGED <<budget, shared>>
      BY <1>6 DEF ReadEnd
    <2>7. finished' \subseteq Conn /\ abort' \subseteq finished'
      BY <2>2, <2>5 DEF Finish, HeldTypes
    <2> QED
      BY <2>2, <2>4, <2>5, <2>7 DEF HeldTypes
  <1>7. CASE ReadReset
    <2>1. ReadStep /\ Arrived.t = "reset"
      BY <1>7 DEF ReadReset, ReadStep
    <2>2. channels[Arrived.n] \in Conn
      BY <1>7, <2>1, ArrivedIs DEF ReadReset
    <2>3. Finish({channels[Arrived.n]}, TRUE) /\ UNCHANGED <<inbound, budget, shared>>
      BY <1>7 DEF ReadReset, heldVars
    <2>7. finished' \subseteq Conn /\ abort' \subseteq finished'
      BY <2>2, <2>3 DEF Finish, HeldTypes
    <2> QED
      BY <2>2, <2>3, <2>7 DEF HeldTypes
  <1>8. CASE WaitEnds
    <2>1. reader.c \in Conn /\ reader.x \in Item
      BY <1>8 DEF WaitEnds, Phases, ReaderTypes
    <2> QED
      BY <1>8, <2>1, HoldTypes DEF WaitEnds, HeldTypes, finishVars
  <1>9. CASE ResetStalled
    <2>1. PICK c \in reader.todo : Finish({c} \ Done, TRUE) /\ UNCHANGED heldVars
      BY <1>9 DEF ResetStalled, Reset
    <2>2. {c} \ Done \subseteq Conn
      BY <2>1 DEF ReaderTypes
    <2> QED
      BY <2>1, <2>2, FinishTypes DEF HeldTypes, heldVars
  <1>10. CASE LastTry
    <2>1. reader.c \in Conn /\ reader.x \in Item
      BY <1>10 DEF LastTry, Phases, ReaderTypes
    <2>2. CASE UNCHANGED <<inbound, budget, shared, finishVars>>
      BY <2>2 DEF HeldTypes, finishVars
    <2>3. CASE Hold(reader.c, reader.x) /\ UNCHANGED finishVars
      BY <2>1, <2>3, HoldTypes DEF HeldTypes, finishVars
    <2>4. CASE Finish({reader.c} \ Done, TRUE) /\ UNCHANGED heldVars
      <3>1. {reader.c} \ Done \subseteq Conn
        BY <2>1
      <3> QED
        BY <2>4, <3>1, FinishTypes DEF HeldTypes, heldVars
    <2> QED
      BY <1>10, <2>2, <2>3, <2>4 DEF LastTry, Reset
  <1>11. CASE CloseBridge
    <2>1. Range(channels) \ {None} \subseteq Conn
      BY DEF BridgeTypes, Range
    <2>2. Finish(Range(channels) \ {None}, TRUE)
      BY <1>11 DEF CloseBridge
    <2>3. UNCHANGED <<inbound, budget, shared>>
      BY <1>11 DEF CloseBridge
    <2> QED
      BY <2>1, <2>2, <2>3, FinishTypes DEF HeldTypes
  <1>12. CASE UNCHANGED <<finishVars, inbound, budget, shared>>
    BY <1>12 DEF HeldTypes, finishVars
  <1>13. ASSUME NEW c \in Conn, VisitorStep(c) PROVE HeldTypes'
    <2>1. CASE Route(c) \/ Carry(c) \/ Refuse(c) \/ UploadEnd(c) \/ UploadAborted(c) \/ Progress(c)
      BY <1>12, <2>1 DEF Route, Carry, Refuse, UploadEnd, UploadAborted, Uploading, Progress, heldVars
    <2> QED
      BY <1>1, <1>2, <1>3, <1>4, <1>13, <2>1 DEF VisitorStep
  <1>14. CASE ReadStep \/ ReaderStep \/ BridgeStep
    <2>1. CASE Ignore \/ ReadPing \/ Stall \/ Tell \/ KeepAlive \/ Lose \/ Drain
      BY <1>12, <2>1 DEF Ignore, ReadPing, Stall, Tell, KeepAlive, Lose, Drain, heldVars
    <2> QED
      BY <1>5, <1>6, <1>7, <1>8, <1>9, <1>10, <1>11, <1>14, <2>1 DEF ReadStep, ReaderStep, BridgeStep
  <1> QED
    BY <1>12, <1>13, <1>14, Steps, HearFrame, ClientFrame, SessionFrame DEF heldVars

LEMMA BridgeTypesKept ==
    ASSUME ChannelsInv, ChannelsNext, ~clash'
    PROVE  BridgeTypes'
  <1>0. BridgeTypes
    BY DEF ChannelsInv, ChannelsTypeOK
  <1>1. ASSUME NEW n, Unlist(n) PROVE channels' \in [Number -> Conn \union {None}]
    BY <1>0, <1>1 DEF Unlist, BridgeTypes
  <1>2. ASSUME NEW c \in Conn, Route(c) PROVE BridgeTypes'
    <2>1. PICK i \in 0 .. Numbers - 1 : sequence' = Candidate(i + 1) /\ channels' = [channels EXCEPT ![Candidate(i)] = c]
      BY <1>2, Zenon DEF Route
    <2>2. Candidate(i + 1) \in Nat
      BY <1>0, ConstantsAre DEF Candidate, BridgeTypes
    <2>3. channels' \in [Number -> Conn \union {None}]
      BY <1>0, <2>1 DEF BridgeTypes
    <2> QED
      BY <1>0, <1>2, <2>1, <2>2, <2>3 DEF Route, BridgeTypes
  <1>3. ASSUME NEW c \in Conn, VisitorStep(c), ~Route(c) PROVE BridgeTypes'
    <2>1. sequence' = sequence /\ bridge' = bridge
      <3>1. CASE Carry(c) \/ Refuse(c)
        BY <3>1 DEF Carry, Refuse
      <3>2. CASE Upload(c) \/ UploadEnd(c) \/ UploadError(c) \/ UploadAborted(c)
        BY <3>2 DEF Upload, UploadEnd, UploadError, UploadAborted, Uploading
      <3>3. CASE Written(c) \/ Progress(c) \/ WriteError(c) \/ DownloadEnd(c) \/ DownloadAborted(c)
        BY <3>3 DEF Written, Progress, WriteError, DownloadEnd, DownloadAborted, Downloading
      <3>4. CASE Ended(c) \/ Idle(c)
        BY <3>4 DEF Ended, Idle, Over
      <3> QED
        BY <1>3, <3>1, <3>2, <3>3, <3>4 DEF VisitorStep
    <2>2. channels' = channels \/ Unlist(num[c])
      <3>1. CASE Carry(c) \/ Refuse(c)
        BY <3>1 DEF Carry, Refuse
      <3>2. CASE Upload(c) \/ UploadEnd(c) \/ UploadError(c) \/ UploadAborted(c)
        BY <3>2 DEF Upload, UploadEnd, UploadError, UploadAborted
      <3>3. CASE Written(c) \/ Progress(c) \/ WriteError(c) \/ DownloadEnd(c) \/ DownloadAborted(c)
        BY <3>3 DEF Written, Progress, WriteError, DownloadEnd, DownloadAborted
      <3>4. CASE Ended(c) \/ Idle(c)
        BY <3>4 DEF Ended, Idle, Over
      <3> QED
        BY <1>3, <3>1, <3>2, <3>3, <3>4 DEF VisitorStep
    <2>3. visitors' = visitors \/ visitors' = visitors - 1
      <3>1. CASE Carry(c) \/ Refuse(c)
        BY <3>1 DEF Carry, Refuse
      <3>2. CASE Upload(c) \/ UploadEnd(c) \/ UploadError(c) \/ UploadAborted(c)
        BY <3>2 DEF Upload, UploadEnd, UploadError, UploadAborted, Uploading
      <3>3. CASE Written(c) \/ Progress(c) \/ WriteError(c) \/ DownloadEnd(c) \/ DownloadAborted(c)
        BY <3>3 DEF Written, Progress, WriteError, DownloadEnd, DownloadAborted, Downloading
      <3>4. CASE Ended(c) \/ Idle(c)
        BY <3>4 DEF Ended, Idle, Over
      <3> QED
        BY <1>3, <3>1, <3>2, <3>3, <3>4 DEF VisitorStep
    <2>4. channels' \in [Number -> Conn \union {None}]
      BY <1>0, <1>1, <2>2 DEF BridgeTypes
    <2> QED
      BY <1>0, <2>1, <2>3, <2>4 DEF BridgeTypes
  <1>4. CASE ReadStep
    <2>1. channels' = channels \/ Unlist(Arrived.n)
      BY <1>4 DEF ReadStep, Ignore, ReadPing, ReadData, ReadEnd, ReadReset
    <2>2. channels' \in [Number -> Conn \union {None}]
      BY <1>0, <1>1, <2>1 DEF BridgeTypes
    <2> QED
      BY <1>0, <1>4, <2>2, ReadFrame DEF BridgeTypes
  <1>5. CASE ReaderStep
    <2>1. channels' = channels \/ \E c : Unlist(num[c])
      BY <1>5 DEF ReaderStep, WaitEnds, Stall, ResetStalled, LastTry, Tell, Reset
    <2>2. channels' \in [Number -> Conn \union {None}]
      BY <1>0, <1>1, <2>1 DEF BridgeTypes
    <2> QED
      BY <1>0, <1>5, <2>2, ReaderFrame DEF BridgeTypes
  <1>6. CASE BridgeStep
    <2>1. channels' \in [Number -> Conn \union {None}] /\ bridge' \in {"up", "closing", "lost", "gone"}
      BY <1>0, <1>6 DEF BridgeStep, KeepAlive, Lose, Drain, CloseBridge, BridgeTypes
    <2> QED
      BY <1>0, <1>6, <2>1, BridgeFrame DEF BridgeTypes
  <1>7. CASE HearStep \/ ClientStep
    BY <1>0, <1>7, HearFrame, ClientFrame DEF BridgeTypes
  <1>8. CASE SessionEnds
    <2>1. bridge' \in {"lost", "gone"}
      BY <1>8 DEF SessionEnds
    <2> QED
      BY <1>0, <1>8, <2>1, SessionFrame DEF BridgeTypes
  <1> QED
    BY <1>2, <1>3, <1>4, <1>5, <1>6, <1>7, <1>8, Steps

LEMMA ReadingIs ==
    /\ Reading.at = "read" /\ Reading.c = None /\ Reading.todo = {} /\ Reading.x = <<>> /\ Reading.tell = Signal("none")
    /\ DOMAIN Reading = {"at", "c", "x", "todo", "tell"}
  BY DEF Reading

LEMMA ReaderTypesKept ==
    ASSUME ChannelsInv, ChannelsNext, ~clash'
    PROVE  ReaderTypes'
  <1>0. ReaderTypes /\ num \in [Conn -> Nat] /\ channels \in [Number -> Conn \union {None}]
    BY DEF ChannelsInv, ChannelsTypeOK, VisitorTypes, BridgeTypes
  <1>1. CASE reader' = reader
    BY <1>0, <1>1 DEF ReaderTypes
  <1>2. CASE reader' = Reading
    <2>1. Signal("none") \in MessageType
      BY SignalIs
    <2> QED
      BY <1>2, <2>1, ReadingIs DEF ReaderTypes
  <1>3. ASSUME NEW c \in Conn, NEW todo, todo \subseteq Conn, NEW stays \in Conn \union {None}, Reset(c, todo, stays) PROVE ReaderTypes'
    <2>1. Message("reset", c, 0) \in MessageType
      BY <1>0, MessageHas
    <2> QED
      BY <1>0, <1>3, <2>1 DEF Reset, ReaderTypes
  <1>4. CASE ReadPing
    <2>1. Signal("pong") \in MessageType
      BY SignalIs
    <2> QED
      BY <1>4, <2>1, ReadingIs DEF ReadPing, ReaderTypes, Reading
  <1>5. CASE ReadData
    <2>1. ReadStep /\ Arrived.t = "data"
      BY <1>5 DEF ReadData, ReadStep
    <2>2. <<Arrived.c, Arrived.k>> \in Item /\ channels[Arrived.n] \in Conn \union {None} /\ Signal("none") \in MessageType
      BY <2>1, ArrivedIs, SignalIs DEF Item
    <2>3. reader' = reader \/ reader' = [Reading EXCEPT !.at = "wait", !.c = channels[Arrived.n], !.x = <<Arrived.c, Arrived.k>>]
      BY <1>5 DEF ReadData
    <2> QED
      BY <1>1, <2>2, <2>3 DEF ReaderTypes, Reading
  <1>6. CASE Stall
    <2>1. {d \in Range(channels) \ {None} : budget[d] < CHANNEL_BUDGET /\ d \notin moved} \subseteq Conn
      BY <1>0 DEF Range
    <2> QED
      BY <1>0, <1>6, <2>1 DEF Stall, ReaderTypes
  <1>7. CASE ResetStalled
    <2>1. PICK c \in reader.todo : Reset(c, reader.todo \ {c}, reader.c)
      BY <1>7 DEF ResetStalled
    <2>2. c \in Conn /\ reader.todo \ {c} \subseteq Conn /\ reader.c \in Conn \union {None}
      BY <1>0 DEF ReaderTypes
    <2> QED
      BY <1>3, <2>1, <2>2
  <1>8. CASE LastTry
    <2>1. reader.c \in Conn
      BY <1>0, <1>8 DEF LastTry, ChannelsInv, Phases, ReaderTypes
    <2>2. reader' = Reading \/ Reset(reader.c, {}, None)
      BY <1>8 DEF LastTry
    <2> QED
      BY <1>2, <1>3, <2>1, <2>2
  <1>9. CASE Tell
    <2>1. Signal("none") \in MessageType
      BY SignalIs
    <2>2. reader' = Reading \/ reader' = [reader EXCEPT !.at = "stall", !.tell = Signal("none")]
      BY <1>9 DEF Tell
    <2> QED
      BY <1>0, <1>2, <2>1, <2>2 DEF ReaderTypes
  <1>10. CASE ReadStep \/ ReaderStep \/ BridgeStep
    <2>1. CASE Ignore \/ ReadEnd \/ ReadReset \/ KeepAlive \/ Lose \/ Drain
      BY <1>1, <2>1 DEF Ignore, ReadEnd, ReadReset, KeepAlive, Lose, Drain
    <2>2. CASE WaitEnds \/ CloseBridge
      BY <1>2, <2>2 DEF WaitEnds, CloseBridge
    <2> QED
      BY <1>4, <1>5, <1>6, <1>7, <1>8, <1>9, <1>10, <2>1, <2>2 DEF ReadStep, ReaderStep, BridgeStep
  <1> QED
    BY <1>1, <1>10, Steps, VisitorFrame, HearFrame, ClientFrame, SessionFrame

\* A connection spoken of has a number, and is what the tables hold under it.
LEMMA SpokenIs ==
    ASSUME ChannelsInv, NEW c \in Spoken
    PROVE  /\ c \in Conn /\ visit[c] # "new" /\ num[c] \in Number
           /\ channels[num[c]] \in {c, None} /\ served[num[c]] \in {c, None}
  <1> USE DEF ChannelsInv, ChannelsTypeOK
  <1>1. ASSUME NEW m \in Underway PROVE m \in MessageType
    BY <1>1, RangeIs DEF Underway, QueueTypes
  <1>2. ASSUME NEW m \in Underway, m.c # None PROVE m.c \in Conn /\ Told(m.c)
    BY <1>1, <1>2 DEF MessageType, Tables, Sound
  <1>3. WithReader \subseteq Conn
    BY DEF WithReader, ReaderTypes, MessageType
  <1>4. ASSUME NEW n \in Number, served[n] # None PROVE served[n] \in Conn /\ served[n] \in Range(served) /\ Told(served[n])
    BY <1>4 DEF ClientTypes, Range, Tables
  <1>5. \A d \in Range(served) \ {None} : d \in Conn /\ Told(d)
    BY <1>4 DEF ClientTypes, Range
  <1>6. c \in Conn /\ (Active(c) \/ Told(c))
    BY <1>2, <1>3, <1>5 DEF Spoken, Tables
  <1>7. visit[c] # "new" /\ num[c] \in Number
    BY <1>6 DEF Active, Told, Tables
  <1>8. channels[num[c]] \in {c, None}
    <2>1. SUFFICES ASSUME channels[num[c]] # None PROVE channels[num[c]] = c
      OBVIOUS
    <2>2. channels[num[c]] \in Conn /\ Active(channels[num[c]]) /\ num[channels[num[c]]] = num[c]
      BY <1>7, <2>1 DEF Tables, BridgeTypes
    <2>3. channels[num[c]] \in Spoken
      BY <2>2 DEF Spoken
    <2> QED
      BY <2>2, <2>3 DEF Tables
  <1>9. served[num[c]] \in {c, None}
    <2>1. SUFFICES ASSUME served[num[c]] # None PROVE served[num[c]] = c
      OBVIOUS
    <2>2. served[num[c]] \in Conn /\ num[served[num[c]]] = num[c] /\ served[num[c]] \in Spoken
      BY <1>4, <1>7, <2>1 DEF Tables, Spoken
    <2> QED
      BY <2>2 DEF Tables
  <1> QED
    BY <1>6, <1>7, <1>8, <1>9

\* A message under way names its connection, and finds it in the tables or nothing.
LEMMA MeansIs ==
    ASSUME ChannelsInv, NEW m \in Underway
    PROVE  /\ m \in MessageType /\ Sound(m) /\ m.k \in Nat /\ m.c \in Conn \union {None}
           /\ m.c = None => m.n = 0 /\ m.t \notin {"open", "data", "end", "reset"}
           /\ m.t \in {"open", "data", "end", "reset"} => m.c # None
           /\ m.c # None => /\ m.c \in Conn /\ Told(m.c) /\ m.c \in Spoken /\ m.n = num[m.c] /\ m.n \in Number
                            /\ channels[m.n] \in {m.c, None} /\ served[m.n] \in {m.c, None}
  <1>1. m \in MessageType /\ Sound(m)
    BY RangeIs DEF Underway, QueueTypes, ChannelsInv, ChannelsTypeOK, Tables
  <1>2. m.k \in Nat /\ m.c \in Conn \union {None}
    BY <1>1 DEF MessageType
  <1>3. m.c # None => m.c \in Conn /\ Told(m.c) /\ m.c \in Spoken /\ m.n = num[m.c]
    BY <1>1, <1>2 DEF Sound, Spoken
  <1> QED
    BY <1>1, <1>2, <1>3, SpokenIs DEF Sound

LEMMA HeadIs ==
    ASSUME ChannelsInv
    PROVE  /\ outbound # <<>> => Head(outbound) \in Underway
           /\ controls # <<>> => Head(controls) \in Underway
           /\ datas # <<>> => Head(datas) \in Underway
  BY RangeIs DEF Underway, QueueTypes, ChannelsInv, ChannelsTypeOK

\* A connection with a task is in the client's table, under its number only.
LEMMA ServedIs ==
    ASSUME ChannelsInv, NEW c \in Conn
    PROVE  /\ c \in Range(served) <=> task[c] \in {"run", "ended", "failed"}
           /\ c \in Range(served) => num[c] \in Number /\ served[num[c]] = c /\ c \in Spoken
           /\ \A n \in Number : served[n] = c => n = num[c]
  <1> USE DEF ChannelsInv, ChannelsTypeOK
  <1>0. c # None
    BY ConstantsAre
  <1>1. \A n \in Number : served[n] = c => n = num[c] /\ task[c] \in {"run", "ended", "failed"}
    BY <1>0 DEF Tables
  <1>2. c \in Range(served) => \E n \in Number : served[n] = c
    BY DEF Range, ClientTypes
  <1>3. ASSUME task[c] \in {"run", "ended", "failed"} PROVE num[c] \in Number /\ served[num[c]] = c
    BY <1>3 DEF Tables, Told
  <1>4. num[c] \in Number /\ served[num[c]] = c => c \in Range(served)
    BY DEF Range, ClientTypes
  <1>5. c \in Range(served) => c \in Spoken
    BY <1>0 DEF Spoken
  <1> QED
    BY <1>1, <1>2, <1>3, <1>4, <1>5

LEMMA LeaveTypes ==
    ASSUME ClientTypes, NEW c \in Conn, Leave(c, "done")
    PROVE  ClientTypes'
  <1>1. <<>> \in Seq(Item)
    OBVIOUS
  <1> QED
    BY <1>1 DEF Leave, ClientTypes

LEMMA ClientTypesKept ==
    ASSUME ChannelsInv, ChannelsNext, ~clash'
    PROVE  ClientTypes'
  <1>0. ClientTypes /\ creader \in (Conn \X Item) \union {None} /\ outbound \in Seq(MessageType)
    BY DEF ChannelsInv, ChannelsTypeOK, QueueTypes
  <1>h. ASSUME outbound # <<>>, Arriving.t \in {"open", "data", "end", "reset"}
        PROVE  Arriving.c \in Conn /\ Arriving.n \in Number /\ Arriving.k \in Nat /\ served[Arriving.n] \in Conn \union {None}
    BY <1>h, HeadIs, MeansIs DEF Arriving
  <1>1. CASE UNCHANGED <<served, task, local, tgot, tsent, tfin, tcut, tend>>
    BY <1>0, <1>1 DEF ClientTypes
  <1>2. CASE AcceptOpen
    <2>1. Arriving.c \in Conn /\ Arriving.n \in Number
      BY <1>2, <1>h DEF AcceptOpen, Receive, Arriving
    <2>2. /\ served' = [served EXCEPT ![Arriving.n] = Arriving.c]
          /\ task' = [task EXCEPT ![Arriving.c] = "run"] /\ UNCHANGED <<local, tgot, tsent, tfin, tcut, tend>>
      BY <1>2 DEF AcceptOpen
    <2> QED
      BY <1>0, <2>1, <2>2 DEF ClientTypes
  <1>3. CASE Deliver
    <2>1. Arriving.c \in Conn /\ Arriving.n \in Number /\ Arriving.k \in Nat /\ served[Arriving.n] \in Conn \union {None}
      BY <1>3, <1>h DEF Deliver, Receive, Arriving
    <2>2. <<Arriving.c, Arriving.k>> \in Item
      BY <2>1 DEF Item
    <2>3. DOMAIN served = Number
      BY <1>0 DEF ClientTypes
    <2>4. \/ UNCHANGED local
          \/ served[Arriving.n] # None /\ local' = [local EXCEPT ![served[Arriving.n]] = Append(@, <<Arriving.c, Arriving.k>>)]
      BY <1>3, <2>1, <2>3 DEF Deliver
    <2>5. local' \in [Conn -> Seq(Item)]
      <3>1. CASE UNCHANGED local
        BY <1>0, <3>1 DEF ClientTypes
      <3>2. CASE served[Arriving.n] # None /\ local' = [local EXCEPT ![served[Arriving.n]] = Append(@, <<Arriving.c, Arriving.k>>)]
        <4>1. served[Arriving.n] \in Conn
          BY <2>1, <3>2
        <4>2. Append(local[served[Arriving.n]], <<Arriving.c, Arriving.k>>) \in Seq(Item)
          BY <1>0, <2>2, <4>1, AppendIs DEF ClientTypes
        <4> QED
          BY <1>0, <3>2, <4>1, <4>2 DEF ClientTypes
      <3> QED
        BY <2>4, <3>1, <3>2
    <2> QED
      BY <1>0, <1>3, <2>5 DEF Deliver, ClientTypes
  <1>4. CASE HearReset
    <2>1. served[Arriving.n] \in Conn \union {None}
      BY <1>4, <1>h DEF HearReset, Receive, Arriving
    <2> QED
      BY <1>0, <1>1, <1>4, <2>1, LeaveTypes DEF HearReset
  <1>5. CASE Delivered
    <2>1. creader \in Conn \X Item
      BY <1>0, <1>5 DEF Delivered
    <2>2. creader[1] \in Conn /\ creader[2] \in Item
      BY <2>1
    <2>3. Append(local[creader[1]], creader[2]) \in Seq(Item)
      BY <1>0, <2>2, AppendIs DEF ClientTypes
    <2>4. local' \in [Conn -> Seq(Item)]
      BY <1>0, <1>5, <2>2, <2>3 DEF Delivered, ClientTypes
    <2> QED
      BY <1>0, <1>5, <2>4 DEF Delivered, ClientTypes
  <1>6. CASE Stalled
    <2>1. creader \in Conn \X Item
      BY <1>0, <1>6 DEF Stalled
    <2>2. creader[1] \in Conn
      BY <2>1
    <2> QED
      BY <1>0, <1>6, <2>2, LeaveTypes DEF Stalled
  <1>7. CASE SessionEnds
    <2>1. \A c \in Range(served) : c \in Conn \union {None}
      BY <1>0 DEF ClientTypes, Range
    <2>2. tcut' \subseteq Conn
      BY <1>0, <1>7, <2>1 DEF SessionEnds, ClientTypes
    <2>3. task' \in [Conn -> {"off", "run", "ended", "failed", "done"}]
      BY <1>0, <1>7 DEF SessionEnds, ClientTypes
    <2>4. served' \in [Number -> Conn \union {None}] /\ local' \in [Conn -> Seq(Item)]
      BY <1>0, <1>7 DEF SessionEnds, ClientTypes
    <2> QED
      BY <1>0, <1>7, <2>2, <2>3, <2>4 DEF SessionEnds, ClientTypes
  <1>8. ASSUME NEW c \in Conn, TargetStep(c) PROVE ClientTypes'
    <2>1. CASE Take(c)
      <3>1. Head(local[c]) \in Item /\ Tail(local[c]) \in Seq(Item)
        BY <1>0, <2>1, TailIs DEF Take, ClientTypes
      <3>2. Append(tgot[c], Head(local[c])) \in Seq(Item)
        BY <1>0, <3>1, AppendIs DEF ClientTypes
      <3> QED
        BY <1>0, <2>1, <3>1, <3>2 DEF Take, ClientTypes
    <2>2. CASE TakeEnd(c)
      BY <1>0, <2>2 DEF TakeEnd, ClientTypes
    <2>3. CASE Answer(c)
      BY <1>0, <2>3 DEF Answer, ClientTypes
    <2>4. CASE AnswerEnds(c)
      BY <1>0, <2>4 DEF AnswerEnds, ClientTypes
    <2>5. CASE ChannelDone(c) \/ TellFailed(c)
      BY <1>0, <2>5, LeaveTypes DEF ChannelDone, TellFailed
    <2>6. CASE ChannelFails(c)
      BY <1>0, <2>6 DEF ChannelFails, ClientTypes
    <2> QED
      BY <1>8, <2>1, <2>2, <2>3, <2>4, <2>5, <2>6 DEF TargetStep
  <1>9. CASE HearStep \/ ClientStep
    <2>1. CASE RefuseOpen \/ HearPing \/ HearPong \/ Heartbeat
      BY <1>1, <2>1 DEF RefuseOpen, HearPing, HearPong, Heartbeat
    <2> QED
      BY <1>2, <1>3, <1>4, <1>5, <1>6, <1>8, <1>9, <2>1 DEF HearStep, ClientStep
  <1> QED
    BY <1>1, <1>7, <1>9, Steps, VisitorFrame, ReadFrame, ReaderFrame, BridgeFrame DEF clientVars

\* How the outbound queue may change.
Grows(q, p) == \E m \in MessageType : p = Append(q, m)

LEMMA SendIs ==
    ASSUME outbound \in Seq(MessageType), NEW m \in MessageType, Send(<<m>>)
    PROVE  IF Open THEN outbound' = Append(outbound, m) ELSE outbound' = outbound
  BY ConcatIs DEF Send

LEMMA QueueTypesKept ==
    ASSUME ChannelsInv, ChannelsNext, ~clash'
    PROVE  QueueTypes'
  <1>0. QueueTypes /\ num \in [Conn -> Nat] /\ sent \in [Conn -> Nat] /\ tsent \in [Conn -> Nat] /\ ClientTypes
    BY DEF ChannelsInv, ChannelsTypeOK, VisitorTypes, ClientTypes
  <1>a. ASSUME NEW m \in MessageType
        PROVE  /\ Append(outbound, m) \in Seq(MessageType) /\ Append(controls, m) \in Seq(MessageType)
               /\ Append(datas, m) \in Seq(MessageType)
    BY <1>0, AppendIs DEF QueueTypes
  <1>m. ASSUME NEW c \in Conn, NEW k \in Nat
        PROVE  /\ Message("open", c, k) \in MessageType /\ Message("data", c, k) \in MessageType
               /\ Message("end", c, k) \in MessageType /\ Message("reset", c, k) \in MessageType
    BY <1>0, MessageHas
  <1>s. Signal("ping") \in MessageType /\ Signal("pong") \in MessageType /\ Signal("drain") \in MessageType
    BY SignalIs
  <1>r. ASSUME NEW c \in Conn, TrySendReset(c) PROVE outbound' \in Seq(MessageType) /\ credit' = credit
    BY <1>0, <1>a, <1>m, <1>r DEF TrySendReset, QueueTypes
  <1>e. ASSUME NEW m \in MessageType, Send(<<m>>) PROVE outbound' \in Seq(MessageType)
    BY <1>0, <1>a, <1>e, SendIs DEF QueueTypes
  <1>1. ASSUME NEW c \in Conn, VisitorStep(c) PROVE outbound' \in Seq(MessageType) /\ credit' \in Int
    <2>1. CASE Route(c) \/ Refuse(c) \/ UploadAborted(c) \/ Written(c) \/ Progress(c) \/ DownloadEnd(c) \/ DownloadAborted(c) \/ Ended(c)
      BY <1>0, <2>1 DEF Route, Refuse, UploadAborted, Written, Progress, DownloadEnd, DownloadAborted, Ended, outVars, QueueTypes
    <2>2. CASE Carry(c)
      <3>1. Message("open", c, 0) \in MessageType /\ Message("data", c, 1) \in MessageType
        BY <1>m
      <3>2. outbound' = outbound \/ outbound' = Append(Append(outbound, Message("open", c, 0)), Message("data", c, 1))
        BY <1>0, <2>2, <3>1, ConcatIs DEF Carry, Send, QueueTypes
      <3>3. outbound' \in Seq(MessageType)
        <4>1. Append(outbound, Message("open", c, 0)) \in Seq(MessageType)
          BY <1>a, <3>1
        <4>2. Append(Append(outbound, Message("open", c, 0)), Message("data", c, 1)) \in Seq(MessageType)
          BY <3>1, <4>1, AppendIs
        <4> QED
          BY <1>0, <3>2, <4>2 DEF QueueTypes
      <3> QED
        BY <1>0, <2>2, <3>3 DEF Carry, QueueTypes
    <2>3. CASE Upload(c)
      <3>1. sent'[c] \in Nat
        BY <1>0, <2>3 DEF Upload
      <3>2. Message("data", c, sent'[c]) \in MessageType
        BY <1>m, <3>1
      <3>3. credit' \in Int
        <4>1. credit' = credit - 1 \/ credit' = credit
          BY <2>3 DEF Upload
        <4> QED
          BY <1>0, <4>1 DEF QueueTypes
      <3> QED
        BY <1>e, <2>3, <3>2, <3>3 DEF Upload
    <2>4. CASE UploadEnd(c)
      BY <1>0, <1>e, <1>m, <2>4 DEF UploadEnd, QueueTypes
    <2>5. CASE UploadError(c) \/ WriteError(c) \/ Idle(c)
      BY <1>0, <1>r, <2>5 DEF UploadError, WriteError, Idle, QueueTypes
    <2> QED
      BY <1>1, <2>1, <2>2, <2>3, <2>4, <2>5 DEF VisitorStep
  <1>2. CASE ReadStep
    <2>1. (controls # <<>> => Tail(controls) \in Seq(MessageType)) /\ (datas # <<>> => Tail(datas) \in Seq(MessageType))
      BY <1>0, TailIs DEF QueueTypes
    <2> QED
      BY <1>0, <1>2, <2>1, ReadFrame DEF QueueTypes, outVars
  <1>3. CASE ReaderStep
    <2>1. reader.tell \in MessageType
      BY DEF ChannelsInv, ChannelsTypeOK, ReaderTypes
    <2>2. UNCHANGED <<outbound, credit>> \/ (Send(<<reader.tell>>) /\ credit' = credit)
      BY <1>3 DEF ReaderStep, WaitEnds, Stall, ResetStalled, LastTry, Tell, outVars
    <2>3. outbound' \in Seq(MessageType) /\ credit' \in Int
      BY <1>0, <1>e, <2>1, <2>2 DEF QueueTypes
    <2> QED
      BY <1>0, <1>3, <2>3, ReaderFrame DEF QueueTypes, clientVars
  <1>4. CASE BridgeStep
    <2>1. outbound' \in Seq(MessageType) /\ credit' \in Int
      <3>1. \/ UNCHANGED <<outbound, credit>>
            \/ credit' = credit /\ (outbound' = Append(outbound, Signal("ping")) \/ outbound' = Append(outbound, Signal("drain")))
            \/ outbound' = <<>> /\ credit' = OUTBOUND_BUDGET
        <4>1. CASE KeepAlive
          BY <4>1 DEF KeepAlive
        <4>2. CASE Drain
          BY <4>2 DEF Drain
        <4>3. CASE Lose \/ CloseBridge
          BY <4>3 DEF Lose, CloseBridge, DropOutbound
        <4> QED
          BY <1>4, <4>1, <4>2, <4>3 DEF BridgeStep
      <3>2. Append(outbound, Signal("ping")) \in Seq(MessageType) /\ Append(outbound, Signal("drain")) \in Seq(MessageType)
        BY <1>a, <1>s
      <3>3. OUTBOUND_BUDGET \in Int /\ credit \in Int /\ outbound \in Seq(MessageType)
        BY <1>0, ConstantsAre DEF QueueTypes
      <3>4. <<>> \in Seq(MessageType)
        OBVIOUS
      <3>5. outbound' \in Seq(MessageType)
        BY <3>1, <3>2, <3>3, <3>4
      <3>6. credit' \in Int
        BY <3>1, <3>3
      <3> QED
        BY <3>5, <3>6
    <2> QED
      BY <1>0, <1>4, <2>1, BridgeFrame DEF QueueTypes
  <1>5. CASE HearStep
    <2>1. outbound # <<>> /\ outbound' = Tail(outbound) /\ datas' = datas /\ (credit' = credit \/ credit' = credit + 1)
      BY <1>5, HearFrame
    <2>2. outbound' \in Seq(MessageType) /\ credit' \in Int
      BY <1>0, <2>1, TailIs DEF QueueTypes
    <2>3. controls' = controls \/ \E m \in MessageType : controls' = Append(controls, m)
      <3>1. Arriving \in MessageType
        BY <1>0, <2>1, TailIs DEF Arriving, QueueTypes
      <3>2. [Arriving EXCEPT !.t = "reset"] \in MessageType
        BY <3>1 DEF MessageType
      <3> QED
        BY <1>5, <1>s, <3>2 DEF HearStep, RefuseOpen, AcceptOpen, Deliver, HearReset, HearPing, HearPong, Control
    <2>4. controls' \in Seq(MessageType)
      BY <1>0, <1>a, <2>3 DEF QueueTypes
    <2>5. creader' \in (Conn \X Item) \union {None}
      <3>1. creader' = creader \/ Deliver
        BY <1>5 DEF HearStep, RefuseOpen, AcceptOpen, HearReset, HearPing, HearPong
      <3>2. ASSUME Deliver PROVE creader' \in (Conn \X Item) \union {None}
        <4>1. Arriving.c \in Conn /\ Arriving.n \in Number /\ Arriving.k \in Nat /\ served[Arriving.n] \in Conn \union {None}
          BY <3>2, HeadIs, MeansIs DEF Arriving, Deliver, Receive
        <4>2. \/ creader' = creader
              \/ served[Arriving.n] # None /\ creader' = <<served[Arriving.n], <<Arriving.c, Arriving.k>>>>
          BY <1>0, <3>2, <4>1 DEF Deliver, ClientTypes
        <4> QED
          BY <1>0, <4>1, <4>2 DEF QueueTypes, Item
      <3> QED
        BY <1>0, <3>1, <3>2 DEF QueueTypes
    <2> QED
      BY <1>0, <2>1, <2>2, <2>4, <2>5 DEF QueueTypes
  <1>6. CASE ClientStep
    <2>1. creader' = creader \/ creader' = None
      <3>1. CASE Delivered \/ Stalled \/ Heartbeat
        BY <3>1 DEF Delivered, Stalled, Heartbeat
      <3>2. ASSUME NEW c \in Conn, TargetStep(c) PROVE creader' = creader
        BY <3>2 DEF TargetStep, Take, TakeEnd, Answer, AnswerEnds, ChannelDone, ChannelFails, TellFailed, Serving
      <3> QED
        BY <1>6, <3>1, <3>2 DEF ClientStep
    <2>2. controls' \in Seq(MessageType) /\ datas' \in Seq(MessageType)
      <3>1. CASE Delivered \/ Heartbeat
        BY <1>0, <1>a, <1>s, <3>1 DEF Delivered, Heartbeat, Control, QueueTypes
      <3>2. CASE Stalled
        <4>1. creader \in Conn \X Item
          BY <1>0, <3>2 DEF Stalled, QueueTypes
        <4>2. Message("reset", creader[1], 0) \in MessageType
          BY <1>m, <4>1
        <4> QED
          BY <1>0, <1>a, <3>2, <4>2 DEF Stalled, Control, QueueTypes
      <3>3. ASSUME NEW c \in Conn, TargetStep(c) PROVE controls' \in Seq(MessageType) /\ datas' \in Seq(MessageType)
        <4>1. tsent[c] + 1 \in Nat
          BY <1>0
        <4>2. \/ UNCHANGED <<controls, datas>>
              \/ Queue(Message("data", c, tsent[c] + 1)) \/ Queue(Message("end", c, 0)) \/ Queue(Message("reset", c, 0))
          BY <3>3 DEF TargetStep, Take, TakeEnd, Answer, AnswerEnds, ChannelDone, ChannelFails, TellFailed
        <4> QED
          BY <1>0, <1>a, <1>m, <4>1, <4>2 DEF Queue, QueueTypes
      <3> QED
        BY <1>6, <3>1, <3>2, <3>3 DEF ClientStep
    <2> QED
      BY <1>0, <1>6, <2>1, <2>2, ClientFrame DEF QueueTypes
  <1>7. CASE SessionEnds
    BY <1>0, <1>7, ConstantsAre DEF SessionEnds, DropOutbound, QueueTypes
  <1>8. ASSUME NEW c \in Conn, VisitorStep(c) PROVE QueueTypes'
    BY <1>0, <1>1, <1>8, VisitorFrame DEF QueueTypes, clientVars
  <1> QED
    BY <1>2, <1>3, <1>4, <1>5, <1>6, <1>7, <1>8, Steps

LEMMA TypesKept ==
    ASSUME ChannelsInv, ChannelsNext, ~clash'
    PROVE  ChannelsTypeOK'
  BY VisitorTypesKept, HeldTypesKept, BridgeTypesKept, ReaderTypesKept, ClientTypesKept, QueueTypesKept DEF ChannelsTypeOK

-----------------------------------------------------------------------------
(* The tables: a number means one connection. *)

\* What a step may do to the life of a connection.
LEMMA Ages ==
    ASSUME ChannelsInv, ChannelsNext, ~clash', \A c \in Conn : ~Route(c)
    PROVE  /\ num' = num
           /\ \A d \in Conn : /\ Told(d) => Told(d)'
                              /\ Active(d)' => Active(d)
                              /\ visit'[d] # "new" <=> visit[d] # "new"
                              /\ visit'[d] = "routed" => visit[d] = "routed"
                              /\ visit[d] = "carried" => visit'[d] \in {"carried", "done"}
  <1>0. visit \in [Conn -> {"new", "routed", "carried", "done"}]
    BY DEF ChannelsInv, ChannelsTypeOK, VisitorTypes
  <1> USE DEF Told, Active
  <1>1. CASE UNCHANGED <<num, visit>>
    BY <1>0, <1>1
  <1>2. ASSUME NEW c \in Conn, num' = num, visit' = [visit EXCEPT ![c] = "carried"], visit[c] = "routed"
        PROVE  \A d \in Conn : /\ Told(d) => Told(d)'
                               /\ Active(d)' => Active(d)
                               /\ visit'[d] # "new" <=> visit[d] # "new"
                               /\ visit'[d] = "routed" => visit[d] = "routed"
                               /\ visit[d] = "carried" => visit'[d] \in {"carried", "done"}
    BY <1>0, <1>2
  <1>3. ASSUME NEW c \in Conn, num' = num, visit' = [visit EXCEPT ![c] = "done"], Active(c)
        PROVE  \A d \in Conn : /\ Told(d) => Told(d)'
                               /\ Active(d)' => Active(d)
                               /\ visit'[d] # "new" <=> visit[d] # "new"
                               /\ visit'[d] = "routed" => visit[d] = "routed"
                               /\ visit[d] = "carried" => visit'[d] \in {"carried", "done"}
    BY <1>0, <1>3
  <1>4. ASSUME NEW c \in Conn, VisitorStep(c)
        PROVE  \/ UNCHANGED <<num, visit>>
               \/ num' = num /\ visit' = [visit EXCEPT ![c] = "carried"] /\ visit[c] = "routed"
               \/ num' = num /\ visit' = [visit EXCEPT ![c] = "done"] /\ Active(c)
    <2>1. CASE Carry(c) \/ Refuse(c)
      BY <2>1 DEF Carry, Refuse
    <2>2. CASE Upload(c) \/ UploadEnd(c) \/ UploadError(c) \/ UploadAborted(c)
      BY <2>2 DEF Upload, UploadEnd, UploadError, UploadAborted, Uploading
    <2>3. CASE Written(c) \/ Progress(c) \/ WriteError(c) \/ DownloadEnd(c) \/ DownloadAborted(c)
      BY <2>3 DEF Written, Progress, WriteError, DownloadEnd, DownloadAborted, Downloading
    <2>4. CASE Ended(c) \/ Idle(c)
      BY <2>4 DEF Ended, Idle, Over
    <2> QED
      BY <1>4, <2>1, <2>2, <2>3, <2>4 DEF VisitorStep
  <1>5. CASE ~\E c \in Conn : VisitorStep(c)
    <2>1. UNCHANGED <<num, visit>>
      BY <1>5, Steps, ReadFrame, ReaderFrame, BridgeFrame, HearFrame, ClientFrame, SessionFrame DEF visitorVars
    <2> QED
      BY <1>1, <2>1
  <1>6. CASE \E c \in Conn : VisitorStep(c)
    <2>1. PICK c \in Conn : VisitorStep(c)
      BY <1>6
    <2>2. num' = num
      BY <1>4, <2>1
    <2> QED
      BY <1>1, <1>2, <1>3, <1>4, <2>1, <2>2
  <1> QED
    BY <1>5, <1>6

\* A message a step may queue: about a connection spoken of that the client knows.
Fair(m) ==
    /\ m.c = None => m.n = 0 /\ m.t \notin {"open", "data", "end", "reset"}
    /\ m.c # None => m.c \in Spoken /\ m.n = num[m.c] /\ visit'[m.c] \in {"carried", "done"}
    /\ m.t = "data" => m.k > 0
    /\ m.t = "end" => m.k = 0

LEMMA SignalFair ==
    ASSUME NEW t \in {"none", "ping", "pong", "drain"}
    PROVE  Fair(Signal(t)) /\ Sound(Signal(t)) /\ Signal(t).c = None /\ Signal(t).t = t /\ Signal(t).n = 0
  BY DEF Fair, Sound, Signal

LEMMA MessageFair ==
    ASSUME num \in [Conn -> Nat], NEW t \in {"open", "data", "end", "reset"}, NEW c \in Conn, NEW k \in Nat,
           c \in Spoken, Told(c)', t = "data" => k > 0, t = "end" => k = 0
    PROVE  Fair(Message(t, c, k))
  <1>1. c # None
    BY ConstantsAre
  <1> QED
    BY <1>1 DEF Fair, Message, Told

LEMMA UnderwayKept ==
    ASSUME ChannelsInv, ChannelsNext, ~clash', \A c \in Conn : ~Route(c)
    PROVE  \A m \in Underway' : m \in Underway \/ Fair(m)
  <1>0. /\ outbound \in Seq(MessageType) /\ controls \in Seq(MessageType) /\ datas \in Seq(MessageType)
        /\ num \in [Conn -> Nat] /\ sent \in [Conn -> Nat] /\ tsent \in [Conn -> Nat] /\ reader.tell \in MessageType
        /\ creader \in (Conn \X Item) \union {None}
    BY DEF ChannelsInv, ChannelsTypeOK, VisitorTypes, ClientTypes, QueueTypes, ReaderTypes
  <1>u. Range(<<>>) = {}
    BY DEF Range
  <1>t. \A q \in Seq(MessageType) : q # <<>> => Range(Tail(q)) \subseteq Range(q)
    BY RangeIs
  <1>a. \A q \in Seq(MessageType), m \in MessageType : Range(Append(q, m)) = Range(q) \union {m}
    BY RangeIs
  <1>s. \A t \in {"none", "ping", "pong", "drain"} : Signal(t) \in MessageType /\ Fair(Signal(t))
    BY SignalIs, SignalFair
  <1>m. ASSUME NEW t \in {"open", "data", "end", "reset"}, NEW c \in Conn, NEW k \in Nat,
               c \in Spoken, Told(c)', t = "data" => k > 0, t = "end" => k = 0
        PROVE  Message(t, c, k) \in MessageType /\ Fair(Message(t, c, k))
    BY <1>0, <1>m, MessageHas, MessageFair
  <1>o. ASSUME UNCHANGED <<controls, datas>>, NEW m \in MessageType, Fair(m),
               outbound' \in {outbound, Append(outbound, m), <<>>}
        PROVE  \A l \in Underway' : l \in Underway \/ Fair(l)
    <2>1. Range(outbound)' \subseteq Range(outbound) \union {m}
      BY <1>0, <1>o, <1>a, <1>u
    <2> QED
      BY <1>o, <2>1 DEF Underway
  <1>c. ASSUME outbound' = outbound \/ (outbound # <<>> /\ outbound' = Tail(outbound)),
               NEW m \in MessageType, Fair(m), controls' \in {controls, Append(controls, m)}, datas' \in {datas, Append(datas, m)}
        PROVE  \A l \in Underway' : l \in Underway \/ Fair(l)
    <2>1. Range(outbound)' \subseteq Range(outbound)
      BY <1>0, <1>c, <1>t
    <2>2. Range(controls)' \subseteq Range(controls) \union {m} /\ Range(datas)' \subseteq Range(datas) \union {m}
      BY <1>0, <1>c, <1>a
    <2> QED
      BY <1>c, <2>1, <2>2 DEF Underway
  <1>1. ASSUME NEW c \in Conn, VisitorStep(c) PROVE \A l \in Underway' : l \in Underway \/ Fair(l)
    <2>0. UNCHANGED <<controls, datas>>
      BY <1>1, VisitorFrame DEF clientVars
    <2>c. ASSUME Active(c) PROVE c \in Spoken
      BY <2>c DEF Spoken
    <2>1. CASE UNCHANGED outbound
      BY <2>0, <2>1, <1>o, <1>s
    <2>2. CASE Carry(c)
      <3>1. visit[c] = "routed" /\ visit' = [visit EXCEPT ![c] = "carried"]
        BY <2>2 DEF Carry
      <3>2. c \in Spoken /\ Told(c)'
        BY <2>c, <3>1 DEF Active, Told, ChannelsInv, ChannelsTypeOK, VisitorTypes
      <3>3. /\ Message("open", c, 0) \in MessageType /\ Fair(Message("open", c, 0))
            /\ Message("data", c, 1) \in MessageType /\ Fair(Message("data", c, 1))
        BY <3>2, <1>m
      <3>4. outbound' = outbound \/ outbound' = Append(Append(outbound, Message("open", c, 0)), Message("data", c, 1))
        BY <1>0, <2>2, <3>3, ConcatIs DEF Carry, Send
      <3>5. CASE outbound' = Append(Append(outbound, Message("open", c, 0)), Message("data", c, 1))
        <4>1. Append(outbound, Message("open", c, 0)) \in Seq(MessageType)
          BY <1>0, <3>3, AppendIs
        <4>2. Range(outbound') = Range(outbound) \union {Message("open", c, 0)} \union {Message("data", c, 1)}
          BY <1>0, <1>a, <3>3, <3>5, <4>1
        <4> QED
          BY <2>0, <3>3, <4>2 DEF Underway
      <3> QED
        BY <2>1, <3>4, <3>5
    <2>3. CASE Upload(c)
      <3>1. visit[c] = "carried" /\ UNCHANGED visit /\ sent' = [sent EXCEPT ![c] = @ + 1] /\ Send(<<Message("data", c, sent'[c])>>)
        BY <2>3 DEF Upload, Uploading
      <3>2. c \in Spoken /\ Told(c)' /\ sent'[c] \in Nat /\ sent'[c] > 0
        BY <1>0, <2>c, <3>1 DEF Active, Told
      <3>3. Message("data", c, sent'[c]) \in MessageType /\ Fair(Message("data", c, sent'[c]))
        BY <1>m, <3>2
      <3> QED
        BY <1>0, <1>o, <2>0, <3>1, <3>3, SendIs
    <2>4. CASE UploadEnd(c)
      <3>1. visit[c] = "carried" /\ UNCHANGED visit /\ Send(<<Message("end", c, 0)>>)
        BY <2>4 DEF UploadEnd, Uploading
      <3>2. c \in Spoken /\ Told(c)'
        BY <2>c, <3>1 DEF Active, Told
      <3>3. Message("end", c, 0) \in MessageType /\ Fair(Message("end", c, 0))
        BY <1>m, <3>2
      <3> QED
        BY <1>0, <1>o, <2>0, <3>1, <3>3, SendIs
    <2>5. CASE UploadError(c) \/ WriteError(c) \/ Idle(c)
      <3>1. TrySendReset(c) /\ visit[c] = "carried"
        BY <2>5 DEF UploadError, WriteError, Idle, Over, Uploading, Downloading
      <3>2. c \in Spoken /\ Told(c)'
        BY <2>c, <3>1, Ages DEF Active, Told
      <3>3. Message("reset", c, 0) \in MessageType /\ Fair(Message("reset", c, 0))
        BY <1>m, <3>2
      <3> QED
        BY <1>o, <2>0, <3>1, <3>3 DEF TrySendReset
    <2>6. CASE Refuse(c) \/ UploadAborted(c) \/ Written(c) \/ Progress(c) \/ DownloadEnd(c) \/ DownloadAborted(c) \/ Ended(c)
      BY <2>1, <2>6 DEF Refuse, UploadAborted, Written, Progress, DownloadEnd, DownloadAborted, Ended, outVars
    <2> QED
      BY <1>1, <2>2, <2>3, <2>4, <2>5, <2>6 DEF VisitorStep
  <1>2. CASE ReadStep
    <2>1. Range(controls)' \subseteq Range(controls) /\ Range(datas)' \subseteq Range(datas) /\ outbound' = outbound
      BY <1>0, <1>2, <1>t, ReadFrame DEF outVars
    <2> QED
      BY <2>1 DEF Underway
  <1>3. CASE ReaderStep
    <2>1. UNCHANGED <<controls, datas>>
      BY <1>3, ReaderFrame DEF clientVars
    <2>2. UNCHANGED outbound \/ Send(<<reader.tell>>)
      BY <1>3 DEF ReaderStep, WaitEnds, Stall, ResetStalled, LastTry, Tell, outVars
    <2>3. Fair(reader.tell)
      <3>1. Sound(reader.tell) /\ (reader.tell.c # None => reader.tell.c \in Spoken)
        BY DEF Spoken, WithReader, ChannelsInv, Tables
      <3>2. reader.tell.c # None => reader.tell.c \in Conn
        BY <1>0 DEF MessageType
      <3> QED
        BY <3>1, <3>2, Ages DEF Sound, Fair, Told
    <2> QED
      BY <1>0, <1>o, <2>1, <2>2, <2>3, SendIs
  <1>4. CASE BridgeStep
    <2>1. UNCHANGED <<controls, datas>>
      BY <1>4, BridgeFrame
    <2>2. outbound' \in {outbound, Append(outbound, Signal("ping")), Append(outbound, Signal("drain")), <<>>}
      <3>1. CASE KeepAlive \/ Drain
        BY <3>1 DEF KeepAlive, Drain
      <3>2. CASE Lose \/ CloseBridge
        BY <3>2 DEF Lose, CloseBridge, DropOutbound
      <3> QED
        BY <1>4, <3>1, <3>2 DEF BridgeStep
    <2> QED
      BY <1>o, <1>s, <2>1, <2>2
  <1>5. CASE HearStep
    <2>1. outbound # <<>> /\ outbound' = Tail(outbound) /\ datas' = datas
      BY <1>5, HearFrame
    <2>2. CASE RefuseOpen
      <3>1. controls' = Append(controls, [Arriving EXCEPT !.t = "reset"]) /\ Arriving.t = "open"
        BY <2>2 DEF RefuseOpen, Control, Receive, Arriving
      <3>2. Arriving \in Underway /\ Arriving \in MessageType /\ Arriving.c # None /\ Arriving.c \in Conn
            /\ Arriving.c \in Spoken /\ Told(Arriving.c) /\ Arriving.n = num[Arriving.c]
        BY <2>1, <3>1, HeadIs, MeansIs DEF Arriving
      <3>3. visit'[Arriving.c] \in {"carried", "done"}
        BY <3>2, Ages DEF Told
      <3>4. [Arriving EXCEPT !.t = "reset"] \in MessageType
        BY <3>2 DEF MessageType
      <3>5. /\ [Arriving EXCEPT !.t = "reset"].c = Arriving.c /\ [Arriving EXCEPT !.t = "reset"].n = Arriving.n
            /\ [Arriving EXCEPT !.t = "reset"].t = "reset"
        BY <3>2 DEF MessageType
      <3>6. Fair([Arriving EXCEPT !.t = "reset"])
        BY <3>2, <3>3, <3>5 DEF Fair
      <3> QED
        BY <1>c, <2>1, <3>1, <3>4, <3>6
    <2>3. CASE controls' \in {controls, Append(controls, Signal("pong"))}
      BY <1>c, <1>s, <2>1, <2>3
    <2> QED
      BY <1>5, <2>2, <2>3 DEF HearStep, AcceptOpen, Deliver, HearReset, HearPing, HearPong, Control
  <1>6. CASE ClientStep
    <2>1. outbound' = outbound
      BY <1>6, ClientFrame
    <2>2. CASE Delivered \/ Heartbeat
      <3>1. controls' \in {controls, Append(controls, Signal("ping"))} /\ datas' = datas
        BY <2>2 DEF Delivered, Heartbeat, Control
      <3> QED
        BY <1>c, <1>s, <2>1, <3>1
    <2>3. ASSUME NEW c \in Conn, task[c] \in {"run", "ended", "failed"}, NEW t \in {"data", "end", "reset"}, NEW k \in Nat,
                 t = "data" => k > 0, t = "end" => k = 0,
                 controls' \in {controls, Append(controls, Message(t, c, k))}, datas' \in {datas, Append(datas, Message(t, c, k))}
          PROVE  \A l \in Underway' : l \in Underway \/ Fair(l)
      <3>1. c \in Spoken
        BY <2>3, ServedIs
      <3>2. Told(c)'
        BY <2>3, Ages DEF ChannelsInv, Tables
      <3>3. Message(t, c, k) \in MessageType /\ Fair(Message(t, c, k))
        BY <1>m, <2>3, <3>1, <3>2
      <3> QED
        BY <1>c, <2>1, <2>3, <3>3
    <2>4. CASE Stalled
      <3>1. creader \in Conn \X Item
        BY <1>0, <2>4 DEF Stalled
      <3>2. creader[1] \in Conn /\ task[creader[1]] \in {"run", "ended"}
        BY <2>4, <3>1 DEF Stalled, Running
      <3>3. controls' = Append(controls, Message("reset", creader[1], 0)) /\ datas' = datas
        BY <2>4 DEF Stalled, Control
      <3> QED
        BY <2>3, <3>2, <3>3
    <2>5. ASSUME NEW c \in Conn, TargetStep(c) PROVE \A l \in Underway' : l \in Underway \/ Fair(l)
      <3>1. CASE UNCHANGED <<controls, datas>>
        BY <2>1, <3>1 DEF Underway
      <3>2. CASE Answer(c)
        <4>1. tsent[c] + 1 \in Nat /\ tsent[c] + 1 > 0 /\ task[c] = "run"
          BY <1>0, <3>2 DEF Answer
        <4>2. datas' = Append(datas, Message("data", c, tsent[c] + 1)) /\ controls' = controls
          BY <3>2 DEF Answer, Queue
        <4> QED
          BY <2>3, <4>1, <4>2
      <3>3. CASE AnswerEnds(c)
        <4>1. task[c] = "run" /\ datas' = Append(datas, Message("end", c, 0)) /\ controls' = controls
          BY <3>3 DEF AnswerEnds, Queue
        <4> QED
          BY <2>3, <4>1
      <3>4. CASE TellFailed(c)
        <4>1. task[c] = "failed" /\ datas' = Append(datas, Message("reset", c, 0)) /\ controls' = controls
          BY <3>4 DEF TellFailed, Queue
        <4> QED
          BY <2>3, <4>1
      <3>5. CASE Take(c) \/ TakeEnd(c) \/ ChannelDone(c) \/ ChannelFails(c)
        BY <3>1, <3>5 DEF Take, TakeEnd, ChannelDone, ChannelFails
      <3> QED
        BY <2>5, <3>2, <3>3, <3>4, <3>5 DEF TargetStep
    <2> QED
      BY <1>6, <2>2, <2>4, <2>5 DEF ClientStep
  <1>7. CASE SessionEnds
    <2>1. outbound' = <<>> /\ controls' = <<>> /\ datas' = <<>>
      BY <1>7 DEF SessionEnds, DropOutbound
    <2> QED
      BY <1>u, <2>1 DEF Underway
  <1> QED
    BY <1>1, <1>2, <1>3, <1>4, <1>5, <1>6, <1>7, Steps

\* Data waits only for a connection whose tasks run.
LEMMA HoldingIs ==
    ASSUME ChannelsInv, NEW c \in Conn, budget[c] < CHANNEL_BUDGET
    PROVE  visit[c] = "carried" /\ down[c] = "run"
  <1>1. HeldTypes /\ Balanced
    BY DEF ChannelsInv, ChannelsTypeOK
  <1>2. Data(c) \in Nat /\ Frames(c) \subseteq 1 .. Len(inbound[c])
    BY <1>1, FramesAre
  <1>3. Data(c) # 0
    BY <1>1, <1>2, ConstantsAre DEF Balanced, HeldTypes
  <1>4. inbound[c] # <<>>
    <2>1. SUFFICES ASSUME inbound[c] = <<>> PROVE FALSE
      OBVIOUS
    <2>2. Frames(c) = {}
      BY <1>2, <2>1
    <2> QED
      BY <1>3, <2>2, FS_EmptySet DEF Data
  <1> QED
    BY <1>1, <1>4 DEF Balanced

LEMMA WithReaderKept ==
    ASSUME ChannelsInv, ChannelsNext, ~clash', \A c \in Conn : ~Route(c)
    PROVE  /\ \A d \in WithReader' : d \in Spoken /\ Told(d)'
           /\ Sound(reader.tell)'
  <1>0. /\ ReaderTypes /\ num \in [Conn -> Nat] /\ channels \in [Number -> Conn \union {None}]
        /\ \A d \in WithReader : d \in Conn /\ d \in Spoken /\ Told(d)
        /\ Sound(reader.tell) /\ None \notin Conn
        /\ (reader.tell.c # None => reader.tell.c \in WithReader)
    <2>1. WithReader \subseteq Conn
      BY DEF WithReader, ReaderTypes, MessageType, ChannelsInv, ChannelsTypeOK
    <2> QED
      BY <2>1, ConstantsAre DEF ChannelsInv, ChannelsTypeOK, VisitorTypes, BridgeTypes, Tables, Spoken, WithReader
  <1>1. CASE reader' = reader
    <2>1. WithReader' = WithReader
      BY <1>1 DEF WithReader
    <2>2. reader.tell.c # None => Told(reader.tell.c)'
      BY <1>0, <1>1, Ages DEF Told
    <2> QED
      BY <1>0, <1>1, <2>1, <2>2, Ages DEF Sound
  <1>2. CASE reader' = Reading \/ reader' = [Reading EXCEPT !.at = "tell", !.tell = Signal("pong")]
    <2>1. Reading.c = None /\ Reading.todo = {} /\ Reading.tell.c = None /\ Reading.tell = Signal("none")
      BY ReadingIs, SignalFair
    <2>2. /\ [Reading EXCEPT !.at = "tell", !.tell = Signal("pong")].c = None
          /\ [Reading EXCEPT !.at = "tell", !.tell = Signal("pong")].todo = {}
          /\ [Reading EXCEPT !.at = "tell", !.tell = Signal("pong")].tell = Signal("pong")
      BY DEF Reading
    <2>3. reader'.c = None /\ reader'.todo = {} /\ (reader'.tell = Signal("none") \/ reader'.tell = Signal("pong"))
      BY <1>2, <2>1, <2>2
    <2>4. reader'.tell.c = None /\ reader'.tell.n = 0 /\ reader'.tell.t \in {"none", "pong"}
      BY <2>3 DEF Signal
    <2> QED
      BY <2>3, <2>4 DEF WithReader, Sound
  <1>3. ASSUME NEW c \in WithReader, NEW todo, todo \subseteq WithReader, NEW stays \in WithReader \union {None}, Reset(c, todo, stays)
        PROVE  /\ \A d \in WithReader' : d \in Spoken /\ Told(d)'
               /\ Sound(reader.tell)'
    <2>1. reader'.c = stays /\ reader'.todo = todo /\ reader'.tell = Message("reset", c, 0)
      BY <1>3 DEF Reset
    <2>2. reader'.tell.c = c /\ reader'.tell.n = num[c] /\ reader'.tell.t = "reset" /\ c \in Conn /\ c # None
      BY <1>0, <1>3, <2>1 DEF Message
    <2>3. WithReader' \subseteq WithReader
      BY <1>3, <2>1, <2>2 DEF WithReader
    <2>4. \A d \in WithReader' : d \in Spoken /\ Told(d)'
      BY <1>0, <2>3, Ages
    <2>5. num' = num /\ Told(c)'
      BY <1>0, <1>3, Ages
    <2> QED
      BY <2>2, <2>4, <2>5 DEF Sound, Told
  <1>5. CASE ReadData
    <2>1. ReadStep /\ Arrived.t = "data"
      BY <1>5 DEF ReadData, ReadStep
    <2>2. Arrived \in Underway
      BY <2>1, ArrivedIs
    <2>3. CASE reader' = [Reading EXCEPT !.at = "wait", !.c = channels[Arrived.n], !.x = <<Arrived.c, Arrived.k>>]
      <3>1. channels[Arrived.n] = Arrived.c /\ Arrived.c \in Conn /\ Arrived.c \in Spoken /\ Told(Arrived.c)
        BY <1>5, <2>1, <2>2, MeansIs DEF ReadData
      <3>2. reader'.c = Arrived.c /\ reader'.todo = {} /\ reader'.tell = Signal("none")
        BY <2>3, <3>1 DEF Reading
      <3>3. reader'.tell.c = None /\ reader'.tell.n = 0 /\ reader'.tell.t = "none"
        BY <3>2 DEF Signal
      <3>4. WithReader' \subseteq {reader'.c}
        BY <3>2, <3>3 DEF WithReader
      <3>5. ASSUME NEW d \in WithReader' PROVE d \in Spoken /\ Told(d)'
        <4>1. d \in Conn /\ d \in Spoken /\ Told(d)
          BY <3>1, <3>2, <3>4, <3>5
        <4> QED
          BY <4>1, Ages
      <3> QED
        BY <3>3, <3>5 DEF Sound
    <2> QED
      BY <1>1, <1>5, <2>3 DEF ReadData
  <1>6. CASE Stall
    <2>1. /\ reader'.todo = {d \in Range(channels) \ {None} : budget[d] < CHANNEL_BUDGET /\ d \notin moved}
          /\ reader'.c = reader.c /\ reader'.tell = reader.tell
      BY <1>0, <1>6 DEF Stall, ReaderTypes
    <2>2. ASSUME NEW d \in reader'.todo PROVE d \in Conn /\ d \in Spoken /\ Told(d)
      <3>1. d \in Conn /\ budget[d] < CHANNEL_BUDGET
        BY <1>0, <2>1, <2>2 DEF Range
      <3>2. visit[d] = "carried"
        BY <3>1, HoldingIs
      <3> QED
        BY <3>1, <3>2 DEF Spoken, Active, Told
    <2>3. ASSUME NEW d \in WithReader' PROVE d \in Spoken /\ Told(d)'
      <3>1. d \in WithReader \/ d \in reader'.todo
        BY <2>1, <2>3 DEF WithReader
      <3> QED
        BY <1>0, <2>2, <3>1, Ages
    <2>4. reader.tell.c # None => visit'[reader.tell.c] \in {"carried", "done"}
      BY <1>0, Ages DEF Told
    <2> QED
      BY <1>0, <2>1, <2>3, <2>4, Ages DEF Sound, Told
  <1>7. CASE ResetStalled
    <2>1. PICK c \in reader.todo : Reset(c, reader.todo \ {c}, reader.c)
      BY <1>7 DEF ResetStalled
    <2>2. c \in WithReader /\ reader.todo \ {c} \subseteq WithReader /\ reader.c \in WithReader \union {None}
      BY <1>0 DEF WithReader, ReaderTypes
    <2> QED
      BY <1>3, <2>1, <2>2
  <1>8. CASE LastTry
    <2>1. reader.c \in WithReader
      BY <1>8 DEF LastTry, ChannelsInv, Phases, WithReader
    <2>2. reader' = Reading \/ Reset(reader.c, {}, None)
      BY <1>8 DEF LastTry
    <2> QED
      BY <1>2, <1>3, <2>1, <2>2
  <1>9. CASE Tell
    <2>2. reader' = Reading \/ reader' = [reader EXCEPT !.at = "stall", !.tell = Signal("none")]
      BY <1>9 DEF Tell
    <2>3. CASE reader' = [reader EXCEPT !.at = "stall", !.tell = Signal("none")]
      <3>1. reader'.c = reader.c /\ reader'.todo = reader.todo /\ reader'.tell = Signal("none")
        BY <1>0, <2>3 DEF ReaderTypes
      <3>2. reader'.tell.c = None /\ reader'.tell.n = 0 /\ reader'.tell.t = "none"
        BY <3>1 DEF Signal
      <3>3. WithReader' \subseteq WithReader
        BY <3>1, <3>2 DEF WithReader
      <3> QED
        BY <1>0, <3>2, <3>3, Ages DEF Sound
    <2> QED
      BY <1>2, <2>2, <2>3
  <1>10. CASE ReadStep \/ ReaderStep \/ BridgeStep
    <2>1. CASE Ignore \/ ReadEnd \/ ReadReset \/ KeepAlive \/ Lose \/ Drain
      BY <1>1, <2>1 DEF Ignore, ReadEnd, ReadReset, KeepAlive, Lose, Drain
    <2>2. CASE WaitEnds \/ CloseBridge \/ ReadPing
      BY <1>2, <2>2 DEF WaitEnds, CloseBridge, ReadPing
    <2> QED
      BY <1>5, <1>6, <1>7, <1>8, <1>9, <1>10, <2>1, <2>2 DEF ReadStep, ReaderStep, BridgeStep
  <1> QED
    BY <1>1, <1>10, Steps, VisitorFrame, HearFrame, ClientFrame, SessionFrame

\* The client's table and its tasks.
ServedOK ==
    /\ \A n \in Number : served[n] # None => num[served[n]] = n /\ Told(served[n]) /\ task[served[n]] \in {"run", "ended", "failed"}
    /\ \A c \in Conn : task[c] \in {"run", "ended", "failed"} => Told(c) /\ served[num[c]] = c

LEMMA ServedLeave ==
    ASSUME ChannelsInv, ChannelsNext, ~clash', \A c \in Conn : ~Route(c), NEW c \in Conn, Leave(c, "done")
    PROVE  ServedOK' /\ Range(served') \subseteq Range(served) \union {None}
  <1>0. ServedOK /\ ClientTypes /\ None \notin Conn /\ \A d \in Conn : visit[d] # "new" => num[d] \in Number
    BY ConstantsAre DEF ChannelsInv, ChannelsTypeOK, Tables, ServedOK
  <1>1. /\ task' = [task EXCEPT ![c] = "done"] /\ DOMAIN served' = Number
        /\ \A n \in Number : served'[n] = IF served[n] = c THEN None ELSE served[n]
    BY <1>0 DEF Leave, ClientTypes
  <1>2. num' = num /\ \A d \in Conn : Told(d) => Told(d)' /\ num[d] \in Number
    BY <1>0, Ages DEF Told
  <1>3. ASSUME NEW n \in Number, served'[n] # None
        PROVE  num'[served'[n]] = n /\ visit'[served'[n]] \in {"carried", "done"} /\ task'[served'[n]] \in {"run", "ended", "failed"}
    <2>1. served'[n] = served[n] /\ served[n] # c /\ served[n] \in Conn
      BY <1>0, <1>1, <1>3 DEF ClientTypes
    <2>2. task'[served[n]] = task[served[n]]
      BY <1>0, <1>1, <2>1 DEF ClientTypes
    <2> QED
      BY <1>0, <1>2, <1>3, <2>1, <2>2 DEF ServedOK, Told
  <1>4. ASSUME NEW d \in Conn, task'[d] \in {"run", "ended", "failed"} PROVE Told(d)' /\ served'[num'[d]] = d
    <2>1. d # c /\ task[d] = task'[d]
      BY <1>0, <1>1, <1>4 DEF ClientTypes
    <2>2. Told(d) /\ served[num[d]] = d
      BY <1>0, <1>4, <2>1 DEF ServedOK
    <2> QED
      BY <1>1, <1>2, <2>1, <2>2
  <1>5. Range(served') \subseteq Range(served) \union {None}
    BY <1>0, <1>1 DEF Range, ClientTypes
  <1> QED
    BY <1>3, <1>4, <1>5 DEF ServedOK, Told

LEMMA ServedKept ==
    ASSUME ChannelsInv, ChannelsNext, ~clash', \A c \in Conn : ~Route(c)
    PROVE  ServedOK' /\ Range(served') \subseteq Spoken \union {None}
  <1>0. ServedOK /\ ClientTypes /\ None \notin Conn /\ num' = num /\ Range(served) \subseteq Spoken \union {None}
        /\ \A d \in Conn : Told(d) => Told(d)' /\ num[d] \in Number
    BY ConstantsAre, Ages DEF ChannelsInv, ChannelsTypeOK, Tables, ServedOK, Spoken, Told
  <1>1. ASSUME served' = served, \A d \in Conn : task'[d] \in {"run", "ended", "failed"} <=> task[d] \in {"run", "ended", "failed"}
        PROVE  ServedOK' /\ Range(served') \subseteq Spoken \union {None}
    <2>1. ASSUME NEW n \in Number, served[n] # None PROVE served[n] \in Conn /\ visit'[served[n]] \in {"carried", "done"}
      BY <1>0, <2>1 DEF ServedOK, ClientTypes, Told
    <2> QED
      BY <1>0, <1>1, <2>1 DEF ServedOK, Told
  <1>2. CASE AcceptOpen
    <2>1. Arriving \in Underway /\ Arriving.t = "open"
      BY <1>2, HeadIs DEF AcceptOpen, Receive, Arriving
    <2>2. PICK c \in Conn : c = Arriving.c /\ c \in Spoken /\ Told(c) /\ Arriving.n = num[c] /\ num[c] \in Number /\ served[num[c]] \in {c, None}
      BY <2>1, MeansIs
    <2>3. served' = [served EXCEPT ![num[c]] = c] /\ task' = [task EXCEPT ![c] = "run"]
      BY <1>2, <2>2 DEF AcceptOpen
    <2>4. ASSUME NEW n \in Number, served'[n] # None
          PROVE  num'[served'[n]] = n /\ visit'[served'[n]] \in {"carried", "done"} /\ task'[served'[n]] \in {"run", "ended", "failed"}
      <3>1. CASE n = num[c]
        BY <1>0, <2>2, <2>3, <3>1 DEF ClientTypes, Told
      <3>2. CASE n # num[c]
        <4>1. served'[n] = served[n] /\ served[n] \in Conn /\ num[served[n]] = n /\ Told(served[n]) /\ served[n] # c
          BY <1>0, <2>3, <2>4, <3>2 DEF ClientTypes, ServedOK
        <4>2. task'[served[n]] = task[served[n]]
          BY <1>0, <2>3, <4>1 DEF ClientTypes
        <4> QED
          BY <1>0, <2>4, <4>1, <4>2 DEF ServedOK, Told
      <3> QED
        BY <3>1, <3>2
    <2>5. ASSUME NEW d \in Conn, task'[d] \in {"run", "ended", "failed"} PROVE Told(d)' /\ served'[num'[d]] = d
      <3>1. CASE d = c
        BY <1>0, <2>2, <2>3, <3>1 DEF ClientTypes
      <3>2. CASE d # c
        <4>1. task'[d] = task[d]
          BY <1>0, <2>3, <3>2 DEF ClientTypes
        <4>2. Told(d) /\ served[num[d]] = d
          BY <1>0, <2>5, <4>1 DEF ServedOK
        <4>3. num[d] # num[c]
          BY <1>0, <2>2, <3>2, <4>2
        <4> QED
          BY <1>0, <2>2, <2>3, <4>2, <4>3 DEF ClientTypes
      <3> QED
        BY <3>1, <3>2
    <2>6. Range(served') \subseteq Range(served) \union {c}
      BY <1>0, <2>2, <2>3 DEF Range, ClientTypes
    <2> QED
      BY <1>0, <2>2, <2>4, <2>5, <2>6 DEF ServedOK, Told
  <1>3. ASSUME NEW c \in Conn, Leave(c, "done") PROVE ServedOK' /\ Range(served') \subseteq Spoken \union {None}
    BY <1>0, <1>3, ServedLeave
  <1>4. CASE HearReset
    <2>1. served[Arriving.n] \in Conn \union {None}
      BY <1>4, HeadIs, MeansIs DEF HearReset, Receive, Arriving
    <2> QED
      BY <1>1, <1>3, <1>4, <2>1 DEF HearReset
  <1>5. CASE Stalled
    <2>1. creader \in Conn \X Item
      BY <1>5 DEF Stalled, ChannelsInv, ChannelsTypeOK, QueueTypes
    <2>2. creader[1] \in Conn
      BY <2>1
    <2> QED
      BY <1>3, <1>5, <2>2 DEF Stalled
  <1>6. CASE SessionEnds
    <2>1. /\ served' = [n \in DOMAIN served |-> None]
          /\ task' = [c \in Conn |-> IF task[c] = "off" THEN "off" ELSE "done"]
      BY <1>6 DEF SessionEnds
    <2>2. Range(served') \subseteq {None}
      BY <2>1 DEF Range
    <2> QED
      BY <1>0, <2>1, <2>2 DEF ServedOK, ClientTypes
  <1>7. ASSUME NEW c \in Conn, TargetStep(c) PROVE ServedOK' /\ Range(served') \subseteq Spoken \union {None}
    <2>1. CASE Take(c) \/ TakeEnd(c) \/ Answer(c)
      BY <1>1, <2>1 DEF Take, TakeEnd, Answer
    <2>2. CASE AnswerEnds(c)
      <3>1. task[c] = "run" /\ task' = [task EXCEPT ![c] = "ended"] /\ served' = served
        BY <2>2 DEF AnswerEnds
      <3> QED
        BY <1>0, <1>1, <3>1 DEF ClientTypes
    <2>3. CASE ChannelFails(c)
      <3>1. task[c] \in {"run", "ended"} /\ task' = [task EXCEPT ![c] = "failed"] /\ served' = served
        BY <2>3 DEF ChannelFails, Running
      <3> QED
        BY <1>0, <1>1, <3>1 DEF ClientTypes
    <2>4. CASE ChannelDone(c) \/ TellFailed(c)
      BY <1>3, <2>4 DEF ChannelDone, TellFailed
    <2> QED
      BY <1>7, <2>1, <2>2, <2>3, <2>4 DEF TargetStep
  <1>8. CASE HearStep \/ ClientStep
    <2>1. CASE RefuseOpen \/ Deliver \/ HearPing \/ HearPong \/ Delivered \/ Heartbeat
      BY <1>1, <2>1 DEF RefuseOpen, Deliver, HearPing, HearPong, Delivered, Heartbeat
    <2> QED
      BY <1>2, <1>4, <1>5, <1>7, <1>8, <2>1 DEF HearStep, ClientStep
  <1> QED
    BY <1>1, <1>6, <1>8, Steps, VisitorFrame, ReadFrame, ReaderFrame, BridgeFrame DEF clientVars

\* The server's table.
ListedOK ==
    /\ \A n \in Number : channels[n] # None => Active(channels[n]) /\ num[channels[n]] = n
    /\ \A c \in Conn : visit[c] = "routed" => channels[num[c]] = c \/ bridge = "gone"
    /\ bridge = "gone" => \A n \in Number : channels[n] = None

LEMMA Unlisted ==
    ASSUME ChannelsInv, NEW c \in Spoken, Unlist(num[c]), num' = num, bridge' = bridge,
           visit' = visit \/ visit' = [visit EXCEPT ![c] = "done"], visit'[c] # "routed"
    PROVE  ListedOK'
  <1>0. /\ channels \in [Number -> Conn \union {None}] /\ visit \in [Conn -> {"new", "routed", "carried", "done"}]
        /\ ListedOK /\ c \in Conn /\ num[c] \in Number /\ None \notin Conn
        /\ \A d \in Conn : visit[d] # "new" => num[d] \in Number
    BY SpokenIs, ConstantsAre DEF ChannelsInv, ChannelsTypeOK, BridgeTypes, VisitorTypes, Tables, ListedOK
  <1>1. \A n \in Number : channels'[n] = IF n = num[c] THEN None ELSE channels[n]
    BY <1>0 DEF Unlist
  <1>2. \A d \in Conn : d # c => visit'[d] = visit[d]
    BY <1>0
  <1>3. ASSUME NEW n \in Number, channels'[n] # None PROVE visit'[channels'[n]] \in {"routed", "carried"} /\ num'[channels'[n]] = n
    BY <1>0, <1>1, <1>2, <1>3 DEF ListedOK, Active
  <1>4. ASSUME NEW d \in Conn, visit'[d] = "routed" PROVE channels'[num'[d]] = d \/ bridge' = "gone"
    <2>1. d # c /\ visit[d] = "routed"
      BY <1>2, <1>4
    <2>2. d \in Spoken
      BY <2>1 DEF Spoken, Active
    <2>3. num[d] # num[c]
      BY <2>1, <2>2 DEF ChannelsInv, Tables
    <2> QED
      BY <1>0, <1>1, <2>1, <2>3 DEF ListedOK
  <1> QED
    BY <1>0, <1>1, <1>3, <1>4 DEF ListedOK, Active

LEMMA ListedKept ==
    ASSUME ChannelsInv, ChannelsNext, ~clash', \A c \in Conn : ~Route(c)
    PROVE  ListedOK'
  <1>0. /\ channels \in [Number -> Conn \union {None}] /\ visit \in [Conn -> {"new", "routed", "carried", "done"}]
        /\ ListedOK /\ None \notin Conn /\ num' = num
    BY Ages, ConstantsAre DEF ChannelsInv, ChannelsTypeOK, BridgeTypes, VisitorTypes, Tables, ListedOK
  <1>1. ASSUME UNCHANGED <<channels, visit>>, bridge' = "gone" <=> bridge = "gone" PROVE ListedOK'
    BY <1>0, <1>1 DEF ListedOK, Active
  <1>2. ASSUME NEW c \in Conn, VisitorStep(c) PROVE ListedOK'
    <2>0. bridge' = bridge
      BY <1>2, VisitorFrame
    <2>1. CASE Carry(c)
      <3>1. visit' = [visit EXCEPT ![c] = "carried"] /\ visit[c] = "routed" /\ channels' = channels
        BY <2>1 DEF Carry
      <3>2. ASSUME NEW n \in Number, channels[n] # None PROVE visit'[channels[n]] \in {"routed", "carried"} /\ num[channels[n]] = n
        BY <1>0, <3>1, <3>2 DEF ListedOK, Active
      <3>3. \A d \in Conn : visit'[d] = "routed" => visit[d] = "routed"
        BY <1>0, <3>1
      <3> QED
        BY <1>0, <2>0, <3>1, <3>2, <3>3 DEF ListedOK, Active
    <2>2. CASE Refuse(c) \/ Ended(c) \/ Idle(c)
      <3>1. Unlist(num[c]) /\ visit' = [visit EXCEPT ![c] = "done"] /\ visit[c] \in {"routed", "carried"}
        BY <2>2 DEF Refuse, Ended, Idle, Over
      <3>2. c \in Spoken /\ visit'[c] = "done"
        BY <1>0, <3>1 DEF Spoken, Active
      <3> QED
        BY <1>0, <2>0, <3>1, <3>2, Unlisted
    <2>3. CASE UploadError(c) \/ WriteError(c)
      <3>1. Unlist(num[c]) /\ visit' = visit /\ visit[c] = "carried"
        BY <2>3 DEF UploadError, WriteError, Uploading, Downloading
      <3>2. c \in Spoken /\ visit'[c] # "routed"
        BY <3>1 DEF Spoken, Active
      <3> QED
        BY <1>0, <2>0, <3>1, <3>2, Unlisted
    <2>4. CASE Upload(c) \/ UploadEnd(c) \/ UploadAborted(c)
      BY <1>1, <2>0, <2>4 DEF Upload, UploadEnd, UploadAborted, Uploading
    <2>5. CASE Written(c) \/ Progress(c) \/ DownloadEnd(c) \/ DownloadAborted(c)
      BY <1>1, <2>0, <2>5 DEF Written, Progress, DownloadEnd, DownloadAborted, Downloading
    <2> QED
      BY <1>2, <2>1, <2>2, <2>3, <2>4, <2>5 DEF VisitorStep
  <1>3. CASE ReadStep
    <2>0. bridge' = bridge /\ visit' = visit
      BY <1>3, ReadFrame DEF visitorVars
    <2>1. CASE ReadEnd \/ ReadReset
      <3>1. Arrived.t \in {"end", "reset"} /\ channels[Arrived.n] # None /\ Unlist(Arrived.n)
        BY <2>1 DEF ReadEnd, ReadReset
      <3>2. Arrived.c \in Spoken /\ Told(Arrived.c) /\ Arrived.n = num[Arrived.c]
        BY <1>3, <3>1, ArrivedIs, MeansIs
      <3>3. visit'[Arrived.c] # "routed"
        BY <2>0, <3>2 DEF Told
      <3> QED
        BY <1>0, <2>0, <3>1, <3>2, <3>3, Unlisted
    <2> QED
      BY <1>1, <1>3, <2>0, <2>1 DEF ReadStep, Ignore, ReadPing, ReadData
  <1>4. CASE ReaderStep
    <2>0. bridge' = bridge /\ visit' = visit
      BY <1>4, ReaderFrame DEF visitorVars
    <2>1. channels' = channels \/ \E c \in WithReader : Unlist(num[c])
      <3>1. CASE WaitEnds \/ Stall \/ Tell
        BY <3>1 DEF WaitEnds, Stall, Tell
      <3>2. CASE ResetStalled
        <4>1. PICK c \in reader.todo : Unlist(num[c])
          BY <3>2 DEF ResetStalled, Reset
        <4>2. c \in WithReader
          BY <1>0 DEF WithReader, ChannelsInv, ChannelsTypeOK, ReaderTypes
        <4> QED
          BY <4>1, <4>2
      <3>3. CASE LastTry
        <4>1. reader.c \in WithReader
          BY <3>3 DEF LastTry, ChannelsInv, Phases, WithReader
        <4> QED
          BY <3>3, <4>1 DEF LastTry, Reset
      <3> QED
        BY <1>4, <3>1, <3>2, <3>3 DEF ReaderStep
    <2>2. ASSUME NEW c \in WithReader, Unlist(num[c]) PROVE ListedOK'
      <3>1. c \in Spoken /\ Told(c)
        BY DEF Spoken, ChannelsInv, Tables
      <3>2. visit'[c] # "routed"
        BY <2>0, <3>1 DEF Told
      <3> QED
        BY <1>0, <2>0, <2>2, <3>1, <3>2, Unlisted
    <2> QED
      BY <1>1, <2>0, <2>1, <2>2
  <1>5. CASE BridgeStep
    <2>1. CASE CloseBridge
      <3>1. bridge' = "gone" /\ channels' = [n \in DOMAIN channels |-> None]
        BY <2>1 DEF CloseBridge
      <3> QED
        BY <1>0, <3>1 DEF ListedOK
    <2>2. CASE KeepAlive \/ Lose \/ Drain
      <3>1. UNCHANGED <<channels, visit>> /\ (bridge' = "gone" <=> bridge = "gone")
        BY <2>2 DEF KeepAlive, Lose, Drain, Open, visitorVars
      <3> QED
        BY <1>1, <3>1
    <2> QED
      BY <1>5, <2>1, <2>2 DEF BridgeStep
  <1>6. CASE HearStep \/ ClientStep
    BY <1>1, <1>6, HearFrame, ClientFrame DEF visitorVars
  <1>7. CASE SessionEnds
    <2>1. bridge' = "gone" <=> bridge = "gone"
      BY <1>7 DEF SessionEnds
    <2> QED
      BY <1>1, <1>7, <2>1, SessionFrame DEF visitorVars
  <1> QED
    BY <1>2, <1>3, <1>4, <1>5, <1>6, <1>7, Steps

\* No step but Route speaks of a connection that was not spoken of.
LEMMA SpokenKept ==
    ASSUME ChannelsInv, ChannelsNext, ~clash', \A c \in Conn : ~Route(c)
    PROVE  Spoken' \subseteq Spoken
  <1>1. \A m \in Underway : m.c # None => m.c \in Spoken
    BY MeansIs
  <1>2. \A m \in Underway' : m.c # None => m.c \in Spoken
    BY <1>1, UnderwayKept DEF Fair
  <1>3. \A c \in Conn : Active(c)' => c \in Spoken
    BY Ages DEF Spoken
  <1> QED
    BY <1>2, <1>3, WithReaderKept, ServedKept DEF Spoken

LEMMA TablesKept ==
    ASSUME ChannelsInv, ChannelsNext, ~clash', \A c \in Conn : ~Route(c)
    PROVE  Tables'
  <1>1. \A c \in Conn : visit'[c] # "new" => num'[c] \in Number
    BY Ages DEF ChannelsInv, Tables
  <1>2. \A m \in Underway' : Sound(m)'
    <2> TAKE m \in Underway'
    <2>1. CASE m \in Underway
      <3>1. m.c # None => Told(m.c)'
        BY <2>1, MeansIs, Ages
      <3> QED
        BY <2>1, <3>1, MeansIs, Ages DEF Sound
    <2>2. CASE Fair(m)
      BY <2>2, Ages DEF Fair, Sound, Told
    <2> QED
      BY <2>1, <2>2, UnderwayKept
  <1>3. \A c, d \in Spoken' : num'[c] = num'[d] => c = d
    BY SpokenKept, Ages DEF ChannelsInv, Tables
  <1> QED
    BY <1>1, <1>2, <1>3, ListedKept, ServedKept, WithReaderKept DEF Tables, ListedOK, ServedOK

LEMMA RouteIs ==
    ASSUME ChannelsInv, NEW c \in Conn, Route(c), ~clash'
    PROVE  /\ visit[c] = "new" /\ c \notin Spoken /\ visit' = [visit EXCEPT ![c] = "routed"]
           /\ \E n \in Number : /\ channels[n] = None /\ served[n] = None /\ \A d \in Spoken : num[d] # n
                                /\ num' = [num EXCEPT ![c] = n] /\ channels' = [channels EXCEPT ![n] = c]
           /\ bridge # "gone" /\ visitors' = visitors + 1
           /\ UNCHANGED <<up, down, vis, got, sent, vend, finishVars, heldVars, outVars, clientVars, bridge, reader>>
  <1>0. PICK taken \in Elsewhere, i \in 0 .. Numbers - 1 :
            /\ Usable(Candidate(i), taken)
            /\ num' = [num EXCEPT ![c] = Candidate(i)]
            /\ channels' = [channels EXCEPT ![Candidate(i)] = c]
            /\ clash' = (clash \/ Lingers(Candidate(i)))
    BY Zenon DEF Route
  <1>1. /\ Usable(Candidate(i), taken) /\ ~Lingers(Candidate(i))
        /\ num' = [num EXCEPT ![c] = Candidate(i)]
        /\ channels' = [channels EXCEPT ![Candidate(i)] = c]
    BY <1>0, Zenon
  <1>2. PICK n : n = Candidate(i)
    OBVIOUS
  <1>3. n \in Number /\ channels[n] = None /\ ~Lingers(n)
    <2>1. sequence \in Nat /\ Numbers \in Nat \ {0, 1}
      BY ConstantsAre DEF ChannelsInv, ChannelsTypeOK, BridgeTypes
    <2>2. n \in 0 .. Numbers - 1 /\ n # 0
      BY <1>1, <1>2, <2>1 DEF Candidate, Usable
    <2> QED
      BY <1>1, <1>2, <2>1, <2>2 DEF Number, Usable
  <1>4. /\ visit[c] = "new" /\ visit' = [visit EXCEPT ![c] = "routed"] /\ bridge # "gone" /\ visitors' = visitors + 1
        /\ UNCHANGED <<up, down, vis, got, sent, vend, finishVars, heldVars, outVars, clientVars, bridge, reader>>
    BY DEF Route
  <1>5. c \notin Spoken
    BY <1>4, SpokenIs
  <1>6. served[n] = None
    BY <1>3 DEF Lingers
  <1>7. ASSUME NEW d \in Spoken, num[d] = n PROVE FALSE
    <2>0. d \in Conn /\ d # None
      BY SpokenIs, ConstantsAre
    <2>1. ~Active(d)
      BY <1>3, <1>4, <1>7, <2>0 DEF Lingers, Active, ChannelsInv, Tables
    <2>2. d \notin Range(served) \ {None}
      BY <1>6, <1>7, <2>0, ServedIs
    <2>3. ASSUME NEW m \in Underway, m.c = d PROVE FALSE
      <3>1. m.n = n
        BY <1>7, <2>0, <2>3, MeansIs
      <3> QED
        BY <1>3, <3>1 DEF Lingers, Underway
    <2>4. d \notin WithReader
      <3>1. d # reader.c /\ d \notin reader.todo
        BY <1>3, <1>7, <2>0 DEF Lingers
      <3>2. d # reader.tell.c
        <4>1. Sound(reader.tell) /\ reader.tell.n # n
          BY <1>3 DEF Lingers, ChannelsInv, Tables
        <4> QED
          BY <1>7, <2>0, <4>1 DEF Sound
      <3> QED
        BY <3>1, <3>2 DEF WithReader
    <2> QED
      BY <2>1, <2>2, <2>3, <2>4 DEF Spoken
  <1> QED
    BY <1>1, <1>2, <1>3, <1>4, <1>5, <1>6, <1>7

LEMMA TablesRoute ==
    ASSUME ChannelsInv, NEW c \in Conn, Route(c), ~clash'
    PROVE  Tables'
  <1>0. /\ visit \in [Conn -> {"new", "routed", "carried", "done"}] /\ num \in [Conn -> Nat]
        /\ channels \in [Number -> Conn \union {None}] /\ served \in [Number -> Conn \union {None}]
        /\ task \in [Conn -> {"off", "run", "ended", "failed", "done"}]
        /\ None \notin Conn /\ Tables
    BY ConstantsAre DEF ChannelsInv, ChannelsTypeOK, BridgeTypes, VisitorTypes, ClientTypes
  <1>1. /\ visit[c] = "new" /\ c \notin Spoken /\ visit' = [visit EXCEPT ![c] = "routed"]
        /\ bridge # "gone" /\ bridge' = bridge /\ served' = served /\ task' = task /\ reader' = reader
        /\ outbound' = outbound /\ controls' = controls /\ datas' = datas
    BY RouteIs DEF clientVars, outVars
  <1>2. PICK n \in Number : /\ channels[n] = None /\ served[n] = None /\ \A d \in Spoken : num[d] # n
                            /\ num' = [num EXCEPT ![c] = n] /\ channels' = [channels EXCEPT ![n] = c]
    BY RouteIs
  <1>3. \A d \in Conn : d # c => visit'[d] = visit[d] /\ num'[d] = num[d]
    BY <1>0, <1>1, <1>2
  <1>4. visit'[c] = "routed" /\ num'[c] = n /\ ~Told(c)
    BY <1>0, <1>1, <1>2 DEF Told
  <1>5. Underway' = Underway /\ WithReader' = WithReader
    BY <1>1 DEF Underway, WithReader
  <1>6. Spoken' \subseteq Spoken \union {c}
    <2>1. \A d \in Conn : Active(d)' => d \in Spoken \union {c}
      BY <1>3 DEF Spoken, Active
    <2> QED
      BY <1>1, <1>5, <2>1 DEF Spoken
  <1>7. \A d \in Spoken : d \in Conn /\ d # c /\ num[d] # n
    BY <1>1, <1>2, SpokenIs
  <1>8. \A d, e \in Spoken' : num'[d] = num'[e] => d = e
    BY <1>0, <1>3, <1>4, <1>6, <1>7 DEF Tables
  <1>9. \A d \in Conn : Told(d) => Told(d)' /\ num'[d] = num[d] /\ d # c
    BY <1>3, <1>4 DEF Told
  <1>10. \A m \in Underway' : Sound(m)'
    <2> TAKE m \in Underway'
    <2>1. m \in Underway
      BY <1>5
    <2>2. m.c # None => Told(m.c)' /\ num'[m.c] = num[m.c]
      BY <1>9, <2>1, MeansIs
    <2> QED
      BY <2>1, <2>2, MeansIs DEF Sound
  <1>11. Sound(reader.tell)'
    <2>1. reader.tell.c # None => reader.tell.c \in WithReader /\ reader.tell.c \in Spoken
      BY DEF WithReader, Spoken
    <2>2. reader.tell.c # None => reader.tell.c \in Conn /\ Told(reader.tell.c)
      BY <1>0, <1>7, <2>1 DEF Tables
    <2>3. reader.tell.c # None => visit'[reader.tell.c] \in {"carried", "done"} /\ num'[reader.tell.c] = num[reader.tell.c]
      BY <1>9, <2>2 DEF Told
    <2> QED
      BY <1>0, <1>1, <2>3 DEF Tables, Sound, Told
  <1>12. \A d \in WithReader' : Told(d)'
    <2>1. \A d \in WithReader : d \in Spoken /\ Told(d)
      BY <1>0 DEF Spoken, Tables
    <2> QED
      BY <1>5, <1>7, <1>9, <2>1
  <1>13. ASSUME NEW l \in Number, channels'[l] # None PROVE visit'[channels'[l]] \in {"routed", "carried"} /\ num'[channels'[l]] = l
    <2>1. CASE l = n
      BY <1>0, <1>2, <1>4, <2>1
    <2>2. CASE l # n
      <3>1. channels'[l] = channels[l] /\ channels[l] \in Conn /\ Active(channels[l]) /\ num[channels[l]] = l
        BY <1>0, <1>2, <1>13, <2>2 DEF Tables
      <3>2. channels[l] # c
        BY <1>1, <3>1 DEF Active
      <3> QED
        BY <1>3, <3>1, <3>2 DEF Active
    <2> QED
      BY <2>1, <2>2
  <1>14. ASSUME NEW d \in Conn, visit'[d] = "routed" PROVE channels'[num'[d]] = d \/ bridge' = "gone"
    <2>1. CASE d = c
      BY <1>0, <1>2, <1>4, <2>1
    <2>2. CASE d # c
      <3>1. d \in Spoken /\ visit[d] = "routed" /\ num'[d] = num[d]
        BY <1>3, <1>14, <2>2 DEF Spoken, Active
      <3>2. num[d] # n /\ num[d] \in Number
        BY <1>2, <3>1, SpokenIs
      <3> QED
        BY <1>0, <1>1, <1>2, <3>1, <3>2 DEF Tables
    <2> QED
      BY <2>1, <2>2
  <1>15. ASSUME NEW l \in Number, served'[l] # None
         PROVE  num'[served'[l]] = l /\ visit'[served'[l]] \in {"carried", "done"} /\ task'[served'[l]] \in {"run", "ended", "failed"}
    <2>1. served[l] \in Conn /\ num[served[l]] = l /\ Told(served[l]) /\ task[served[l]] \in {"run", "ended", "failed"}
      BY <1>0, <1>1, <1>15 DEF Tables
    <2> QED
      BY <1>1, <1>9, <2>1 DEF Told
  <1>16. ASSUME NEW d \in Conn, task'[d] \in {"run", "ended", "failed"} PROVE Told(d)' /\ served'[num'[d]] = d
    BY <1>0, <1>1, <1>9, <1>16 DEF Tables
  <1>17. \A d \in Conn : visit'[d] # "new" => num'[d] \in Number
    BY <1>0, <1>3, <1>4 DEF Tables
  <1> QED
    BY <1>1, <1>8, <1>10, <1>11, <1>12, <1>13, <1>14, <1>15, <1>16, <1>17 DEF Tables, Active, Told

-----------------------------------------------------------------------------
(* Where each connection is. *)

ReaderPhase ==
    /\ reader.at = "read" => reader = Reading
    /\ reader.at \in {"wait", "stall"} => reader.c # None
    /\ reader.c # None => reader.x \in Item /\ reader.x[2] # 0
    /\ reader.tell.t \in {"none", "pong", "reset"}

LEMMA ReaderPhaseKept ==
    ASSUME ChannelsInv, ChannelsNext, ~clash'
    PROVE  ReaderPhase'
  <1>0. ReaderTypes /\ ReaderPhase /\ None \notin Conn
    BY ConstantsAre DEF ChannelsInv, ChannelsTypeOK, Phases, ReaderPhase
  <1>1. CASE reader' = reader
    BY <1>0, <1>1 DEF ReaderPhase
  <1>2. CASE reader' = Reading
    BY <1>2, ReadingIs DEF ReaderPhase, Signal
  <1>3. CASE ReadPing
    <2>1. reader' = [Reading EXCEPT !.at = "tell", !.tell = Signal("pong")]
      BY <1>3 DEF ReadPing
    <2>2. reader'.at = "tell" /\ reader'.c = None /\ reader'.tell.t = "pong"
      BY <2>1 DEF Reading, Signal
    <2> QED
      BY <2>2 DEF ReaderPhase
  <1>4. CASE ReadData
    <2>1. ReadStep /\ Arrived.t = "data" /\ channels[Arrived.n] # None
      BY <1>4 DEF ReadData, ReadStep
    <2>2. <<Arrived.c, Arrived.k>> \in Item /\ <<Arrived.c, Arrived.k>>[2] # 0
      BY <2>1, ArrivedIs DEF Item, Sound
    <2>3. reader' = reader \/ reader' = [Reading EXCEPT !.at = "wait", !.c = channels[Arrived.n], !.x = <<Arrived.c, Arrived.k>>]
      BY <1>4 DEF ReadData
    <2>4. CASE reader' = [Reading EXCEPT !.at = "wait", !.c = channels[Arrived.n], !.x = <<Arrived.c, Arrived.k>>]
      <3>1. reader'.at = "wait" /\ reader'.c = channels[Arrived.n] /\ reader'.x = <<Arrived.c, Arrived.k>> /\ reader'.tell.t = "none"
        BY <2>4 DEF Reading, Signal
      <3> QED
        BY <2>1, <2>2, <3>1 DEF ReaderPhase
    <2> QED
      BY <1>1, <2>3, <2>4
  <1>5. CASE Stall
    <2>1. reader.at = "wait" /\ reader'.at = "stall" /\ reader'.c = reader.c /\ reader'.x = reader.x /\ reader'.tell = reader.tell
      BY <1>0, <1>5 DEF Stall, ReaderTypes
    <2> QED
      BY <1>0, <2>1 DEF ReaderPhase
  <1>6. ASSUME NEW c, NEW todo, NEW stays \in {reader.c, None}, Reset(c, todo, stays) PROVE ReaderPhase'
    <2>1. reader'.at = "tell" /\ reader'.c = stays /\ reader'.x = reader.x /\ reader'.tell.t = "reset"
      BY <1>6 DEF Reset, Message
    <2> QED
      BY <1>0, <1>6, <2>1 DEF ReaderPhase
  <1>7. CASE ResetStalled \/ LastTry
    BY <1>2, <1>6, <1>7 DEF ResetStalled, LastTry
  <1>8. CASE Tell
    <2>1. CASE reader.c = None
      BY <1>2, <1>8, <2>1 DEF Tell
    <2>2. CASE reader.c # None
      <3>1. reader' = [reader EXCEPT !.at = "stall", !.tell = Signal("none")]
        BY <1>8, <2>2 DEF Tell
      <3>2. reader'.at = "stall" /\ reader'.c = reader.c /\ reader'.x = reader.x /\ reader'.tell.t = "none"
        BY <1>0, <3>1 DEF ReaderTypes, Signal
      <3> QED
        BY <1>0, <2>2, <3>2 DEF ReaderPhase
    <2> QED
      BY <2>1, <2>2
  <1>10. CASE ReadStep \/ ReaderStep \/ BridgeStep
    <2>1. CASE Ignore \/ ReadEnd \/ ReadReset \/ KeepAlive \/ Lose \/ Drain
      BY <1>1, <2>1 DEF Ignore, ReadEnd, ReadReset, KeepAlive, Lose, Drain
    <2>2. CASE WaitEnds \/ CloseBridge
      BY <1>2, <2>2 DEF WaitEnds, CloseBridge
    <2> QED
      BY <1>3, <1>4, <1>5, <1>7, <1>8, <1>10, <2>1, <2>2 DEF ReadStep, ReaderStep, BridgeStep
  <1> QED
    BY <1>1, <1>10, Steps, VisitorFrame, HearFrame, ClientFrame, SessionFrame

\* A queue whose writer is gone is empty, and stays so.
LEMMA ClosedKept ==
    ASSUME ChannelsInv, ChannelsNext, ~clash'
    PROVE  ~Open' => outbound' = <<>>
  <1>0. ~Open => outbound = <<>>
    BY DEF ChannelsInv, Phases
  <1>1. ASSUME bridge' = bridge, Open \/ outbound' = outbound PROVE ~Open' => outbound' = <<>>
    BY <1>0, <1>1 DEF Open
  <1>2. ASSUME NEW c \in Conn, VisitorStep(c) PROVE bridge' = bridge /\ (Open \/ outbound' = outbound)
    <2>1. bridge' = bridge
      BY <1>2, VisitorFrame
    <2>2. CASE Route(c) \/ Refuse(c) \/ UploadAborted(c) \/ Written(c) \/ Progress(c) \/ DownloadEnd(c) \/ DownloadAborted(c) \/ Ended(c)
      BY <2>1, <2>2 DEF Route, Refuse, UploadAborted, Written, Progress, DownloadEnd, DownloadAborted, Ended, outVars
    <2>3. CASE Carry(c) \/ Upload(c) \/ UploadEnd(c)
      BY <2>1, <2>3 DEF Carry, Upload, UploadEnd, Send
    <2>4. CASE UploadError(c) \/ WriteError(c) \/ Idle(c)
      BY <2>1, <2>4 DEF UploadError, WriteError, Idle, TrySendReset
    <2> QED
      BY <1>2, <2>2, <2>3, <2>4 DEF VisitorStep
  <1>3. CASE ReadStep
    BY <1>1, <1>3, ReadFrame DEF outVars
  <1>4. CASE ReaderStep
    <2>1. bridge' = bridge
      BY <1>4, ReaderFrame
    <2>2. Open \/ outbound' = outbound
      BY <1>4 DEF ReaderStep, WaitEnds, Stall, ResetStalled, LastTry, Tell, outVars, Send
    <2> QED
      BY <1>1, <2>1, <2>2
  <1>5. CASE BridgeStep
    BY <1>0, <1>1, <1>5 DEF BridgeStep, KeepAlive, Lose, Drain, CloseBridge, DropOutbound, Open
  <1>6. CASE HearStep \/ ClientStep
    BY <1>1, <1>6, HearFrame, ClientFrame
  <1>7. CASE SessionEnds
    BY <1>7 DEF SessionEnds, DropOutbound
  <1> QED
    BY <1>1, <1>2, <1>3, <1>4, <1>5, <1>6, <1>7, Steps

VisitPhase(c) ==
    /\ visit[c] = "carried" => up[c] # "off" /\ down[c] # "off" /\ sent[c] > 0
    /\ visit[c] # "carried" => up[c] = "off" /\ down[c] = "off"
    /\ visit[c] \in {"new", "routed"} => got[c] = <<>> /\ vis[c] = "open" /\ sent[c] = 0 /\ c \notin vend
ControlsPhase == \A m \in Range(controls) : m.t \in {"reset", "ping", "pong"}
FinishPhase == \A c \in Conn : visit[c] = "new" => c \notin finished

LEMMA VisitPhaseKept ==
    ASSUME ChannelsInv, ChannelsNext, ~clash'
    PROVE  \A c \in Conn : VisitPhase(c)'
  <1>0. VisitorTypes /\ \A c \in Conn : VisitPhase(c)
    BY DEF ChannelsInv, ChannelsTypeOK, Phases, VisitPhase
  <1> USE DEF VisitorTypes, VisitPhase
  <1>1. CASE UNCHANGED visitorVars
    BY <1>0, <1>1 DEF visitorVars
  <1>2. ASSUME NEW c \in Conn, Route(c) PROVE \A d \in Conn : VisitPhase(d)'
    <2>1. visit[c] = "new" /\ visit' = [visit EXCEPT ![c] = "routed"] /\ UNCHANGED <<up, down, vis, got, sent, vend>>
      BY <1>2 DEF Route
    <2> QED
      BY <1>0, <2>1
  <1>3. ASSUME NEW c \in Conn, Carry(c) PROVE \A d \in Conn : VisitPhase(d)'
    <2>1. visit[c] = "routed" /\ visit' = [visit EXCEPT ![c] = "carried"] /\ UNCHANGED <<vis, got, vend>>
          /\ up' = [up EXCEPT ![c] = "run"] /\ down' = [down EXCEPT ![c] = "run"] /\ sent' = [sent EXCEPT ![c] = 1]
      BY <1>3 DEF Carry
    <2>2. VisitPhase(c)'
      BY <1>0, <2>1
    <2>3. ASSUME NEW d \in Conn, d # c PROVE VisitPhase(d)'
      BY <1>0, <2>1, <2>3
    <2> QED
      BY <2>2, <2>3
  <1>4. ASSUME NEW c \in Conn, Refuse(c) PROVE \A d \in Conn : VisitPhase(d)'
    <2>1. visit[c] = "routed" /\ visit' = [visit EXCEPT ![c] = "done"] /\ UNCHANGED <<up, down, vis, got, sent, vend>>
      BY <1>4 DEF Refuse
    <2> QED
      BY <1>0, <2>1
  <1>5. ASSUME NEW c \in Conn, Upload(c) \/ UploadEnd(c) \/ UploadError(c) \/ UploadAborted(c) PROVE \A d \in Conn : VisitPhase(d)'
    <2>1. /\ visit[c] = "carried" /\ UNCHANGED <<visit, down, vis, got>>
          /\ \E s \in {"run", "done"} : up' = [up EXCEPT ![c] = s]
          /\ sent' = sent \/ sent' = [sent EXCEPT ![c] = @ + 1]
          /\ vend' = vend \/ vend' = vend \union {c}
      <3>1. CASE Upload(c)
        BY <3>1 DEF Upload, Uploading
      <3>2. CASE UploadEnd(c) \/ UploadError(c) \/ UploadAborted(c)
        BY <3>2 DEF UploadEnd, UploadError, UploadAborted, Uploading
      <3> QED
        BY <1>5, <3>1, <3>2
    <2>2. VisitPhase(c)'
      BY <1>0, <2>1
    <2>3. ASSUME NEW d \in Conn, d # c PROVE VisitPhase(d)'
      BY <1>0, <2>1, <2>3
    <2> QED
      BY <2>2, <2>3
  <1>6. ASSUME NEW c \in Conn, Written(c) \/ Progress(c) \/ WriteError(c) \/ DownloadEnd(c) \/ DownloadAborted(c)
        PROVE  \A d \in Conn : VisitPhase(d)'
    <2>1. /\ visit[c] = "carried" /\ UNCHANGED <<visit, up, sent, vend>>
          /\ \E s \in {"run", "done"} : down' = [down EXCEPT ![c] = s]
          /\ \A d \in Conn : d # c => got'[d] = got[d] /\ vis'[d] = vis[d]
      <3>1. CASE Written(c)
        BY <1>0, <3>1 DEF Written, Downloading
      <3>2. CASE Progress(c) \/ WriteError(c) \/ DownloadAborted(c)
        BY <3>2 DEF Progress, WriteError, DownloadAborted, Downloading
      <3>3. CASE DownloadEnd(c)
        BY <1>0, <3>3 DEF DownloadEnd, Downloading
      <3> QED
        BY <1>6, <3>1, <3>2, <3>3
    <2>2. VisitPhase(c)'
      BY <1>0, <2>1
    <2>3. ASSUME NEW d \in Conn, d # c PROVE VisitPhase(d)'
      BY <1>0, <2>1, <2>3
    <2> QED
      BY <2>2, <2>3
  <1>7. ASSUME NEW c \in Conn, Ended(c) \/ Idle(c) PROVE \A d \in Conn : VisitPhase(d)'
    <2>1. /\ visit' = [visit EXCEPT ![c] = "done"]
          /\ up' = [up EXCEPT ![c] = "off"] /\ down' = [down EXCEPT ![c] = "off"]
          /\ (\A d \in Conn : d # c => vis'[d] = vis[d]) /\ UNCHANGED <<got, sent, vend>>
      BY <1>0, <1>7 DEF Ended, Idle, Over
    <2>2. VisitPhase(c)'
      BY <1>0, <2>1
    <2>3. ASSUME NEW d \in Conn, d # c PROVE VisitPhase(d)'
      BY <1>0, <2>1, <2>3
    <2> QED
      BY <2>2, <2>3
  <1>8. CASE \E c \in Conn : VisitorStep(c)
    BY <1>2, <1>3, <1>4, <1>5, <1>6, <1>7, <1>8 DEF VisitorStep
  <1>9. CASE ReadStep \/ ReaderStep \/ BridgeStep \/ HearStep \/ ClientStep \/ SessionEnds
    BY <1>1, <1>9, ReadFrame, ReaderFrame, BridgeFrame, HearFrame, ClientFrame, SessionFrame
  <1> QED
    BY <1>8, <1>9, Steps

ClientPhase(c) ==
    /\ visit[c] \in {"new", "routed"} => task[c] = "off"
    /\ task[c] = "off" =>
         tgot[c] = <<>> /\ local[c] = <<>> /\ tsent[c] = 0 /\ c \notin tfin \union tend
    /\ c \in tend => task[c] # "run"
CreaderPhase == creader # None => task[creader[1]] # "off"

LEMMA OpeningIs ==
    ASSUME ChannelsInv, outbound # <<>>, Head(outbound).t = "open"
    PROVE  Head(outbound).c \in Conn /\ Opening(Head(outbound).c) /\ task[Head(outbound).c] = "off"
  <1>1. Head(outbound).c \in Conn
    BY HeadIs, MeansIs
  <1>2. 1 \in 1 .. Len(outbound) /\ Head(outbound) = outbound[1]
    BY TailIs DEF ChannelsInv, ChannelsTypeOK, QueueTypes
  <1>3. Opening(Head(outbound).c)
    BY <1>2 DEF Opening, IsOpen
  <1> QED
    BY <1>1, <1>3 DEF ChannelsInv, UpOK

LEMMA ClientPhaseKept ==
    ASSUME ChannelsInv, ChannelsNext, ~clash'
    PROVE  CreaderPhase' /\ \A c \in Conn : ClientPhase(c)'
  <1>0. /\ ClientTypes /\ CreaderPhase /\ creader \in (Conn \X Item) \union {None}
        /\ \A c \in Conn : ClientPhase(c)
    BY DEF ChannelsInv, ChannelsTypeOK, Phases, ClientPhase, CreaderPhase, QueueTypes
  <1> USE DEF ClientTypes, ClientPhase
  <1>v. \A d \in Conn : visit'[d] \in {"new", "routed"} => visit[d] \in {"new", "routed"}
    <2>1. CASE \E c \in Conn : Route(c)
      <3>1. PICK c \in Conn : visit[c] = "new" /\ visit' = [visit EXCEPT ![c] = "routed"]
        BY <2>1 DEF Route
      <3> QED
        BY <3>1 DEF ChannelsInv, ChannelsTypeOK, VisitorTypes
    <2>2. CASE \A c \in Conn : ~Route(c)
      BY <2>2, Ages DEF Told, ChannelsInv, ChannelsTypeOK, VisitorTypes
    <2> QED
      BY <2>1, <2>2
  <1>1. ASSUME UNCHANGED <<task, local, tgot, tsent, tfin, tend>> PROVE \A c \in Conn : ClientPhase(c)'
    BY <1>0, <1>1, <1>v
  <1>2. ASSUME UNCHANGED <<task, creader>> PROVE CreaderPhase'
    BY <1>0, <1>2 DEF CreaderPhase
  <1>3. CASE AcceptOpen
    <2>1. PICK c \in Conn : c = Arriving.c /\ task[c] = "off"
      BY <1>3, OpeningIs DEF AcceptOpen, Receive, Arriving
    <2>2. task' = [task EXCEPT ![c] = "run"] /\ UNCHANGED <<local, tgot, tsent, tfin, tend>> /\ creader' = None
      BY <1>3, <2>1 DEF AcceptOpen, Receive
    <2>3. Told(c) /\ visit' = visit
      BY <1>3, <2>1, HeadIs, MeansIs DEF AcceptOpen, Receive, Arriving, ServerSide, visitorVars
    <2>4. \A d \in Conn : ClientPhase(d)'
      BY <1>0, <1>v, <2>1, <2>2, <2>3 DEF Told
    <2> QED
      BY <2>2, <2>4 DEF CreaderPhase
  <1>4. ASSUME NEW c \in Conn, Leave(c, "done"), task[c] # "off" PROVE \A d \in Conn : ClientPhase(d)' /\ (task'[d] = "off" <=> task[d] = "off")
    <2>1. /\ task' = [task EXCEPT ![c] = "done"] /\ local' = [local EXCEPT ![c] = <<>>]
          /\ UNCHANGED <<tgot, tfin, tsent, tend>>
      BY <1>4 DEF Leave
    <2>2. visit[c] \notin {"new", "routed"}
      BY <1>0, <1>4
    <2>3. ClientPhase(c)'
      BY <1>0, <1>v, <2>1, <2>2
    <2>4. ASSUME NEW d \in Conn, d # c PROVE ClientPhase(d)'
      BY <1>0, <1>v, <2>1, <2>4
    <2>5. \A d \in Conn : task'[d] = "off" <=> task[d] = "off"
      BY <1>0, <1>4, <2>1
    <2> QED
      BY <2>3, <2>4, <2>5
  <1>5. ASSUME NEW c \in Conn, task[c] # "off", UNCHANGED task,
               \A d \in Conn : d # c => local'[d] = local[d] /\ tgot'[d] = tgot[d] /\ tsent'[d] = tsent[d] /\ (d \in tfin' => d \in tfin),
               tend' = tend
        PROVE  \A d \in Conn : ClientPhase(d)'
    <2>1. visit[c] \notin {"new", "routed"}
      BY <1>0, <1>5
    <2>2. ClientPhase(c)'
      BY <1>0, <1>5, <1>v, <2>1
    <2>3. ASSUME NEW d \in Conn, d # c PROVE ClientPhase(d)'
      BY <1>0, <1>5, <1>v, <2>3
    <2> QED
      BY <2>2, <2>3
  <1>6. CASE Deliver
    <2>1. UNCHANGED <<task, tgot, tsent, tfin, tend>>
      BY <1>6 DEF Deliver
    <2>2. /\ Arriving.n \in DOMAIN served /\ served[Arriving.n] \in Conn \union {None}
          /\ (served[Arriving.n] # None => task[served[Arriving.n]] # "off")
      <3>1. Arriving \in Underway /\ Arriving.t \in {"data", "end"}
        BY <1>6, HeadIs DEF Deliver, Receive, Arriving
      <3>2. Arriving.n \in Number
        BY <3>1, MeansIs
      <3> QED
        BY <1>0, <3>2 DEF ChannelsInv, Tables
    <2>3. CASE UNCHANGED <<local, creader>>
      BY <1>1, <1>2, <2>1, <2>3
    <2>4. CASE ~UNCHANGED <<local, creader>>
      <3>1. served[Arriving.n] # None
        BY <1>6, <2>2, <2>4 DEF Deliver
      <3>2. PICK c \in Conn : c = served[Arriving.n] /\ task[c] # "off"
        BY <2>2, <3>1
      <3>3. \/ local' = [local EXCEPT ![c] = Append(@, <<Arriving.c, Arriving.k>>)] /\ UNCHANGED creader
            \/ creader' = <<c, <<Arriving.c, Arriving.k>>>> /\ UNCHANGED local
        BY <1>6, <2>2, <2>4, <3>2 DEF Deliver
      <3>4. CASE local' = [local EXCEPT ![c] = Append(@, <<Arriving.c, Arriving.k>>)] /\ UNCHANGED creader
        BY <1>0, <1>2, <1>5, <2>1, <3>2, <3>4
      <3>5. CASE creader' = <<c, <<Arriving.c, Arriving.k>>>> /\ UNCHANGED local
        <4>1. creader'[1] = c
          BY <3>5
        <4> QED
          BY <1>1, <2>1, <3>2, <3>5, <4>1 DEF CreaderPhase
      <3> QED
        BY <3>3, <3>4, <3>5
    <2> QED
      BY <2>3, <2>4
  <1>7. CASE HearReset
    <2>1. served[Arriving.n] \in Conn \union {None} /\ (served[Arriving.n] # None => task[served[Arriving.n]] # "off")
      <3>1. Arriving \in Underway /\ Arriving.t = "reset"
        BY <1>7, HeadIs DEF HearReset, Receive, Arriving
      <3>2. Arriving.n \in Number
        BY <3>1, MeansIs
      <3> QED
        BY <1>0, <3>2 DEF ChannelsInv, Tables
    <2>2. creader' = None
      BY <1>7 DEF HearReset, Receive
    <2> QED
      BY <1>1, <1>4, <1>7, <2>1, <2>2 DEF HearReset, CreaderPhase
  <1>8. CASE Delivered \/ Stalled
    <2>1. creader \in Conn \X Item /\ creader' = None
      BY <1>0, <1>8 DEF Delivered, Stalled
    <2>2. creader[1] \in Conn /\ task[creader[1]] # "off"
      BY <1>0, <1>8, <2>1 DEF CreaderPhase, Delivered, Stalled
    <2>3. CASE Delivered
      <3>1. UNCHANGED <<task, tgot, tsent, tfin, tend>> /\ \A d \in Conn : d # creader[1] => local'[d] = local[d]
        BY <1>0, <2>2, <2>3 DEF Delivered
      <3>2. \A d \in Conn : ClientPhase(d)'
        BY <1>5, <2>2, <3>1
      <3> QED
        BY <2>1, <3>2 DEF CreaderPhase
    <2>4. CASE Stalled
      <3>1. \A d \in Conn : ClientPhase(d)'
        BY <1>4, <2>2, <2>4 DEF Stalled
      <3> QED
        BY <2>1, <3>1 DEF CreaderPhase
    <2> QED
      BY <1>8, <2>3, <2>4
  <1>9. ASSUME NEW c \in Conn, TargetStep(c) PROVE CreaderPhase' /\ \A d \in Conn : ClientPhase(d)'
    <2>0. creader' = creader /\ (creader # None => creader[1] \in Conn)
      <3>1. creader' = creader
        BY <1>9 DEF TargetStep, Take, TakeEnd, Answer, AnswerEnds, ChannelDone, ChannelFails, TellFailed, Serving
      <3> QED
        BY <1>0, <3>1
    <2>1. CASE Take(c)
      <3>1. /\ task[c] # "off" /\ UNCHANGED <<task, tsent, tfin, tend>>
            /\ \A d \in Conn : d # c => local'[d] = local[d] /\ tgot'[d] = tgot[d]
        BY <1>0, <2>1 DEF Take, Running
      <3> QED
        BY <1>2, <1>5, <2>0, <3>1
    <2>2. CASE TakeEnd(c)
      <3>1. /\ task[c] # "off" /\ UNCHANGED <<task, tsent, tgot, tend>> /\ tfin' = tfin \union {c}
            /\ \A d \in Conn : d # c => local'[d] = local[d]
        BY <1>0, <2>2 DEF TakeEnd, Running
      <3> QED
        BY <1>2, <1>5, <2>0, <3>1
    <2>3. CASE Answer(c)
      <3>1. /\ task[c] # "off" /\ UNCHANGED <<task, local, tgot, tfin, tend>>
            /\ \A d \in Conn : d # c => tsent'[d] = tsent[d]
        BY <1>0, <2>3 DEF Answer
      <3> QED
        BY <1>2, <1>5, <2>0, <3>1
    <2>4. CASE AnswerEnds(c)
      <3>1. /\ task[c] = "run" /\ task' = [task EXCEPT ![c] = "ended"] /\ tend' = tend \union {c}
            /\ UNCHANGED <<local, tgot, tsent, tfin>>
        BY <2>4 DEF AnswerEnds
      <3>2. \A d \in Conn : ClientPhase(d)'
        BY <1>0, <1>v, <3>1
      <3> QED
        BY <1>0, <2>0, <3>1, <3>2 DEF CreaderPhase
    <2>5. CASE ChannelFails(c)
      <3>1. /\ task[c] # "off" /\ task' = [task EXCEPT ![c] = "failed"] /\ local' = [local EXCEPT ![c] = <<>>]
            /\ UNCHANGED <<tgot, tsent, tfin, tend>>
        BY <2>5 DEF ChannelFails, Running
      <3>2. \A d \in Conn : ClientPhase(d)'
        BY <1>0, <1>v, <3>1
      <3> QED
        BY <1>0, <2>0, <3>1, <3>2 DEF CreaderPhase
    <2>6. CASE ChannelDone(c) \/ TellFailed(c)
      <3>1. task[c] # "off" /\ Leave(c, "done")
        BY <2>6 DEF ChannelDone, TellFailed
      <3>2. \A d \in Conn : ClientPhase(d)' /\ (task'[d] = "off" <=> task[d] = "off")
        BY <1>4, <3>1
      <3> QED
        BY <1>0, <2>0, <3>2 DEF CreaderPhase
    <2> QED
      BY <1>9, <2>1, <2>2, <2>3, <2>4, <2>5, <2>6 DEF TargetStep
  <1>10. CASE SessionEnds
    <2>1. /\ task' = [c \in Conn |-> IF task[c] = "off" THEN "off" ELSE "done"]
          /\ local' = [c \in Conn |-> <<>>] /\ creader' = None /\ UNCHANGED <<tgot, tfin, tsent, tend>>
      BY <1>10 DEF SessionEnds
    <2> QED
      BY <1>0, <1>v, <2>1 DEF CreaderPhase
  <1>11. CASE HearStep \/ ClientStep
    <2>1. CASE RefuseOpen \/ HearPing \/ HearPong \/ Heartbeat
      BY <1>1, <1>2, <2>1 DEF RefuseOpen, HearPing, HearPong, Heartbeat
    <2> QED
      BY <1>3, <1>6, <1>7, <1>8, <1>9, <1>11, <2>1 DEF HearStep, ClientStep
  <1> QED
    BY <1>1, <1>2, <1>10, <1>11, Steps, VisitorFrame, ReadFrame, ReaderFrame, BridgeFrame DEF clientVars

-----------------------------------------------------------------------------
(* Shares and slots. *)

LEMMA HeldAre ==
    ASSUME HeldTypes
    PROVE  /\ IsFiniteSet(HeldFrames) /\ Cardinality(HeldFrames) \in Nat
           /\ \A c \in Conn : \A i : <<c, i>> \in HeldFrames <=> i \in Frames(c)
           /\ HeldFrames \subseteq Conn \X Nat
  <1>0. IsFiniteSet(Conn) /\ \A c \in Conn : IsFiniteSet(Frames(c)) /\ Frames(c) \subseteq Nat
    <2>1. ASSUME NEW c \in Conn PROVE IsFiniteSet(Frames(c)) /\ Frames(c) \subseteq Nat
      BY <2>1, FramesAre
    <2> QED
      BY <2>1, ConstantsAre
  <1> DEFINE of == {{c} \X Frames(c) : c \in Conn}
             f == [c \in Conn |-> {c} \X Frames(c)]
  <1>1. f \in Surjection(Conn, of)
    BY DEF Surjection
  <1>2. IsFiniteSet(of)
    BY <1>0, <1>1, FS_Surjection
  <1>3. ASSUME NEW c \in Conn PROVE IsFiniteSet({c} \X Frames(c))
    <2>1. IsFiniteSet({c})
      BY FS_Singleton
    <2> QED
      BY <1>0, <2>1, FS_Product
  <1>4. IsFiniteSet(HeldFrames)
    <2>1. IsFiniteSet(UNION of)
      BY <1>2, <1>3, FS_UNION
    <2> QED
      BY <2>1 DEF HeldFrames
  <1>5. \A c \in Conn : \A i : <<c, i>> \in HeldFrames <=> i \in Frames(c)
    BY DEF HeldFrames
  <1>6. HeldFrames \subseteq Conn \X Nat
    BY <1>0 DEF HeldFrames
  <1> QED
    BY <1>4, <1>5, <1>6, FS_CardinalityType

\* One frame more is held for c.
LEMMA HeldMore ==
    ASSUME HeldTypes, HeldTypes', NEW c \in Conn, NEW i \in Nat, i \notin Frames(c), Frames(c)' = Frames(c) \union {i},
           \A d \in Conn : d # c => Frames(d)' = Frames(d)
    PROVE  Cardinality(HeldFrames)' = Cardinality(HeldFrames) + 1 /\ Data(c)' = Data(c) + 1
  <1>1. IsFiniteSet(HeldFrames) /\ <<c, i>> \notin HeldFrames
    BY HeldAre
  <1>2. HeldFrames' = HeldFrames \union {<<c, i>>}
    BY DEF HeldFrames
  <1>3. Cardinality(HeldFrames') = Cardinality(HeldFrames) + 1
    BY <1>1, <1>2, FS_AddElement
  <1>4. IsFiniteSet(Frames(c))
    BY FramesAre
  <1>5. Cardinality(Frames(c) \union {i}) = Cardinality(Frames(c)) + 1
    BY <1>4, FS_AddElement
  <1> QED
    BY <1>3, <1>5 DEF Data

\* One frame less.
LEMMA HeldLess ==
    ASSUME HeldTypes, HeldTypes', NEW c \in Conn, NEW i \in Frames(c), Frames(c)' = Frames(c) \ {i},
           \A d \in Conn : d # c => Frames(d)' = Frames(d)
    PROVE  Cardinality(HeldFrames)' = Cardinality(HeldFrames) - 1 /\ Data(c)' = Data(c) - 1
  <1>1. IsFiniteSet(HeldFrames) /\ <<c, i>> \in HeldFrames
    BY HeldAre
  <1>2. HeldFrames' = HeldFrames \ {<<c, i>>}
    BY DEF HeldFrames
  <1>3. Cardinality(HeldFrames') = Cardinality(HeldFrames) - 1
    BY <1>1, <1>2, FS_RemoveElement
  <1>4. IsFiniteSet(Frames(c))
    BY FramesAre
  <1>5. Cardinality(Frames(c) \ {i}) = Cardinality(Frames(c)) - 1
    BY <1>4, FS_RemoveElement
  <1> QED
    BY <1>3, <1>5 DEF Data

\* All of c's frames at once.
LEMMA HeldNone ==
    ASSUME HeldTypes, HeldTypes', NEW c \in Conn, Frames(c)' = {},
           \A d \in Conn : d # c => Frames(d)' = Frames(d)
    PROVE  Cardinality(HeldFrames)' = Cardinality(HeldFrames) - Data(c) /\ Data(c)' = 0
  <1>1. IsFiniteSet(HeldFrames) /\ IsFiniteSet(Frames(c))
    BY HeldAre, FramesAre
  <1>2. HeldFrames' = HeldFrames \ ({c} \X Frames(c))
    <2>1. ASSUME NEW p PROVE p \in HeldFrames <=> \E d \in Conn : \E i \in Frames(d) : p = <<d, i>>
      BY DEF HeldFrames
    <2>2. ASSUME NEW p PROVE p \in HeldFrames' <=> \E d \in Conn : \E i \in Frames(d)' : p = <<d, i>>
      BY DEF HeldFrames
    <2>3. ASSUME NEW p PROVE p \in HeldFrames' <=> \E d \in Conn : d # c /\ \E i \in Frames(d) : p = <<d, i>>
      BY <2>2
    <2>4. ASSUME NEW p \in HeldFrames' PROVE p \in HeldFrames \ ({c} \X Frames(c))
      BY <2>1, <2>3, <2>4
    <2>5. ASSUME NEW p \in HeldFrames \ ({c} \X Frames(c)) PROVE p \in HeldFrames'
      BY <2>1, <2>3, <2>5
    <2> QED
      BY <2>4, <2>5
  <1>3. HeldFrames \cap ({c} \X Frames(c)) = {c} \X Frames(c)
    BY DEF HeldFrames
  <1>4. Cardinality({c} \X Frames(c)) = Cardinality(Frames(c))
    <2>1. IsFiniteSet({c}) /\ Cardinality({c}) = 1
      BY FS_Singleton
    <2>2. Cardinality({c} \X Frames(c)) = 1 * Cardinality(Frames(c))
      BY <1>1, <2>1, FS_Product
    <2> QED
      BY <1>1, <2>2, FS_CardinalityType
  <1>5. Cardinality(HeldFrames') = Cardinality(HeldFrames) - Cardinality({c} \X Frames(c))
    <2>1. PICK T : T = {c} \X Frames(c)
      OBVIOUS
    <2>2. Cardinality(HeldFrames \ T) = Cardinality(HeldFrames) - Cardinality(HeldFrames \cap T)
      BY <1>1, FS_Difference
    <2> QED
      BY <1>2, <1>3, <2>1, <2>2
  <1>6. Cardinality({}) = 0
    BY FS_EmptySet
  <1> QED
    BY <1>4, <1>5, <1>6 DEF Data

\* What is queued for a visitor is its stream: the frames are the first of the queue.
LEMMA InboundIs ==
    ASSUME ChannelsInv, NEW c \in Conn, visit[c] = "carried", down[c] = "run"
    PROVE  /\ Shape(inbound[c], c, Len(got[c])) /\ inbound[c] \in Seq(Item) /\ Len(got[c]) \in Nat
           /\ Frames(c) = 1 .. Count(inbound[c], c) /\ Count(inbound[c], c) \in Nat
  <1>0. inbound[c] \in Seq(Item) /\ got[c] \in Seq(Item) /\ Len(got[c]) \in Nat
    BY DEF ChannelsInv, ChannelsTypeOK, HeldTypes, VisitorTypes
  <1>1. Shape(DownFlow(c), c, Len(got[c]))
    BY DEF ChannelsInv, DownOK
  <1>2. Shape(inbound[c], c, Len(got[c]))
    <2>1. CASE reader.c = c
      <3>1. reader.x \in Item
        BY <2>1, ConstantsAre DEF ChannelsInv, Phases
      <3> QED
        BY <1>0, <1>1, <2>1, <3>1, ShapeFront DEF DownFlow
    <2>2. CASE reader.c # c
      BY <1>1, <2>2 DEF DownFlow
    <2> QED
      BY <2>1, <2>2
  <1>3. Count(inbound[c], c) \in Nat /\ Len(inbound[c]) \in Nat
    BY <1>0, CountIs
  <1>4. Frames(c) = 1 .. Count(inbound[c], c)
    <2>0. DOMAIN inbound[c] = 1 .. Len(inbound[c])
      BY <1>0
    <2>1. ASSUME NEW i \in 1 .. Len(inbound[c]) PROVE inbound[c][i] = EndOf(c) <=> (i = Len(inbound[c]) /\ Ends(inbound[c], c))
      <3>1. <<c, Len(got[c]) + i>> # EndOf(c)
        BY <1>0 DEF EndOf
      <3>2. inbound[c] # <<>>
        BY <1>0
      <3> QED
        BY <1>2, <3>1, <3>2 DEF Shape, Ends
    <2>2. CASE Ends(inbound[c], c)
      <3>1. Count(inbound[c], c) = Len(inbound[c]) - 1 /\ Len(inbound[c]) > 0
        BY <1>0, <2>2 DEF Ends, Count
      <3> QED
        BY <1>3, <2>0, <2>1, <2>2, <3>1 DEF Frames
    <2>3. CASE ~Ends(inbound[c], c)
      BY <1>3, <2>0, <2>1, <2>3 DEF Count, Frames
    <2> QED
      BY <2>2, <2>3
  <1> QED
    BY <1>0, <1>2, <1>3, <1>4

\* What a connection's data is held against.
SharesOK ==
    /\ \A c \in Conn : budget[c] + Data(c) = CHANNEL_BUDGET
    /\ shared + Cardinality(HeldFrames) = BRIDGE_BUDGET

LEMMA SharesHold ==
    ASSUME HeldTypes, HeldTypes', SharesOK, NEW c \in Conn, NEW x \in Item, x # EndOf(c), Hold(c, x)
    PROVE  SharesOK'
  <1>1. CASE UNCHANGED <<inbound, budget, shared>>
    BY <1>1 DEF SharesOK, Data, Frames, HeldFrames
  <1>2. CASE /\ inbound' = [inbound EXCEPT ![c] = Append(@, x)]
             /\ budget' = [budget EXCEPT ![c] = @ - 1] /\ shared' = shared - 1
    <2>0. inbound[c] \in Seq(Item) /\ inbound'[c] = Append(inbound[c], x) /\ Len(inbound[c]) \in Nat
      BY <1>2 DEF HeldTypes
    <2>1. \A d \in Conn : d # c => inbound'[d] = inbound[d] /\ budget'[d] = budget[d]
      BY <1>2 DEF HeldTypes
    <2>2. \A d \in Conn : d # c => Frames(d)' = Frames(d) /\ Data(d)' = Data(d)
      BY <2>1 DEF Frames, Data
    <2>3. Frames(c)' = Frames(c) \union {Len(inbound[c]) + 1} /\ Len(inbound[c]) + 1 \notin Frames(c)
      <3>1. /\ DOMAIN inbound'[c] = 1 .. Len(inbound[c]) + 1 /\ DOMAIN inbound[c] = 1 .. Len(inbound[c])
            /\ inbound'[c][Len(inbound[c]) + 1] = x /\ \A i \in 1 .. Len(inbound[c]) : inbound'[c][i] = inbound[c][i]
        BY <2>0, AppendIs
      <3>2. Frames(c)' = {i \in 1 .. Len(inbound[c]) + 1 : inbound'[c][i] # EndOf(c)}
        BY <3>1 DEF Frames, EndOf
      <3>3. Frames(c) = {i \in 1 .. Len(inbound[c]) : inbound[c][i] # EndOf(c)}
        BY <3>1 DEF Frames
      <3>4. 1 .. Len(inbound[c]) + 1 = (1 .. Len(inbound[c])) \union {Len(inbound[c]) + 1} /\ Len(inbound[c]) + 1 \notin 1 .. Len(inbound[c])
        BY <2>0
      <3> QED
        BY <3>1, <3>2, <3>3, <3>4
    <2>4. Cardinality(HeldFrames)' = Cardinality(HeldFrames) + 1 /\ Data(c)' = Data(c) + 1
      BY <2>0, <2>2, <2>3, HeldMore
    <2>5. Data(c) \in Nat /\ Cardinality(HeldFrames) \in Nat /\ budget[c] \in Int /\ shared \in Int
      BY FramesAre, HeldAre DEF HeldTypes
    <2>6. budget'[c] = budget[c] - 1 /\ shared' = shared - 1
      BY <1>2 DEF HeldTypes
    <2>7. budget'[c] + Data(c)' = CHANNEL_BUDGET /\ shared' + Cardinality(HeldFrames)' = BRIDGE_BUDGET
      BY <2>4, <2>5, <2>6 DEF SharesOK
    <2> QED
      BY <2>1, <2>2, <2>7 DEF SharesOK
  <1> QED
    BY <1>1, <1>2 DEF Hold

LEMMA SharesBack ==
    ASSUME HeldTypes, HeldTypes', SharesOK, NEW c \in Conn, GiveBack(c)
    PROVE  SharesOK'
  <1>1. /\ inbound'[c] = <<>> /\ \A d \in Conn : d # c => inbound'[d] = inbound[d] /\ budget'[d] = budget[d]
        /\ budget'[c] = budget[c] + Data(c) /\ shared' = shared + Data(c)
    BY DEF GiveBack, HeldTypes
  <1>2. \A d \in Conn : d # c => Frames(d)' = Frames(d) /\ Data(d)' = Data(d)
    BY <1>1 DEF Frames, Data
  <1>3. Frames(c)' = {}
    BY <1>1 DEF Frames
  <1>4. Cardinality(HeldFrames)' = Cardinality(HeldFrames) - Data(c) /\ Data(c)' = 0
    BY <1>2, <1>3, HeldNone
  <1>5. Data(c) \in Nat /\ Cardinality(HeldFrames) \in Nat /\ budget[c] \in Int /\ shared \in Int
    BY FramesAre, HeldAre DEF HeldTypes
  <1>6. budget'[c] + Data(c)' = CHANNEL_BUDGET /\ shared' + Cardinality(HeldFrames)' = BRIDGE_BUDGET
    BY <1>1, <1>4, <1>5 DEF SharesOK
  <1> QED
    BY <1>1, <1>2, <1>6 DEF SharesOK

\* A connection the reader has data for is carried, or over.
LEMMA ReaderHas ==
    ASSUME ChannelsInv, reader.c # None
    PROVE  /\ reader.c \in Conn /\ reader.x \in Item /\ reader.x # EndOf(reader.c) /\ reader.c \in Spoken /\ Told(reader.c)
           /\ visit[reader.c] = "done" \/ (visit[reader.c] = "carried" /\ down[reader.c] \in {"run", "done"})
  <1>1. reader.c \in Conn /\ reader.x \in Item /\ reader.x # EndOf(reader.c)
    BY DEF ChannelsInv, ChannelsTypeOK, ReaderTypes, Phases, EndOf
  <1>2. reader.c \in Spoken /\ Told(reader.c)
    BY DEF ChannelsInv, Tables, Spoken, WithReader
  <1>3. visit[reader.c] = "carried" => down[reader.c] \in {"run", "done"}
    BY <1>1 DEF ChannelsInv, ChannelsTypeOK, VisitorTypes, Phases
  <1> QED
    BY <1>1, <1>2, <1>3 DEF Told

\* What the bridge's reader finds in the table is the connection of the message, and carried.
LEMMA ArrivedFinds ==
    ASSUME ChannelsInv, ReadStep, Arrived.t \in {"data", "end", "reset"}, channels[Arrived.n] # None
    PROVE  /\ channels[Arrived.n] = Arrived.c /\ Arrived.c \in Conn /\ Arrived.c \in Spoken /\ Arrived.n = num[Arrived.c]
           /\ Arrived.n \in Number
           /\ visit[Arrived.c] = "carried" /\ down[Arrived.c] \in {"run", "done"}
           /\ Arrived.k \in Nat /\ <<Arrived.c, Arrived.k>> \in Item
           /\ Arrived.t = "data" => <<Arrived.c, Arrived.k>> # EndOf(Arrived.c)
  <1>1. Arrived \in Underway
    BY ArrivedIs
  <1>2. channels[Arrived.n] = Arrived.c /\ Arrived.c \in Conn /\ Arrived.c \in Spoken /\ Arrived.n = num[Arrived.c]
        /\ Arrived.n \in Number /\ Told(Arrived.c) /\ Arrived.k \in Nat
    BY <1>1, MeansIs
  <1>3. Active(Arrived.c)
    BY <1>2 DEF ChannelsInv, Tables
  <1>4. visit[Arrived.c] = "carried"
    BY <1>2, <1>3 DEF Active, Told
  <1>5. down[Arrived.c] \in {"run", "done"}
    BY <1>2, <1>4 DEF ChannelsInv, ChannelsTypeOK, VisitorTypes, Phases
  <1>6. <<Arrived.c, Arrived.k>> \in Item /\ (Arrived.t = "data" => <<Arrived.c, Arrived.k>> # EndOf(Arrived.c))
    BY <1>1, <1>2, MeansIs DEF Item, EndOf, Sound
  <1> QED
    BY <1>2, <1>4, <1>5, <1>6

LEMMA SharesKept ==
    ASSUME ChannelsInv, ChannelsNext, ~clash'
    PROVE  SharesOK'
  <1>0. HeldTypes /\ HeldTypes' /\ SharesOK
    BY HeldTypesKept DEF ChannelsInv, ChannelsTypeOK, Balanced, SharesOK
  <1>1. CASE UNCHANGED <<inbound, budget, shared>>
    BY <1>0, <1>1 DEF SharesOK, Data, Frames, HeldFrames
  <1>2. ASSUME NEW c \in Conn, VisitorStep(c) PROVE SharesOK'
    <2>1. CASE WriteError(c) \/ DownloadEnd(c) \/ DownloadAborted(c) \/ Idle(c)
      <3>1. GiveBack(c)
        BY <2>1 DEF WriteError, DownloadEnd, DownloadAborted, Idle
      <3> QED
        BY <1>0, <3>1, SharesBack
    <2>2. CASE Written(c)
      <3>0. /\ Waiting(c) /\ visit[c] = "carried" /\ down[c] = "run"
            /\ inbound' = [inbound EXCEPT ![c] = Tail(@)]
            /\ budget' = [budget EXCEPT ![c] = @ + 1] /\ shared' = shared + 1
        BY <2>2 DEF Written, Downloading
      <3>1. /\ inbound'[c] = Tail(inbound[c]) /\ \A d \in Conn : d # c => inbound'[d] = inbound[d] /\ budget'[d] = budget[d]
            /\ budget'[c] = budget[c] + 1 /\ shared' = shared + 1
        BY <1>0, <3>0 DEF HeldTypes
      <3>2. \A d \in Conn : d # c => Frames(d)' = Frames(d) /\ Data(d)' = Data(d)
        BY <3>1 DEF Frames, Data
      <3>3. /\ Shape(inbound[c], c, Len(got[c])) /\ inbound[c] \in Seq(Item) /\ Len(got[c]) \in Nat
            /\ Frames(c) = 1 .. Count(inbound[c], c) /\ Count(inbound[c], c) \in Nat
            /\ inbound[c] # <<>> /\ Head(inbound[c]) # EndOf(c)
        BY <3>0, InboundIs DEF Waiting, Ending
      <3>4. /\ Shape(Tail(inbound[c]), c, Len(got[c]) + 1) /\ Tail(inbound[c]) \in Seq(Item)
            /\ Count(inbound[c], c) = Count(Tail(inbound[c]), c) + 1 /\ Count(Tail(inbound[c]), c) \in Nat
        BY <3>3, ShapeTail, TailIs, CountIs
      <3>5. Frames(c)' = Frames(c) \ {Count(inbound[c], c)} /\ Count(inbound[c], c) \in Frames(c)
        <4>1. ASSUME NEW i \in 1 .. Len(Tail(inbound[c]))
              PROVE  Tail(inbound[c])[i] = EndOf(c) <=> (i = Len(Tail(inbound[c])) /\ Ends(Tail(inbound[c]), c))
          <5>1. <<c, Len(got[c]) + 1 + i>> # EndOf(c)
            BY <3>3 DEF EndOf
          <5>2. Tail(inbound[c]) # <<>>
            <6>1. 1 .. Len(<<>>) = {}
              OBVIOUS
            <6> QED
              BY <6>1
          <5> QED
            BY <3>4, <5>1, <5>2 DEF Shape, Ends
        <4>2. DOMAIN Tail(inbound[c]) = 1 .. Len(Tail(inbound[c])) /\ Len(Tail(inbound[c])) \in Nat
          BY <3>4
        <4>3. Frames(c)' = {i \in DOMAIN Tail(inbound[c]) : Tail(inbound[c])[i] # EndOf(c)}
          BY <3>1 DEF Frames, EndOf
        <4>4. Frames(c)' = 1 .. Count(Tail(inbound[c]), c)
          <5>1. CASE Ends(Tail(inbound[c]), c)
            <6>1. Count(Tail(inbound[c]), c) = Len(Tail(inbound[c])) - 1 /\ Len(Tail(inbound[c])) > 0
              BY <3>4, <5>1 DEF Ends, Count
            <6> QED
              BY <4>1, <4>2, <4>3, <5>1, <6>1
          <5>2. CASE ~Ends(Tail(inbound[c]), c)
            BY <4>1, <4>2, <4>3, <5>2 DEF Count
          <5> QED
            BY <5>1, <5>2
        <4> QED
          BY <3>3, <3>4, <4>4
      <3>6. Cardinality(HeldFrames)' = Cardinality(HeldFrames) - 1 /\ Data(c)' = Data(c) - 1
        BY <1>0, <3>2, <3>5, HeldLess
      <3>7. Data(c) \in Nat /\ Cardinality(HeldFrames) \in Nat /\ budget[c] \in Int /\ shared \in Int
        BY <1>0, FramesAre, HeldAre DEF HeldTypes
      <3>8. budget'[c] + Data(c)' = CHANNEL_BUDGET /\ shared' + Cardinality(HeldFrames)' = BRIDGE_BUDGET
        BY <1>0, <3>1, <3>6, <3>7 DEF SharesOK
      <3> QED
        BY <1>0, <3>1, <3>2, <3>8 DEF SharesOK
    <2>3. CASE Route(c) \/ Carry(c) \/ Refuse(c) \/ Upload(c) \/ UploadEnd(c) \/ UploadError(c) \/ UploadAborted(c) \/ Progress(c) \/ Ended(c)
      BY <1>1, <2>3 DEF Route, Carry, Refuse, Upload, UploadEnd, UploadError, UploadAborted, Uploading, Progress, Ended, heldVars
    <2> QED
      BY <1>2, <2>1, <2>2, <2>3 DEF VisitorStep
  <1>3. CASE ReadStep
    <2>1. CASE ReadData
      <3>1. Arrived.t = "data" /\ channels[Arrived.n] # None
        BY <2>1 DEF ReadData
      <3>2. PICK c \in Conn : c = Arrived.c /\ channels[Arrived.n] = c /\ <<c, Arrived.k>> \in Item /\ <<c, Arrived.k>> # EndOf(c)
        BY <1>3, <3>1, ArrivedFinds
      <3>3. UNCHANGED <<inbound, budget, shared>> \/ Hold(c, <<c, Arrived.k>>)
        BY <2>1, <3>2 DEF ReadData
      <3> QED
        BY <1>0, <1>1, <3>2, <3>3, SharesHold
    <2>2. CASE ReadEnd
      <3>1. Arrived.t = "end" /\ channels[Arrived.n] # None
        BY <2>2 DEF ReadEnd
      <3>2. PICK c \in Conn : c = Arrived.c /\ channels[Arrived.n] = c
        BY <1>3, <3>1, ArrivedFinds
      <3>3. UNCHANGED <<budget, shared>> /\ (inbound' = inbound \/ inbound' = [inbound EXCEPT ![c] = Append(@, EndOf(c))])
        BY <2>2, <3>2 DEF ReadEnd
      <3>4. CASE inbound' = [inbound EXCEPT ![c] = Append(@, EndOf(c))]
        <4>1. inbound[c] \in Seq(Item) /\ inbound'[c] = Append(inbound[c], EndOf(c)) /\ EndOf(c) \in Item
          BY <1>0, <3>4, EndIs DEF HeldTypes
        <4>2. \A d \in Conn : d # c => inbound'[d] = inbound[d]
          BY <1>0, <3>4 DEF HeldTypes
        <4>3. Frames(c)' = Frames(c)
          <5>1. /\ DOMAIN inbound'[c] = 1 .. Len(inbound[c]) + 1 /\ DOMAIN inbound[c] = 1 .. Len(inbound[c]) /\ Len(inbound[c]) \in Nat
                /\ inbound'[c][Len(inbound[c]) + 1] = EndOf(c) /\ \A i \in 1 .. Len(inbound[c]) : inbound'[c][i] = inbound[c][i]
            BY <4>1, AppendIs
          <5> QED
            BY <5>1 DEF Frames, EndOf
        <4>4. \A d \in Conn : Frames(d)' = Frames(d)
          BY <4>2, <4>3 DEF Frames
        <4>5. HeldFrames' = HeldFrames /\ \A d \in Conn : Data(d)' = Data(d)
          BY <4>4 DEF HeldFrames, Data
        <4> QED
          BY <1>0, <3>3, <4>5 DEF SharesOK
      <3> QED
        BY <1>1, <3>3, <3>4
    <2> QED
      BY <1>1, <1>3, <2>1, <2>2 DEF ReadStep, Ignore, ReadPing, ReadReset, heldVars
  <1>4. CASE ReaderStep
    <2>1. CASE WaitEnds \/ LastTry
      <3>1. reader.c # None
        BY <2>1 DEF WaitEnds, LastTry, ChannelsInv, Phases
      <3>2. Hold(reader.c, reader.x) \/ UNCHANGED <<inbound, budget, shared>>
        BY <2>1 DEF WaitEnds, LastTry, Reset, heldVars
      <3>3. PICK c \in Conn : \E x \in Item : c = reader.c /\ x = reader.x /\ x # EndOf(c)
        BY <3>1, ReaderHas
      <3> QED
        BY <1>0, <1>1, <3>2, <3>3, SharesHold
    <2>2. CASE Stall \/ ResetStalled \/ Tell
      BY <1>1, <2>2 DEF Stall, ResetStalled, Tell, Reset, heldVars
    <2> QED
      BY <1>4, <2>1, <2>2 DEF ReaderStep
  <1> QED
    BY <1>1, <1>2, <1>3, <1>4, Steps, BridgeFrame, HearFrame, ClientFrame, SessionFrame DEF heldVars

\* Data waits only for a download that runs.
HeldFor(c) == inbound[c] # <<>> => visit[c] = "carried" /\ down[c] = "run"

LEMMA HeldForKept ==
    ASSUME ChannelsInv, ChannelsNext, ~clash'
    PROVE  \A c \in Conn : HeldFor(c)'
  <1>0. VisitorTypes /\ HeldTypes /\ (\A c \in Conn : HeldFor(c)) /\ \A c \in Conn : VisitPhase(c)
    BY DEF ChannelsInv, ChannelsTypeOK, Balanced, HeldFor, Phases, VisitPhase
  <1> USE DEF HeldFor
  <1>1. CASE UNCHANGED <<visit, down, inbound>>
    BY <1>0, <1>1
  <1>2. ASSUME NEW c \in Conn, VisitorStep(c) PROVE \A d \in Conn : HeldFor(d)'
    <2>0. \A d \in Conn : d # c => visit'[d] = visit[d] /\ down'[d] = down[d] /\ inbound'[d] = inbound[d]
      <3>1. CASE Route(c)
        BY <1>0, <3>1 DEF Route, VisitorTypes, heldVars
      <3>2. CASE Carry(c)
        BY <1>0, <3>2 DEF Carry, VisitorTypes, heldVars
      <3>3. CASE Refuse(c)
        BY <1>0, <3>3 DEF Refuse, VisitorTypes, heldVars
      <3>4. CASE Upload(c) \/ UploadEnd(c) \/ UploadError(c) \/ UploadAborted(c)
        BY <3>4 DEF Upload, UploadEnd, UploadError, UploadAborted, Uploading, heldVars
      <3>5. CASE Written(c)
        BY <1>0, <3>5 DEF Written, Downloading, VisitorTypes, HeldTypes
      <3>6. CASE Progress(c)
        BY <1>0, <3>6 DEF Progress, Downloading, VisitorTypes, HeldTypes
      <3>7. CASE WriteError(c) \/ DownloadEnd(c) \/ DownloadAborted(c)
        <4>1. GiveBack(c) /\ Downloading(c, "done")
          BY <3>7 DEF WriteError, DownloadEnd, DownloadAborted
        <4> QED
          BY <1>0, <4>1 DEF GiveBack, Downloading, VisitorTypes, HeldTypes
      <3>8. CASE Ended(c)
        BY <1>0, <3>8 DEF Ended, Over, VisitorTypes, heldVars
      <3>9. CASE Idle(c)
        BY <1>0, <3>9 DEF Idle, Over, GiveBack, VisitorTypes, HeldTypes
      <3> QED
        BY <1>2, <3>1, <3>2, <3>3, <3>4, <3>5, <3>6, <3>7, <3>8, <3>9 DEF VisitorStep
    <2>1. HeldFor(c)'
      <3>1. CASE Route(c) \/ Carry(c) \/ Refuse(c)
        <4>1. visit[c] \in {"new", "routed"} /\ inbound' = inbound
          BY <3>1 DEF Route, Carry, Refuse, heldVars
        <4> QED
          BY <1>0, <4>1
      <3>2. CASE Upload(c) \/ UploadEnd(c) \/ UploadError(c) \/ UploadAborted(c)
        BY <1>0, <3>2 DEF Upload, UploadEnd, UploadError, UploadAborted, Uploading, heldVars
      <3>3. CASE Written(c) \/ Progress(c)
        <4>1. visit[c] = "carried" /\ visit' = visit /\ down' = [down EXCEPT ![c] = "run"]
          BY <3>3 DEF Written, Progress, Downloading
        <4> QED
          BY <1>0, <4>1 DEF VisitorTypes
      <3>4. CASE WriteError(c) \/ DownloadEnd(c) \/ DownloadAborted(c) \/ Idle(c)
        <4>1. inbound' = [inbound EXCEPT ![c] = <<>>]
          BY <3>4 DEF WriteError, DownloadEnd, DownloadAborted, Idle, GiveBack
        <4> QED
          BY <1>0, <4>1 DEF HeldTypes
      <3>5. CASE Ended(c)
        <4>1. down[c] = "done" /\ inbound' = inbound
          BY <3>5 DEF Ended, heldVars
        <4> QED
          BY <1>0, <4>1
      <3> QED
        BY <1>2, <3>1, <3>2, <3>3, <3>4, <3>5 DEF VisitorStep
    <2> QED
      BY <1>0, <2>0, <2>1
  <1>3. ASSUME NEW c \in Conn, UNCHANGED <<visit, down>>, visit[c] = "carried", down[c] = "run",
               \A d \in Conn : d # c => inbound'[d] = inbound[d]
        PROVE  \A d \in Conn : HeldFor(d)'
    BY <1>0, <1>3
  <1>4. ASSUME NEW c \in Conn, NEW x, Hold(c, x), UNCHANGED <<visit, down>>, visit[c] = "done" \/ (visit[c] = "carried" /\ down[c] \in {"run", "done"})
        PROVE  \A d \in Conn : HeldFor(d)'
    <2>1. CASE UNCHANGED inbound
      BY <1>1, <1>4, <2>1
    <2>2. CASE ~UNCHANGED inbound
      <3>1. visit[c] = "carried" /\ down[c] = "run" /\ inbound' = [inbound EXCEPT ![c] = Append(@, x)]
        BY <1>4, <2>2 DEF Hold
      <3>2. \A d \in Conn : d # c => inbound'[d] = inbound[d]
        BY <1>0, <3>1 DEF HeldTypes
      <3> QED
        BY <1>3, <1>4, <3>1, <3>2
    <2> QED
      BY <2>1, <2>2
  <1>5. CASE ReadStep
    <2>0. UNCHANGED <<visit, down>>
      BY <1>5, ReadFrame DEF visitorVars
    <2>1. CASE ReadData
      <3>1. Arrived.t = "data" /\ channels[Arrived.n] # None
        BY <2>1 DEF ReadData
      <3>2. PICK c \in Conn : c = Arrived.c /\ channels[Arrived.n] = c /\ visit[c] = "carried" /\ down[c] \in {"run", "done"}
        BY <1>5, <3>1, ArrivedFinds
      <3>3. UNCHANGED inbound \/ Hold(c, <<c, Arrived.k>>)
        BY <2>1, <3>2 DEF ReadData
      <3> QED
        BY <1>1, <1>4, <2>0, <3>2, <3>3
    <2>2. CASE ReadEnd
      <3>1. Arrived.t = "end" /\ channels[Arrived.n] # None
        BY <2>2 DEF ReadEnd
      <3>2. PICK c \in Conn : c = Arrived.c /\ channels[Arrived.n] = c /\ visit[c] = "carried" /\ down[c] \in {"run", "done"}
        BY <1>5, <3>1, ArrivedFinds
      <3>3. \/ inbound' = inbound
            \/ down[c] = "run" /\ inbound' = [inbound EXCEPT ![c] = Append(@, EndOf(c))]
        BY <2>2, <3>2 DEF ReadEnd
      <3>4. \A d \in Conn : d # c => inbound'[d] = inbound[d]
        BY <1>0, <3>3 DEF HeldTypes
      <3> QED
        BY <1>1, <1>3, <2>0, <3>2, <3>3, <3>4
    <2> QED
      BY <1>1, <1>5, <2>0, <2>1, <2>2 DEF ReadStep, Ignore, ReadPing, ReadReset, heldVars
  <1>6. CASE ReaderStep
    <2>0. UNCHANGED <<visit, down>>
      BY <1>6, ReaderFrame DEF visitorVars
    <2>1. CASE WaitEnds \/ LastTry
      <3>1. reader.c # None
        BY <2>1 DEF WaitEnds, LastTry, ChannelsInv, Phases
      <3>2. Hold(reader.c, reader.x) \/ UNCHANGED inbound
        BY <2>1 DEF WaitEnds, LastTry, Reset, heldVars
      <3> QED
        BY <1>1, <1>4, <2>0, <3>1, <3>2, ReaderHas
    <2>2. CASE Stall \/ ResetStalled \/ Tell
      BY <1>1, <2>0, <2>2 DEF Stall, ResetStalled, Tell, Reset, heldVars
    <2> QED
      BY <1>6, <2>1, <2>2 DEF ReaderStep
  <1> QED
    BY <1>1, <1>2, <1>5, <1>6, Steps, BridgeFrame, HearFrame, ClientFrame, SessionFrame DEF heldVars, visitorVars

\* The data in the outbound queue that a visitor's share pays for.
Paid(m) == m.t = "data" /\ m.k > 1
Credited(q) == {i \in 1 .. Len(q) : Paid(q[i])}

LEMMA CreditedAre ==
    ASSUME NEW q \in Seq(MessageType)
    PROVE  IsFiniteSet(Credited(q)) /\ Cardinality(Credited(q)) \in Nat
  <1>1. IsFiniteSet(1 .. Len(q))
    BY FS_Interval
  <1>2. IsFiniteSet(Credited(q))
    BY <1>1, FS_Subset DEF Credited
  <1> QED
    BY <1>2, FS_CardinalityType

LEMMA CreditedAppend ==
    ASSUME NEW q \in Seq(MessageType), NEW m \in MessageType
    PROVE  Cardinality(Credited(Append(q, m))) = Cardinality(Credited(q)) + (IF Paid(m) THEN 1 ELSE 0)
  <1> DEFINE r == Append(q, m)
  <1>1. Len(r) = Len(q) + 1 /\ r[Len(q) + 1] = m /\ Len(q) \in Nat /\ \A i \in 1 .. Len(q) : r[i] = q[i]
    BY AppendIs
  <1>2. IsFiniteSet(Credited(q)) /\ Cardinality(Credited(q)) \in Nat
    BY CreditedAre
  <1> HIDE DEF r
  <1>3. 1 .. Len(r) = (1 .. Len(q)) \union {Len(q) + 1} /\ Len(q) + 1 \notin 1 .. Len(q)
    BY <1>1
  <1>4. CASE Paid(m)
    <2>1. Credited(r) = Credited(q) \union {Len(q) + 1} /\ Len(q) + 1 \notin Credited(q)
      BY <1>1, <1>3, <1>4 DEF Credited
    <2>2. Cardinality(Credited(q) \union {Len(q) + 1}) = Cardinality(Credited(q)) + 1
      BY <1>2, <2>1, FS_AddElement
    <2> QED
      BY <1>4, <2>1, <2>2 DEF r
  <1>5. CASE ~Paid(m)
    <2>1. Credited(r) = Credited(q)
      BY <1>1, <1>3, <1>5 DEF Credited
    <2> QED
      BY <1>2, <1>5, <2>1 DEF r
  <1> QED
    BY <1>4, <1>5

LEMMA CreditedTail ==
    ASSUME NEW q \in Seq(MessageType), q # <<>>
    PROVE  Cardinality(Credited(Tail(q))) = Cardinality(Credited(q)) - (IF Paid(Head(q)) THEN 1 ELSE 0)
  <1> DEFINE r == Tail(q)
  <1>1. /\ Len(r) = Len(q) - 1 /\ Len(q) \in Nat \ {0} /\ Head(q) = q[1]
        /\ \A i \in 1 .. Len(r) : r[i] = q[i + 1] /\ i + 1 \in 1 .. Len(q)
    BY TailIs
  <1>2. IsFiniteSet(Credited(q)) /\ Cardinality(Credited(q)) \in Nat /\ IsFiniteSet(Credited(r))
    BY CreditedAre, TailIs
  <1> HIDE DEF r
  <1> DEFINE C == Credited(q) \ {1}
             f == [i \in Credited(r) |-> i + 1]
  <1>3. \A i \in Credited(r) : i + 1 \in C /\ i \in Nat
    BY <1>1 DEF Credited
  <1>4. \A j \in C : j - 1 \in Credited(r) /\ (j - 1) + 1 = j
    BY <1>1 DEF Credited
  <1>5. f \in [Credited(r) -> C] /\ \A i \in Credited(r) : f[i] = i + 1
    BY <1>3
  <1> HIDE DEF f, C
  <1>6. \A i, j \in Credited(r) : f[i] = f[j] => i = j
    BY <1>3, <1>5
  <1>7. \A j \in C : \E i \in Credited(r) : f[i] = j
    BY <1>4, <1>5
  <1>8. f \in Bijection(Credited(r), C)
    BY <1>5, <1>6, <1>7 DEF Bijection, Injection, Surjection, IsInjective
  <1>9. Cardinality(C) = Cardinality(Credited(r))
    BY <1>2, <1>8, FS_Bijection DEF ExistsBijection
  <1>10. Cardinality(C) = IF 1 \in Credited(q) THEN Cardinality(Credited(q)) - 1 ELSE Cardinality(Credited(q))
    BY <1>2, FS_RemoveElement DEF C
  <1>11. 1 \in Credited(q) <=> Paid(Head(q))
    BY <1>1 DEF Credited
  <1> QED
    BY <1>2, <1>9, <1>10, <1>11 DEF r

CreditOK == credit + Cardinality(Credited(outbound)) = OUTBOUND_BUDGET

LEMMA CreditKept ==
    ASSUME ChannelsInv, ChannelsNext, ~clash'
    PROVE  CreditOK'
  <1>0. /\ outbound \in Seq(MessageType) /\ credit \in Int /\ num \in [Conn -> Nat] /\ sent \in [Conn -> Nat]
        /\ reader.tell \in MessageType /\ Sound(reader.tell) /\ CreditOK
    <2>1. outbound \in Seq(MessageType)
      BY DEF ChannelsInv, ChannelsTypeOK, QueueTypes
    <2>2. CreditedFrames = Credited(outbound)
      BY <2>1 DEF CreditedFrames, Credited, Paid
    <2> QED
      BY <2>1, <2>2 DEF ChannelsInv, ChannelsTypeOK, QueueTypes, VisitorTypes, ReaderTypes, Tables, Balanced, CreditOK
  <1>c. Cardinality(Credited(outbound)) \in Nat
    BY <1>0, CreditedAre
  <1>1. CASE UNCHANGED <<outbound, credit>>
    BY <1>0, <1>1 DEF CreditOK
  <1>2. ASSUME NEW m \in MessageType, ~Paid(m), outbound' \in {outbound, Append(outbound, m)}, credit' = credit PROVE CreditOK'
    <2>1. Cardinality(Credited(Append(outbound, m))) = Cardinality(Credited(outbound))
      BY <1>0, <1>2, <1>c, CreditedAppend
    <2> QED
      BY <1>0, <1>2, <2>1 DEF CreditOK
  <1>3. CASE outbound' = <<>> /\ credit' = OUTBOUND_BUDGET
    <2>1. Credited(<<>>) = {} /\ Cardinality({}) = 0
      BY FS_EmptySet DEF Credited
    <2>2. Cardinality(Credited(outbound')) = 0 /\ OUTBOUND_BUDGET \in Nat
      BY <1>3, <2>1, ConstantsAre
    <2>3. credit' + Cardinality(Credited(outbound')) = OUTBOUND_BUDGET
      BY <1>3, <2>2
    <2> QED
      BY <2>3 DEF CreditOK
  <1>m. ASSUME NEW c \in Conn
        PROVE  /\ Message("open", c, 0) \in MessageType /\ ~Paid(Message("open", c, 0))
               /\ Message("data", c, 1) \in MessageType /\ ~Paid(Message("data", c, 1))
               /\ Message("end", c, 0) \in MessageType /\ ~Paid(Message("end", c, 0))
               /\ Message("reset", c, 0) \in MessageType /\ ~Paid(Message("reset", c, 0))
    BY <1>0, MessageHas DEF Paid
  <1>4. ASSUME NEW c \in Conn, VisitorStep(c) PROVE CreditOK'
    <2>1. CASE Route(c) \/ Refuse(c) \/ UploadAborted(c) \/ Written(c) \/ Progress(c) \/ DownloadEnd(c) \/ DownloadAborted(c) \/ Ended(c)
      BY <1>1, <2>1 DEF Route, Refuse, UploadAborted, Written, Progress, DownloadEnd, DownloadAborted, Ended, outVars
    <2>2. CASE Carry(c)
      <3>1. credit' = credit /\ (outbound' = outbound \/ outbound' = Append(Append(outbound, Message("open", c, 0)), Message("data", c, 1)))
        BY <1>0, <1>m, <2>2, ConcatIs DEF Carry, Send
      <3>2. CASE outbound' = Append(Append(outbound, Message("open", c, 0)), Message("data", c, 1))
        <4>1. Append(outbound, Message("open", c, 0)) \in Seq(MessageType)
          BY <1>0, <1>m, AppendIs
        <4>2. Cardinality(Credited(Append(outbound, Message("open", c, 0)))) = Cardinality(Credited(outbound))
          BY <1>0, <1>c, <1>m, CreditedAppend
        <4>3. Cardinality(Credited(outbound')) = Cardinality(Credited(outbound))
          <5>1. PICK q \in Seq(MessageType) : q = Append(outbound, Message("open", c, 0))
            BY <4>1
          <5>2. Cardinality(Credited(Append(q, Message("data", c, 1)))) = Cardinality(Credited(q)) + 0
            BY <1>m, CreditedAppend
          <5> QED
            BY <1>c, <3>2, <4>2, <5>1, <5>2
        <4> QED
          BY <1>0, <3>1, <4>3 DEF CreditOK
      <3> QED
        BY <1>1, <3>1, <3>2
    <2>3. CASE Upload(c)
      <3>1. CASE ~Open
        BY <1>1, <2>3, <3>1 DEF Upload, Send
      <3>2. CASE Open
        <4>1. /\ credit' = credit - 1 /\ sent' = [sent EXCEPT ![c] = @ + 1] /\ Send(<<Message("data", c, sent'[c])>>)
              /\ visit[c] = "carried"
          BY <2>3, <3>2 DEF Upload, Uploading
        <4>2. sent'[c] = sent[c] + 1 /\ sent[c] > 0 /\ sent[c] \in Nat
          BY <1>0, <4>1 DEF ChannelsInv, Phases
        <4>3. Message("data", c, sent'[c]) \in MessageType /\ Paid(Message("data", c, sent'[c]))
          BY <1>0, <4>2, MessageHas DEF Paid
        <4>4. outbound' = Append(outbound, Message("data", c, sent'[c]))
          BY <1>0, <3>2, <4>1, <4>3, SendIs
        <4>5. Cardinality(Credited(outbound')) = Cardinality(Credited(outbound)) + 1
          BY <1>0, <4>3, <4>4, CreditedAppend
        <4> QED
          BY <1>0, <1>c, <4>1, <4>5 DEF CreditOK
      <3> QED
        BY <3>1, <3>2
    <2>4. CASE UploadEnd(c)
      <3>1. outbound' \in {outbound, Append(outbound, Message("end", c, 0))} /\ credit' = credit
        BY <1>0, <1>m, <2>4, SendIs DEF UploadEnd
      <3> QED
        BY <1>2, <1>m, <3>1
    <2>5. CASE UploadError(c) \/ WriteError(c) \/ Idle(c)
      <3>1. outbound' \in {outbound, Append(outbound, Message("reset", c, 0))} /\ credit' = credit
        BY <2>5 DEF UploadError, WriteError, Idle, TrySendReset
      <3> QED
        BY <1>2, <1>m, <3>1
    <2> QED
      BY <1>4, <2>1, <2>2, <2>3, <2>4, <2>5 DEF VisitorStep
  <1>5. CASE ReadStep
    BY <1>1, <1>5, ReadFrame DEF outVars
  <1>6. CASE ReaderStep
    <2>1. CASE Tell
      <3>1. reader.at = "tell" /\ Send(<<reader.tell>>) /\ credit' = credit
        BY <2>1 DEF Tell
      <3>2. outbound' \in {outbound, Append(outbound, reader.tell)}
        BY <1>0, <3>1, SendIs
      <3>3. reader.tell.t # "data"
        BY DEF ChannelsInv, Phases
      <3> QED
        BY <1>0, <1>2, <3>1, <3>2, <3>3 DEF Paid
    <2> QED
      BY <1>1, <1>6, <2>1 DEF ReaderStep, WaitEnds, Stall, ResetStalled, LastTry, outVars
  <1>7. CASE BridgeStep
    <2>1. CASE KeepAlive \/ Drain
      <3>1. /\ Signal("ping") \in MessageType /\ ~Paid(Signal("ping"))
            /\ Signal("drain") \in MessageType /\ ~Paid(Signal("drain"))
        BY SignalIs DEF Paid, Signal
      <3>2. outbound' \in {outbound, Append(outbound, Signal("ping")), Append(outbound, Signal("drain"))} /\ credit' = credit
        BY <2>1 DEF KeepAlive, Drain
      <3> QED
        BY <1>2, <3>1, <3>2
    <2>2. CASE Lose \/ CloseBridge
      BY <1>3, <2>2 DEF Lose, CloseBridge, DropOutbound
    <2> QED
      BY <1>7, <2>1, <2>2 DEF BridgeStep
  <1>8. CASE HearStep
    <2>1. /\ outbound # <<>> /\ outbound' = Tail(outbound)
          /\ credit' = IF Paid(Head(outbound)) THEN credit + 1 ELSE credit
      BY <1>8, HearFrame DEF Paid
    <2>2. Cardinality(Credited(outbound')) = Cardinality(Credited(outbound)) - (IF Paid(Head(outbound)) THEN 1 ELSE 0)
      BY <1>0, <2>1, CreditedTail
    <2>3. CASE Paid(Head(outbound))
      BY <1>0, <1>c, <2>1, <2>2, <2>3 DEF CreditOK
    <2>4. CASE ~Paid(Head(outbound))
      BY <1>0, <1>c, <2>1, <2>2, <2>4 DEF CreditOK
    <2> QED
      BY <2>3, <2>4
  <1>9. CASE ClientStep
    BY <1>1, <1>9, ClientFrame
  <1>10. CASE SessionEnds
    BY <1>3, <1>10 DEF SessionEnds, DropOutbound
  <1> QED
    BY <1>4, <1>5, <1>6, <1>7, <1>8, <1>9, <1>10, Steps

\* A slot for every connection that is not over.
SlotsOK == visitors = Cardinality({c \in Conn : Active(c)})

LEMMA SlotsKept ==
    ASSUME ChannelsInv, ChannelsNext, ~clash'
    PROVE  SlotsOK'
  <1> DEFINE A == {c \in Conn : Active(c)}
  <1>0. visit \in [Conn -> {"new", "routed", "carried", "done"}] /\ SlotsOK
    BY DEF ChannelsInv, ChannelsTypeOK, VisitorTypes, Balanced, SlotsOK, Active
  <1>1. IsFiniteSet(A) /\ Cardinality(A) \in Nat
    BY ConstantsAre, FS_Subset, FS_CardinalityType
  <1>2. ASSUME UNCHANGED visitors, \A d \in Conn : Active(d)' <=> Active(d) PROVE SlotsOK'
    <2>1. A' = A
      BY <1>2
    <2> QED
      BY <1>0, <1>2, <2>1 DEF SlotsOK
  <1>3. ASSUME NEW c \in Conn, Active(c), visit' = [visit EXCEPT ![c] = "done"], visitors' = visitors - 1 PROVE SlotsOK'
    <2>1. A' = A \ {c} /\ c \in A
      BY <1>0, <1>3 DEF Active
    <2>2. Cardinality(A \ {c}) = Cardinality(A) - 1
      BY <1>1, <2>1, FS_RemoveElement
    <2> QED
      BY <1>0, <1>3, <2>1, <2>2 DEF SlotsOK
  <1>4. ASSUME NEW c \in Conn, VisitorStep(c) PROVE SlotsOK'
    <2>1. CASE Route(c)
      <3>1. visit[c] = "new" /\ visit' = [visit EXCEPT ![c] = "routed"] /\ visitors' = visitors + 1
        BY <2>1 DEF Route
      <3>2. A' = A \union {c} /\ c \notin A
        BY <1>0, <3>1 DEF Active
      <3>3. Cardinality(A \union {c}) = Cardinality(A) + 1
        BY <1>1, <3>2, FS_AddElement
      <3> QED
        BY <1>0, <3>1, <3>2, <3>3 DEF SlotsOK
    <2>2. CASE Carry(c)
      <3>1. visit[c] = "routed" /\ visit' = [visit EXCEPT ![c] = "carried"] /\ visitors' = visitors
        BY <2>2 DEF Carry
      <3>2. \A d \in Conn : Active(d)' <=> Active(d)
        BY <1>0, <3>1 DEF Active
      <3> QED
        BY <1>2, <3>1, <3>2
    <2>3. CASE Refuse(c) \/ Ended(c) \/ Idle(c)
      <3>1. Active(c) /\ visit' = [visit EXCEPT ![c] = "done"] /\ visitors' = visitors - 1
        BY <2>3 DEF Refuse, Ended, Idle, Over, Active
      <3> QED
        BY <1>3, <3>1
    <2>4. CASE Upload(c) \/ UploadEnd(c) \/ UploadError(c) \/ UploadAborted(c)
      <3>1. UNCHANGED <<visit, visitors>>
        BY <2>4 DEF Upload, UploadEnd, UploadError, UploadAborted, Uploading
      <3> QED
        BY <1>2, <3>1 DEF Active
    <2>5. CASE Written(c) \/ Progress(c) \/ WriteError(c) \/ DownloadEnd(c) \/ DownloadAborted(c)
      <3>1. UNCHANGED <<visit, visitors>>
        BY <2>5 DEF Written, Progress, WriteError, DownloadEnd, DownloadAborted, Downloading
      <3> QED
        BY <1>2, <3>1 DEF Active
    <2> QED
      BY <1>4, <2>1, <2>2, <2>3, <2>4, <2>5 DEF VisitorStep
  <1>5. CASE ReadStep \/ ReaderStep \/ BridgeStep \/ HearStep \/ ClientStep \/ SessionEnds
    <2>1. UNCHANGED <<visit, visitors>>
      BY <1>5, ReadFrame, ReaderFrame, BridgeFrame, HearFrame, ClientFrame, SessionFrame DEF visitorVars
    <2> QED
      BY <1>2, <2>1 DEF Active
  <1> QED
    BY <1>4, <1>5, Steps

LEMMA BalancedKept ==
    ASSUME ChannelsInv, ChannelsNext, ~clash'
    PROVE  Balanced'
  <1>1. outbound' \in Seq(MessageType)
    BY TypesKept DEF ChannelsTypeOK, QueueTypes
  <1>2. CreditedFrames' = Credited(outbound)'
    BY <1>1 DEF CreditedFrames, Credited, Paid
  <1> QED
    BY <1>2, SharesKept, HeldForKept, CreditKept, SlotsKept DEF Balanced, SharesOK, HeldFor, CreditOK, SlotsOK, Active

-----------------------------------------------------------------------------
(* Queues and outcomes. *)

\* Only data and its end wait with the data.
LEMMA ControlsPhaseKept ==
    ASSUME ChannelsInv, ChannelsNext, ~clash'
    PROVE  ControlsPhase'
  <1>0. controls \in Seq(MessageType) /\ ControlsPhase
    BY DEF ChannelsInv, ChannelsTypeOK, QueueTypes, Phases, ControlsPhase
  <1>1. CASE controls' = controls
    BY <1>0, <1>1 DEF ControlsPhase
  <1>2. ASSUME NEW m \in MessageType, m.t \in {"reset", "ping", "pong"}, controls' = Append(controls, m) PROVE ControlsPhase'
    <2>1. Range(controls') = Range(controls) \union {m}
      BY <1>0, <1>2, RangeIs
    <2> QED
      BY <1>0, <1>2, <2>1 DEF ControlsPhase
  <1>3. CASE ReadStep
    <2>1. controls' = controls \/ (controls # <<>> /\ controls' = Tail(controls))
      BY <1>3, ReadFrame
    <2>2. controls' = controls \/ Range(controls') \subseteq Range(controls)
      BY <1>0, <2>1, RangeIs
    <2> QED
      BY <1>0, <1>1, <2>2 DEF ControlsPhase
  <1>4. CASE HearStep
    <2>1. CASE RefuseOpen
      <3>1. Arriving \in MessageType
        BY <1>0, <1>4, HearFrame, HeadIs, MeansIs DEF Arriving
      <3>2. PICK m : m = [Arriving EXCEPT !.t = "reset"]
        OBVIOUS
      <3>3. m \in MessageType /\ m.t = "reset"
        BY <3>1, <3>2 DEF MessageType
      <3>4. controls' = Append(controls, m)
        BY <2>1, <3>2 DEF RefuseOpen, Control
      <3> QED
        BY <1>2, <3>3, <3>4
    <2>2. CASE HearPing
      <3>1. Signal("pong") \in MessageType /\ Signal("pong").t = "pong" /\ controls' = Append(controls, Signal("pong"))
        BY <2>2, SignalIs DEF HearPing, Control, Signal
      <3> QED
        BY <1>2, <3>1
    <2> QED
      BY <1>1, <1>4, <2>1, <2>2 DEF HearStep, AcceptOpen, Deliver, HearReset, HearPong
  <1>5. CASE ClientStep
    <2>1. CASE Heartbeat
      <3>1. Signal("ping") \in MessageType /\ Signal("ping").t = "ping" /\ controls' = Append(controls, Signal("ping"))
        BY <2>1, SignalIs DEF Heartbeat, Control, Signal
      <3> QED
        BY <1>2, <3>1
    <2>2. CASE Stalled
      <3>1. PICK c \in Conn : c = creader[1]
        BY <2>2 DEF Stalled, ChannelsInv, ChannelsTypeOK, QueueTypes
      <3>2. PICK m \in MessageType : m = Message("reset", c, 0) /\ m.t = "reset"
        BY MessageHas DEF ChannelsInv, ChannelsTypeOK, VisitorTypes
      <3>3. controls' = Append(controls, m)
        BY <2>2, <3>1, <3>2 DEF Stalled, Control
      <3> QED
        BY <1>2, <3>2, <3>3
    <2>3. CASE Delivered
      BY <1>1, <2>3 DEF Delivered
    <2>4. ASSUME NEW c \in Conn, TargetStep(c) PROVE controls' = controls
      BY <2>4 DEF TargetStep, Take, TakeEnd, Answer, AnswerEnds, ChannelDone, ChannelFails, TellFailed, Queue
    <2> QED
      BY <1>1, <1>5, <2>1, <2>2, <2>3, <2>4 DEF ClientStep
  <1>6. CASE SessionEnds
    <2>1. Range(controls') = {}
      BY <1>0, <1>6, RangeIs DEF SessionEnds
    <2> QED
      BY <2>1 DEF ControlsPhase
  <1> QED
    BY <1>1, <1>3, <1>4, <1>5, <1>6, Steps, VisitorFrame, ReaderFrame, BridgeFrame DEF clientVars

LEMMA FinishPhaseKept ==
    ASSUME ChannelsInv, ChannelsNext, ~clash'
    PROVE  FinishPhase'
  <1>0. FinishPhase /\ visit \in [Conn -> {"new", "routed", "carried", "done"}] /\ \A c \in Conn : visit'[c] = "new" => visit[c] = "new"
    <2>1. CASE \E c \in Conn : Route(c)
      BY <2>1 DEF ChannelsInv, ChannelsTypeOK, VisitorTypes, Phases, FinishPhase, Route
    <2>2. CASE \A c \in Conn : ~Route(c)
      BY <2>2, Ages DEF ChannelsInv, ChannelsTypeOK, VisitorTypes, Phases, FinishPhase
    <2> QED
      BY <2>1, <2>2
  <1>1. ASSUME NEW c \in Conn, finished' \subseteq finished \union {c}, visit[c] # "new" PROVE FinishPhase'
    BY <1>0, <1>1 DEF FinishPhase
  <1>2. CASE UNCHANGED finished
    BY <1>0, <1>2 DEF FinishPhase
  <1>3. ASSUME NEW c \in Conn, VisitorStep(c) PROVE FinishPhase'
    <2>1. CASE Route(c) \/ Carry(c) \/ Refuse(c) \/ UploadEnd(c) \/ UploadAborted(c) \/ Written(c) \/ Progress(c) \/ DownloadEnd(c) \/ DownloadAborted(c)
      BY <1>2, <2>1 DEF Route, Carry, Refuse, UploadEnd, UploadAborted, Written, Progress, DownloadEnd, DownloadAborted, finishVars
    <2>2. CASE Upload(c) \/ UploadError(c) \/ WriteError(c)
      <3>1. finished' \subseteq finished \union {c} /\ visit[c] = "carried"
        BY <2>2 DEF Upload, UploadError, WriteError, Uploading, Downloading, Finish, finishVars
      <3> QED
        BY <1>1, <3>1
    <2>3. CASE Ended(c) \/ Idle(c)
      <3>1. finished' \subseteq finished
        BY <2>3 DEF Ended, Idle, Over
      <3> QED
        BY <1>0, <3>1 DEF FinishPhase
    <2> QED
      BY <1>3, <2>1, <2>2, <2>3 DEF VisitorStep
  <1>4. \A n \in Number : channels[n] # None => visit[channels[n]] # "new"
    BY DEF ChannelsInv, Tables, Active
  <1>5. CASE ReadStep
    <2>1. CASE ReadEnd \/ ReadReset
      <3>1. Arrived.t \in {"data", "end", "reset"} /\ channels[Arrived.n] # None
        BY <2>1 DEF ReadEnd, ReadReset
      <3>2. visit[channels[Arrived.n]] # "new" /\ channels[Arrived.n] \in Conn
        BY <1>5, <3>1, ArrivedFinds
      <3>3. finished' \subseteq finished \union {channels[Arrived.n]}
        BY <2>1 DEF ReadEnd, ReadReset, Finish
      <3> QED
        BY <1>1, <3>2, <3>3
    <2> QED
      BY <1>2, <1>5, <2>1 DEF ReadStep, Ignore, ReadPing, ReadData, finishVars
  <1>6. ASSUME NEW c \in WithReader, finished' \subseteq finished \union {c} PROVE FinishPhase'
    <2>1. c \in Spoken
      BY <1>6 DEF Spoken
    <2> QED
      BY <1>1, <1>6, <2>1, SpokenIs
  <1>7. CASE ReaderStep
    <2>1. CASE ResetStalled
      <3>1. PICK c \in reader.todo : finished' \subseteq finished \union {c}
        BY <2>1 DEF ResetStalled, Reset, Finish
      <3>2. c \in WithReader
        BY <3>1, ConstantsAre DEF WithReader, ChannelsInv, ChannelsTypeOK, ReaderTypes
      <3> QED
        BY <1>6, <3>1, <3>2
    <2>2. CASE LastTry
      <3>1. finished' = finished \/ finished' \subseteq finished \union {reader.c}
        BY <2>2 DEF LastTry, Reset, Finish, finishVars
      <3>2. reader.c \in WithReader
        BY <2>2 DEF LastTry, WithReader, ChannelsInv, Phases
      <3> QED
        BY <1>2, <1>6, <3>1, <3>2
    <2> QED
      BY <1>2, <1>7, <2>1, <2>2 DEF ReaderStep, WaitEnds, Stall, Tell, finishVars
  <1>8. CASE BridgeStep
    <2>1. CASE CloseBridge
      <3>1. finished' = finished \union (Range(channels) \ {None})
        BY <2>1 DEF CloseBridge, Finish
      <3>2. \A c \in Range(channels) \ {None} : visit[c] # "new"
        BY <1>4 DEF Range, ChannelsInv, ChannelsTypeOK, BridgeTypes
      <3> QED
        BY <1>0, <3>1, <3>2, ConstantsAre DEF FinishPhase
    <2> QED
      BY <1>2, <1>8, <2>1 DEF BridgeStep, KeepAlive, Lose, Drain, finishVars
  <1> QED
    BY <1>2, <1>3, <1>5, <1>7, <1>8, Steps, HearFrame, ClientFrame, SessionFrame DEF finishVars

LEMMA PhasesKept ==
    ASSUME ChannelsInv, ChannelsNext, ~clash'
    PROVE  Phases'
  BY ReaderPhaseKept, ClosedKept, VisitPhaseKept, ClientPhaseKept, ControlsPhaseKept, FinishPhaseKept DEF Phases, ReaderPhase, VisitPhase, ClientPhase, CreaderPhase, ControlsPhase, FinishPhase

-----------------------------------------------------------------------------
(* From a target to its visitor. *)

\* No end of a target's stream is queued before the target ended it.
LEMMA DatasKept ==
    ASSUME ChannelsInv, ChannelsNext, ~clash'
    PROVE  /\ tend \subseteq tend'
           /\ \A c \in Conn : c \notin tend' => NoEnd(datas', c)
  <1>0. datas \in Seq(MessageType) /\ \A c \in Conn : c \notin tend => NoEnd(datas, c)
    BY DEF ChannelsInv, ChannelsTypeOK, QueueTypes, DownOK
  <1>1. CASE datas' = datas /\ tend' = tend
    BY <1>0, <1>1
  <1>2. ASSUME NEW c \in Conn, NEW m \in MessageType, datas' = Append(datas, m), tend \subseteq tend', m.t = "end" => m.c \in tend'
        PROVE  \A d \in Conn : d \notin tend' => NoEnd(datas', d)
    <2> TAKE d \in Conn
    <2> HAVE d \notin tend'
    <2>1. ~IsEnd(m, d)
      BY <1>2 DEF IsEnd
    <2> QED
      BY <1>0, <1>2, <2>1, NoEndAppend
  <1>3. CASE ReadStep
    <2>1. tend' = tend /\ (datas' = datas \/ (datas # <<>> /\ datas' = Tail(datas)))
      BY <1>3, ReadFrame
    <2> QED
      BY <1>0, <2>1, NoEndTail
  <1>4. ASSUME NEW c \in Conn, TargetStep(c) PROVE tend \subseteq tend' /\ \A d \in Conn : d \notin tend' => NoEnd(datas', d)
    <2>0. \A t \in {"data", "end", "reset"}, k \in Nat : Message(t, c, k) \in MessageType /\ Message(t, c, k).t = t /\ Message(t, c, k).c = c
      BY MessageHas DEF ChannelsInv, ChannelsTypeOK, VisitorTypes
    <2>1. CASE Take(c) \/ TakeEnd(c) \/ ChannelDone(c) \/ ChannelFails(c)
      BY <1>1, <2>1 DEF Take, TakeEnd, ChannelDone, ChannelFails, Leave
    <2>2. CASE Answer(c)
      <3>1. tsent[c] + 1 \in Nat
        BY DEF ChannelsInv, ChannelsTypeOK, ClientTypes
      <3>2. PICK m \in MessageType : m = Message("data", c, tsent[c] + 1) /\ m.t = "data"
        BY <2>0, <3>1
      <3>3. datas' = Append(datas, m) /\ tend' = tend
        BY <2>2, <3>2 DEF Answer, Queue
      <3> QED
        BY <1>2, <3>2, <3>3
    <2>3. CASE AnswerEnds(c)
      <3>1. PICK m \in MessageType : m = Message("end", c, 0) /\ m.c = c
        BY <2>0
      <3>2. datas' = Append(datas, m) /\ tend' = tend \union {c}
        BY <2>3, <3>1 DEF AnswerEnds, Queue
      <3> QED
        BY <1>2, <3>1, <3>2
    <2>4. CASE TellFailed(c)
      <3>1. PICK m \in MessageType : m = Message("reset", c, 0) /\ m.t = "reset"
        BY <2>0
      <3>2. datas' = Append(datas, m) /\ tend' = tend
        BY <2>4, <3>1 DEF TellFailed, Queue, Leave
      <3> QED
        BY <1>2, <3>1, <3>2
    <2> QED
      BY <1>4, <2>1, <2>2, <2>3, <2>4 DEF TargetStep
  <1>5. CASE Delivered \/ Stalled \/ Heartbeat
    BY <1>1, <1>5 DEF Delivered, Stalled, Heartbeat, Control, Leave
  <1>6. CASE SessionEnds
    BY <1>6 DEF SessionEnds, NoEnd
  <1>7. CASE HearStep
    <2>1. tend' = tend
      BY <1>7 DEF HearStep, RefuseOpen, AcceptOpen, Deliver, HearReset, HearPing, HearPong, Leave
    <2> QED
      BY <1>1, <1>7, <2>1, HearFrame
  <1> QED
    BY <1>1, <1>3, <1>4, <1>5, <1>6, <1>7, Steps, VisitorFrame, ReaderFrame, BridgeFrame DEF clientVars, ClientStep

LEMMA DownTypes ==
    ASSUME ChannelsInv, NEW c \in Conn
    PROVE  /\ inbound[c] \in Seq(Item) /\ got[c] \in Seq(Item) /\ Len(got[c]) \in Nat /\ tsent[c] \in Nat
           /\ DownFlow(c) \in Seq(Item) /\ DownCount(c) \in Nat /\ c # None
           /\ reader.c = c => reader.x \in Item /\ reader.x # EndOf(c)
  <1>1. inbound[c] \in Seq(Item) /\ got[c] \in Seq(Item) /\ Len(got[c]) \in Nat /\ tsent[c] \in Nat /\ c # None
    BY ConstantsAre DEF ChannelsInv, ChannelsTypeOK, HeldTypes, VisitorTypes, ClientTypes
  <1>2. reader.c = c => reader.x \in Item /\ reader.x # EndOf(c)
    BY <1>1, ReaderHas
  <1>3. DownFlow(c) \in Seq(Item)
    BY <1>1, <1>2 DEF DownFlow
  <1>4. Count(DownFlow(c), c) \in Nat
    BY <1>3, CountIs
  <1> QED
    BY <1>1, <1>2, <1>3, <1>4 DEF DownCount

\* What a step leaves alone of the way to c's visitor.
SameDown(c) ==
    /\ got'[c] = got[c] /\ vis'[c] = vis[c] /\ down'[c] = down[c] /\ visit'[c] = visit[c]
    /\ inbound'[c] = inbound[c] /\ tsent'[c] = tsent[c] /\ num'[c] = num[c] /\ (c \in tend => c \in tend')
SameStanding(c) ==
    /\ reader'.c = c <=> reader.c = c
    /\ reader.c = c => reader'.x = reader.x
    /\ channels'[num[c]] = c <=> channels[num[c]] = c
    /\ c \in abort' <=> c \in abort
    /\ c \in finished' <=> c \in finished
SameDatas(c) ==
    bridge' = "up" /\ channels'[num[c]] = c =>
      /\ bridge = "up"
      /\ \A lo \in Nat : Ordered(datas, c, lo, tsent[c]) => Ordered(datas', c, lo, tsent[c])

LEMMA DownSame ==
    ASSUME ChannelsInv, NEW c \in Conn, SameDown(c), SameStanding(c), SameDatas(c), Open' => Open, c \notin tend' => NoEnd(datas', c)
    PROVE  DownOK(c)'
  <1>0. DownOK(c) /\ DownCount(c) \in Nat
    BY DownTypes DEF ChannelsInv
  <1>1. DownFlow(c)' = DownFlow(c)
    BY DEF DownFlow, SameDown, SameStanding
  <1>2. DownCount(c)' = DownCount(c)
    BY <1>1 DEF DownCount, SameDown
  <1>3. EndRead(c) => EndRead(c)'
    BY DEF EndRead, SameDown, SameStanding, Ends, EndOf
  <1>4. \A i \in 1 .. Len(got'[c]) : got'[c][i] = <<c, i>>
    BY <1>0 DEF DownOK, SameDown
  <1>5. vis'[c] = "fin" => down'[c] # "run"
    BY <1>0 DEF DownOK, SameDown
  <1>6. visit'[c] = "carried" /\ down'[c] = "run" => Shape(DownFlow(c), c, Len(got[c]))'
    BY <1>0, <1>1 DEF DownOK, SameDown, Shape, EndOf
  <1>7. Ends(inbound[c], c)' => channels'[num'[c]] # c /\ reader'.c # c /\ c \in tend' /\ DownCount(c)' = tsent'[c]
    BY <1>0, <1>2 DEF DownOK, SameDown, SameStanding, Ends, EndOf
  <1>8. Active(c)' /\ c \notin abort' =>
          \/ channels'[num'[c]] = c /\ c \notin finished' /\ down'[c] # "done"
          \/ EndRead(c)'
    BY <1>0, <1>3 DEF DownOK, SameDown, SameStanding, Active
  <1>9. Active(c)' /\ c \notin abort' /\ channels'[num'[c]] = c /\ bridge' = "up" =>
          DownCount(c)' <= tsent'[c] /\ Ordered(datas', c, DownCount(c)', tsent'[c])
    BY <1>0, <1>2 DEF DownOK, SameDown, SameStanding, SameDatas, Active
  <1>10. Active(c)' /\ c \in abort' /\ channels'[num'[c]] = c => ~Open'
    BY <1>0 DEF DownOK, SameDown, SameStanding, Active
  <1> QED
    BY <1>4, <1>5, <1>6, <1>7, <1>8, <1>9, <1>10 DEF DownOK

\* A connection that is not underway.
\* What a visitor got stays when its connection is not, or no longer, carried.
LEMMA GotKept ==
    ASSUME ChannelsInv, ChannelsNext, NEW c \in Conn, ~Active(c)'
    PROVE  got'[c] = got[c]
  <1>0. VisitorTypes
    BY DEF ChannelsInv, ChannelsTypeOK
  <1>1. CASE UNCHANGED visitorVars
    BY <1>1 DEF visitorVars
  <1>2. ASSUME NEW d \in Conn, VisitorStep(d) PROVE got'[c] = got[c]
    <2>1. CASE Written(d)
      <3>1. c # d
        BY <2>1 DEF Written, Downloading, Active
      <3> QED
        BY <1>0, <2>1, <3>1 DEF Written, VisitorTypes
    <2>2. CASE Route(d) \/ Carry(d) \/ Refuse(d)
      BY <2>2 DEF Route, Carry, Refuse
    <2>3. CASE Upload(d) \/ UploadEnd(d) \/ UploadError(d) \/ UploadAborted(d)
      BY <2>3 DEF Upload, UploadEnd, UploadError, UploadAborted, Uploading
    <2>4. CASE Progress(d) \/ WriteError(d) \/ DownloadEnd(d) \/ DownloadAborted(d)
      BY <2>4 DEF Progress, WriteError, DownloadEnd, DownloadAborted
    <2>5. CASE Ended(d) \/ Idle(d)
      BY <2>5 DEF Ended, Idle, Over
    <2> QED
      BY <1>2, <2>1, <2>2, <2>3, <2>4, <2>5 DEF VisitorStep
  <1>3. CASE ReadStep \/ ReaderStep \/ BridgeStep \/ HearStep \/ ClientStep \/ SessionEnds
    BY <1>1, <1>3, ReadFrame, ReaderFrame, BridgeFrame, HearFrame, ClientFrame, SessionFrame
  <1> QED
    BY <1>2, <1>3, Steps

LEMMA DownIdle ==
    ASSUME ChannelsInv, ChannelsNext, ~clash', NEW c \in Conn, ~Active(c)'
    PROVE  DownOK(c)'
  <1>1. down'[c] = "off" /\ visit'[c] # "carried"
    BY VisitPhaseKept DEF VisitPhase, Active
  <1>2. inbound'[c] = <<>>
    BY <1>1, HeldForKept DEF HeldFor
  <1>3. ~Ends(inbound[c], c)'
    BY <1>2 DEF Ends
  <1>4. \A i \in 1 .. Len(got'[c]) : got'[c][i] = <<c, i>>
    BY GotKept DEF ChannelsInv, DownOK
  <1> QED
    BY <1>1, <1>3, <1>4, DatasKept DEF DownOK

\* A connection that is torn down: out of the table, or with its bridge.
LEMMA DownCut ==
    ASSUME ChannelsInv, ChannelsNext, ~clash', NEW c \in Conn, SameDown(c),
           reader'.c = c => reader.c = c /\ reader'.x = reader.x,
           channels'[num[c]] = c => channels[num[c]] = c /\ ~Open',
           c \notin abort' => c \notin abort /\ (c \in finished \/ channels[num[c]] # c)
    PROVE  DownOK(c)'
  <1>0. DownOK(c) /\ DownCount(c) \in Nat
    BY DownTypes DEF ChannelsInv
  <1>1. visit'[c] = "carried" /\ down'[c] = "run" => Shape(DownFlow(c), c, Len(got[c]))'
    <2>1. SUFFICES ASSUME visit[c] = "carried", down[c] = "run" PROVE Shape(DownFlow(c), c, Len(got[c]))'
      BY DEF SameDown
    <2>2. Shape(DownFlow(c), c, Len(got[c])) /\ Shape(inbound[c], c, Len(got[c]))
      BY <1>0, <2>1, InboundIs DEF DownOK
    <2>3. DownFlow(c)' = DownFlow(c) \/ DownFlow(c)' = inbound[c]
      BY DEF DownFlow, SameDown
    <2> QED
      BY <2>2, <2>3 DEF SameDown, Shape, EndOf
  <1>2. EndRead(c) => EndRead(c)'
    BY DEF EndRead, SameDown, Ends, EndOf
  <1>3. Active(c)' /\ c \notin abort' => EndRead(c) /\ channels[num[c]] # c
    BY <1>0 DEF DownOK, SameDown, Active, EndRead
  <1>4. Ends(inbound[c], c)' => channels'[num'[c]] # c /\ reader'.c # c /\ c \in tend' /\ DownCount(c)' = tsent'[c]
    <2>1. SUFFICES ASSUME Ends(inbound[c], c) PROVE channels'[num'[c]] # c /\ reader'.c # c /\ c \in tend' /\ DownCount(c)' = tsent'[c]
      BY DEF SameDown, Ends, EndOf
    <2>2. channels[num[c]] # c /\ reader.c # c /\ c \in tend /\ DownCount(c) = tsent[c]
      BY <1>0, <2>1 DEF DownOK
    <2>3. DownFlow(c)' = DownFlow(c)
      BY <2>2 DEF DownFlow, SameDown
    <2>4. DownCount(c)' = DownCount(c)
      BY <2>3 DEF DownCount, SameDown
    <2> QED
      BY <2>2, <2>4 DEF SameDown
  <1>5. (\A i \in 1 .. Len(got'[c]) : got'[c][i] = <<c, i>>) /\ (vis'[c] = "fin" => down'[c] # "run")
    BY <1>0 DEF DownOK, SameDown
  <1>6. channels'[num'[c]] = c => ~Open' /\ (Active(c)' => c \in abort')
    BY <1>3 DEF SameDown
  <1> QED
    BY <1>1, <1>2, <1>3, <1>4, <1>5, <1>6, DatasKept DEF DownOK

\* The download of a connection is over: ended, failed or torn down.
LEMMA DownClosed ==
    ASSUME ChannelsInv, ChannelsNext, ~clash', NEW c \in Conn, got'[c] = got[c], down'[c] = "done", inbound'[c] = <<>>,
           c \in abort' \/ EndRead(c)', channels'[num'[c]] = c => c \in abort' /\ ~Open'
    PROVE  DownOK(c)'
  <1>0. \A i \in 1 .. Len(got'[c]) : got'[c][i] = <<c, i>>
    BY DEF ChannelsInv, DownOK
  <1>1. ~Ends(inbound[c], c)'
    BY DEF Ends
  <1> QED
    BY <1>0, <1>1, DatasKept DEF DownOK

\* What the step of one connection leaves alone of another.
LEMMA VisitorElsewhere ==
    ASSUME ChannelsInv, ~clash', NEW c \in Conn, VisitorStep(c), NEW d \in Conn, d # c
    PROVE  /\ got'[d] = got[d] /\ vis'[d] = vis[d] /\ down'[d] = down[d] /\ up'[d] = up[d] /\ visit'[d] = visit[d]
           /\ inbound'[d] = inbound[d] /\ num'[d] = num[d] /\ sent'[d] = sent[d] /\ (d \in vend' <=> d \in vend)
           /\ d \in abort' <=> d \in abort
           /\ d \in finished' <=> d \in finished
  <1>0. VisitorTypes /\ HeldTypes
    BY DEF ChannelsInv, ChannelsTypeOK
  <1> USE <1>0 DEF VisitorTypes
  <1>1. CASE Route(c)
    <2>1. UNCHANGED <<up, down, vis, got, sent, vend, finished, abort, inbound>> /\ visit' = [visit EXCEPT ![c] = "routed"]
          /\ \E n \in Nat : num' = [num EXCEPT ![c] = n]
      BY <1>1, RouteIs DEF finishVars, heldVars, Number
    <2> QED
      BY <2>1
  <1>2. CASE Carry(c)
    BY <1>2 DEF Carry, finishVars, heldVars
  <1>3. CASE Refuse(c)
    BY <1>3 DEF Refuse, finishVars, heldVars
  <1>4. CASE Upload(c)
    <2>1. \E s : Uploading(c, s)
      BY <1>4 DEF Upload
    <2>2. (finished' = finished /\ abort' = abort) \/ Finish({c}, TRUE)
      BY <1>4 DEF Upload, finishVars
    <2>3. sent' = [sent EXCEPT ![c] = @ + 1] /\ vend' = vend
      BY <1>4 DEF Upload
    <2> QED
      BY <2>1, <2>2, <2>3 DEF Uploading, heldVars, Finish
  <1>5. CASE UploadEnd(c) \/ UploadAborted(c)
    BY <1>5 DEF UploadEnd, UploadAborted, Uploading, heldVars, finishVars
  <1>6. CASE UploadError(c)
    BY <1>6 DEF UploadError, Uploading, heldVars, Finish
  <1>7. CASE Written(c)
    BY <1>7 DEF Written, Downloading, finishVars, HeldTypes
  <1>8. CASE Progress(c)
    BY <1>8 DEF Progress, Downloading, finishVars
  <1>9. CASE WriteError(c)
    BY <1>9 DEF WriteError, Downloading, GiveBack, Finish, HeldTypes
  <1>10. CASE DownloadEnd(c)
    BY <1>10 DEF DownloadEnd, Downloading, GiveBack, finishVars, HeldTypes
  <1>11. CASE DownloadAborted(c)
    BY <1>11 DEF DownloadAborted, Downloading, GiveBack, finishVars, HeldTypes
  <1>12. CASE Ended(c)
    BY <1>12 DEF Ended, Over, heldVars
  <1>13. CASE Idle(c)
    BY <1>13 DEF Idle, Over, GiveBack, HeldTypes
  <1> QED
    BY <1>1, <1>2, <1>3, <1>4, <1>5, <1>6, <1>7, <1>8, <1>9, <1>10, <1>11, <1>12, <1>13 DEF VisitorStep

\* Taking one connection out of the table leaves the others in it.
LEMMA UnlistOther ==
    ASSUME ChannelsInv, NEW c \in Spoken, NEW d \in Spoken, d # c, Unlist(num[c])
    PROVE  channels'[num[d]] = channels[num[d]]
  <1>1. num[c] \in Number /\ num[d] \in Number /\ num[c] # num[d]
    BY SpokenIs DEF ChannelsInv, Tables
  <1> QED
    BY <1>1 DEF Unlist, ChannelsInv, ChannelsTypeOK, BridgeTypes

LEMMA UnlistThis ==
    ASSUME ChannelsInv, NEW c \in Spoken, Unlist(num[c])
    PROVE  channels'[num[c]] # c
  BY SpokenIs, ConstantsAre DEF Unlist, ChannelsInv, ChannelsTypeOK, BridgeTypes

\* The way to d's visitor, when another connection takes a step.
LEMMA DownElsewhere ==
    ASSUME ChannelsInv, ChannelsNext, ~clash', NEW c \in Conn, VisitorStep(c), NEW d \in Conn, d # c
    PROVE  DownOK(d)'
  <1>1. CASE ~Active(d)
    <2>1. ~Active(d)'
      BY <1>1, VisitorElsewhere DEF Active
    <2> QED
      BY <2>1, DownIdle
  <1>2. CASE Active(d)
    <2>1. d \in Spoken
      BY <1>2 DEF Spoken
    <2>2. UNCHANGED <<clientVars, bridge, reader>>
      BY VisitorFrame
    <2>3. channels'[num[d]] = d <=> channels[num[d]] = d
      <3>1. CASE channels' = channels
        BY <3>1
      <3>2. ASSUME c \in Spoken, Unlist(num[c]) PROVE channels'[num[d]] = d <=> channels[num[d]] = d
        BY <2>1, <3>2, UnlistOther
      <3>3. CASE Route(c)
        <4>1. PICK n \in Number : num[d] # n /\ channels' = [channels EXCEPT ![n] = c]
          BY <2>1, <3>3, RouteIs
        <4>2. channels \in [Number -> Conn \union {None}] /\ num[d] \in Number
          BY <2>1, SpokenIs DEF ChannelsInv, ChannelsTypeOK, BridgeTypes
        <4> QED
          BY <4>1, <4>2
      <3>4. CASE Carry(c) \/ Upload(c) \/ UploadEnd(c) \/ UploadAborted(c) \/ Written(c) \/ Progress(c) \/ DownloadEnd(c) \/ DownloadAborted(c)
        BY <3>1, <3>4 DEF Carry, Upload, UploadEnd, UploadAborted, Written, Progress, DownloadEnd, DownloadAborted
      <3>5. CASE Refuse(c) \/ UploadError(c) \/ WriteError(c) \/ Ended(c) \/ Idle(c)
        <4>1. Active(c) /\ Unlist(num[c])
          BY <3>5 DEF Refuse, UploadError, WriteError, Uploading, Downloading, Ended, Idle, Over, Active
        <4>2. c \in Spoken
          BY <4>1 DEF Spoken
        <4> QED
          BY <3>2, <4>1, <4>2
      <3> QED
        BY <3>3, <3>4, <3>5 DEF VisitorStep
    <2>4. SameDown(d)
      BY <2>2, VisitorElsewhere DEF SameDown, clientVars
    <2>5. SameStanding(d)
      BY <2>2, <2>3, VisitorElsewhere DEF SameStanding
    <2>6. SameDatas(d) /\ (Open' => Open)
      BY <2>2 DEF SameDatas, clientVars, Open
    <2> QED
      BY <2>4, <2>5, <2>6, DownSame, DatasKept
  <1> QED
    BY <1>1, <1>2

LEMMA DownRoute ==
    ASSUME ChannelsInv, ChannelsNext, ~clash', NEW c \in Conn, Route(c)
    PROVE  DownOK(c)'
  <1>0. /\ VisitorTypes /\ HeldTypes /\ BridgeTypes /\ datas \in Seq(MessageType) /\ c # None
    BY ConstantsAre DEF ChannelsInv, ChannelsTypeOK, QueueTypes
  <1>1. /\ visit[c] = "new" /\ c \notin Spoken /\ visit'[c] = "routed"
        /\ UNCHANGED <<down, vis, got, finished, abort, inbound, tsent, tend, datas, reader>>
    BY <1>0, RouteIs DEF VisitorTypes, finishVars, heldVars, clientVars
  <1>2. channels'[num'[c]] = c
    <2>1. PICK n \in Number : num' = [num EXCEPT ![c] = n] /\ channels' = [channels EXCEPT ![n] = c]
      BY RouteIs
    <2> QED
      BY <1>0, <2>1 DEF VisitorTypes, BridgeTypes
  <1>3. /\ down[c] = "off" /\ got[c] = <<>> /\ vis[c] = "open" /\ tsent[c] = 0 /\ c \notin finished /\ c \notin abort
        /\ inbound[c] = <<>>
    BY <1>0, <1>1 DEF ChannelsInv, Phases, Balanced, HeldTypes
  <1>4. reader.c # c /\ \A m \in Range(datas) : m.c # c
    BY <1>0, <1>1 DEF Spoken, WithReader, Underway
  <1>5. DownCount(c)' = 0
    BY <1>1, <1>3, <1>4 DEF DownCount, DownFlow, Count, Ends
  <1>6. Ordered(datas, c, 0, 0)
    BY <1>0, <1>4, OrderedNone
  <1>7. ~Ends(inbound[c], c)'
    BY <1>1, <1>3 DEF Ends
  <1>8. \A i \in 1 .. Len(got'[c]) : got'[c][i] = <<c, i>>
    BY <1>1, <1>3
  <1>9. 0 <= tsent'[c] /\ Ordered(datas', c, DownCount(c)', tsent'[c]) /\ DownCount(c)' <= tsent'[c]
    BY <1>1, <1>3, <1>5, <1>6
  <1> QED
    BY <1>1, <1>2, <1>3, <1>7, <1>8, <1>9, DatasKept DEF DownOK

LEMMA DownCarry ==
    ASSUME ChannelsInv, ChannelsNext, ~clash', NEW c \in Conn, Carry(c)
    PROVE  DownOK(c)'
  <1>0. VisitorTypes /\ HeldTypes /\ c # None /\ DownOK(c)
    BY ConstantsAre DEF ChannelsInv, ChannelsTypeOK
  <1>1. /\ visit[c] = "routed" /\ visit'[c] = "carried" /\ down'[c] = "run"
        /\ UNCHANGED <<num, vis, got, finished, abort, inbound, tsent, tend, datas, reader, bridge, channels>>
    BY <1>0 DEF Carry, VisitorTypes, finishVars, heldVars, clientVars
  <1>2. got[c] = <<>> /\ vis[c] = "open" /\ inbound[c] = <<>> /\ Active(c) /\ ~EndRead(c)
    BY <1>1 DEF ChannelsInv, Phases, Balanced, Active, EndRead
  <1>3. reader.c # c
    <2>1. ~Told(c)
      BY <1>1 DEF Told
    <2> QED
      BY <1>0, <2>1 DEF WithReader, ChannelsInv, Tables
  <1>4. DownFlow(c) = <<>> /\ DownFlow(c)' = <<>> /\ DownCount(c)' = DownCount(c)
    BY <1>1, <1>2, <1>3 DEF DownFlow, DownCount
  <1>5. Shape(DownFlow(c), c, Len(got[c]))'
    BY <1>4 DEF Shape
  <1>6. ~Ends(inbound[c], c)' /\ \A i \in 1 .. Len(got'[c]) : got'[c][i] = <<c, i>>
    BY <1>1, <1>2 DEF Ends
  <1>7. Active(c)' /\ c \notin abort' => channels'[num'[c]] = c /\ c \notin finished' /\ down'[c] # "done"
    BY <1>0, <1>1, <1>2 DEF DownOK
  <1>8. Active(c)' /\ c \notin abort' /\ channels'[num'[c]] = c /\ bridge' = "up" =>
          DownCount(c)' <= tsent'[c] /\ Ordered(datas', c, DownCount(c)', tsent'[c])
    BY <1>0, <1>1, <1>2, <1>4 DEF DownOK
  <1>9. Active(c)' /\ c \in abort' /\ channels'[num'[c]] = c => ~Open'
    BY <1>0, <1>1, <1>2 DEF DownOK, Open
  <1> QED
    BY <1>1, <1>2, <1>5, <1>6, <1>7, <1>8, <1>9, DatasKept DEF DownOK

\* The visitor takes the first frame that waits: the next of its stream.
LEMMA DownWritten ==
    ASSUME ChannelsInv, ChannelsNext, ~clash', NEW c \in Conn, Written(c)
    PROVE  DownOK(c)'
  <1>0. VisitorTypes /\ HeldTypes /\ c # None /\ DownOK(c)
    BY ConstantsAre DEF ChannelsInv, ChannelsTypeOK
  <1>1. /\ visit[c] = "carried" /\ down[c] = "run" /\ visit' = visit /\ down'[c] = "run"
        /\ UNCHANGED <<num, vis, finished, abort, tsent, tend, datas, reader, bridge, channels>>
        /\ inbound'[c] = Tail(inbound[c]) /\ got'[c] = Append(got[c], Head(inbound[c]))
        /\ inbound[c] # <<>> /\ Head(inbound[c]) # EndOf(c)
    BY <1>0 DEF Written, Downloading, Waiting, Ending, VisitorTypes, HeldTypes, finishVars, clientVars
  <1>2. PICK s \in Seq(Item) : s = inbound[c] /\ Shape(s, c, Len(got[c])) /\ Len(got[c]) \in Nat
    BY <1>1, InboundIs
  <1>3. Head(s) = <<c, Len(got[c]) + 1>> /\ Shape(Tail(s), c, Len(got[c]) + 1) /\ (Ends(Tail(s), c) <=> Ends(s, c)) /\ Count(s, c) = Count(Tail(s), c) + 1
    BY <1>1, <1>2, ShapeTail
  <1>4. Len(got'[c]) = Len(got[c]) + 1 /\ \A i \in 1 .. Len(got'[c]) : got'[c][i] = <<c, i>>
    <2>1. got[c] \in Seq(Item) /\ Head(s) \in Item
      BY <1>0, <1>1, <1>2, TailIs DEF VisitorTypes
    <2>2. PICK g \in Seq(Item) : g = got[c]
      BY <2>1
    <2>6. PICK x \in Item : x = Head(s)
      BY <2>1
    <2>7. PICK h : h = Append(g, x)
      OBVIOUS
    <2>3. h = Append(g, Head(s)) /\ Len(h) = Len(g) + 1 /\ Len(g) \in Nat /\ h[Len(g) + 1] = Head(s) /\ \A i \in 1 .. Len(g) : h[i] = g[i]
      BY <2>2, <2>6, <2>7, AppendIs
    <2>4. \A i \in 1 .. Len(g) : g[i] = <<c, i>>
      BY <1>0, <2>2 DEF DownOK
    <2>5. \A i \in 1 .. Len(h) : h[i] = <<c, i>>
      BY <1>3, <2>2, <2>3, <2>4
    <2> QED
      BY <1>1, <1>2, <2>2, <2>3, <2>5
  <1>5. PICK w \in Seq(Item) : w = DownFlow(c) /\ Shape(w, c, Len(got[c]))
    BY <1>0, <1>1, DownTypes DEF DownOK
  <1>6. w # <<>> /\ Head(w) = Head(s) /\ DownFlow(c)' = Tail(w)
    <2>1. CASE reader.c = c
      <3>1. PICK x \in Item : x = reader.x /\ w = Append(s, x)
        BY <1>2, <1>5, <2>1, DownTypes DEF DownFlow
      <3>2. DownFlow(c)' = Append(Tail(s), x)
        BY <1>1, <1>2, <2>1, <3>1 DEF DownFlow
      <3>3. Tail(Append(s, x)) = Append(Tail(s), x) /\ Head(Append(s, x)) = Head(s) /\ Append(s, x) # <<>>
        BY <1>1, <1>2, <3>1, TailAppend, AppendIs
      <3> QED
        BY <3>1, <3>2, <3>3
    <2>2. CASE reader.c # c
      BY <1>1, <1>2, <1>5, <2>2 DEF DownFlow
    <2> QED
      BY <2>1, <2>2
  <1>7. Shape(Tail(w), c, Len(got[c]) + 1) /\ Count(w, c) = Count(Tail(w), c) + 1 /\ Count(Tail(w), c) \in Nat
    BY <1>1, <1>2, <1>5, <1>6, ShapeTail, TailIs, CountIs
  <1>8. DownCount(c)' = DownCount(c)
    <2>1. DownCount(c)' = Len(got'[c]) + Count(Tail(w), c)
      BY <1>6 DEF DownCount
    <2>2. DownCount(c) = Len(got[c]) + Count(w, c)
      BY <1>5 DEF DownCount
    <2>3. PICK a \in Nat, b \in Nat : a = Len(got[c]) /\ b = Count(Tail(w), c) /\ Count(w, c) = b + 1 /\ Len(got'[c]) = a + 1
      BY <1>2, <1>4, <1>7
    <2>4. (a + 1) + b = a + (b + 1)
      OBVIOUS
    <2> QED
      BY <2>1, <2>2, <2>3, <2>4
  <1>9. Shape(DownFlow(c), c, Len(got[c]))'
    BY <1>4, <1>6, <1>7 DEF Shape, EndOf
  <1>10. Ends(inbound[c], c)' <=> Ends(inbound[c], c)
    BY <1>1, <1>2, <1>3 DEF Ends, EndOf
  <1>11. vis[c] # "fin"
    BY <1>0, <1>1 DEF DownOK
  <1>12. EndRead(c) => EndRead(c)'
    BY <1>1, <1>10, <1>11 DEF EndRead
  <1>13. Ends(inbound[c], c)' => channels'[num'[c]] # c /\ reader'.c # c /\ c \in tend' /\ DownCount(c)' = tsent'[c]
    BY <1>0, <1>1, <1>8, <1>10 DEF DownOK
  <1>14. Active(c)' /\ c \notin abort' =>
          \/ channels'[num'[c]] = c /\ c \notin finished' /\ down'[c] # "done"
          \/ EndRead(c)'
    BY <1>0, <1>1, <1>12 DEF DownOK, Active
  <1>15. Active(c)' /\ c \notin abort' /\ channels'[num'[c]] = c /\ bridge' = "up" =>
          DownCount(c)' <= tsent'[c] /\ Ordered(datas', c, DownCount(c)', tsent'[c])
    BY <1>0, <1>1, <1>8 DEF DownOK, Active
  <1>16. Active(c)' /\ c \in abort' /\ channels'[num'[c]] = c => ~Open'
    BY <1>0, <1>1 DEF DownOK, Active, Open
  <1> QED
    BY <1>1, <1>4, <1>9, <1>11, <1>13, <1>14, <1>15, <1>16, DatasKept DEF DownOK

LEMMA DownVisitor ==
    ASSUME ChannelsInv, ChannelsNext, ~clash', NEW c \in Conn, VisitorStep(c)
    PROVE  DownOK(c)'
  <1>0. VisitorTypes /\ HeldTypes /\ c # None /\ DownOK(c) /\ UNCHANGED <<clientVars, bridge, reader>>
    BY ConstantsAre, VisitorFrame DEF ChannelsInv, ChannelsTypeOK
  <1>1. CASE Refuse(c) \/ Ended(c) \/ Idle(c)
    <2>1. ~Active(c)'
      BY <1>0, <1>1 DEF Refuse, Ended, Idle, Over, Active, VisitorTypes
    <2> QED
      BY <2>1, DownIdle
  <1>2. ASSUME UNCHANGED <<got, vis, visit, num, inbound>>, down'[c] = down[c] PROVE SameDown(c)
    BY <1>0, <1>2 DEF SameDown, clientVars
  <1>3. ASSUME UNCHANGED <<got, vis, visit, num, inbound, channels, finished, abort>>, down'[c] = down[c] PROVE DownOK(c)'
    <2>1. SameStanding(c) /\ SameDatas(c) /\ (Open' => Open)
      BY <1>0, <1>3 DEF SameStanding, SameDatas, clientVars, Open
    <2> QED
      BY <1>2, <1>3, <2>1, DownSame, DatasKept
  <1>4. CASE UploadEnd(c) \/ UploadAborted(c)
    BY <1>3, <1>4 DEF UploadEnd, UploadAborted, Uploading, heldVars, finishVars
  <1>5. CASE Progress(c)
    <2>1. UNCHANGED <<got, vis, visit, num, inbound, channels, finished, abort>> /\ down'[c] = down[c]
      BY <1>0, <1>5 DEF Progress, Downloading, finishVars, VisitorTypes
    <2> QED
      BY <1>3, <2>1
  <1>6. CASE Upload(c)
    <2>1. UNCHANGED <<got, vis, visit, num, inbound, channels, down>>
      BY <1>6 DEF Upload, Uploading, heldVars
    <2>2. CASE Open
      BY <1>3, <1>6, <2>1, <2>2 DEF Upload, finishVars
    <2>3. CASE ~Open
      <3>1. finished' = finished \union {c} /\ abort' = abort \union ({c} \ finished) /\ ~Open'
        BY <1>0, <1>6, <2>3 DEF Upload, Finish, Open
      <3> QED
        BY <1>0, <1>2, <2>1, <3>1, DownCut
    <2> QED
      BY <2>2, <2>3
  <1>7. CASE UploadError(c)
    <2>1. UNCHANGED <<got, vis, visit, num, inbound, down>> /\ finished' = finished \union {c} /\ abort' = abort \union ({c} \ finished)
          /\ visit[c] = "carried" /\ Unlist(num[c])
      BY <1>7 DEF UploadError, Uploading, Finish, heldVars
    <2>2. channels'[num[c]] # c
      BY <2>1, UnlistThis DEF Spoken, Active
    <2> QED
      BY <1>0, <1>2, <2>1, <2>2, DownCut
  <1>8. CASE WriteError(c)
    <2>1. /\ UNCHANGED <<got, vis, visit, num>> /\ finished' = finished \union {c} /\ abort' = abort \union ({c} \ finished)
          /\ visit[c] = "carried" /\ Unlist(num[c]) /\ down[c] = "run" /\ down'[c] = "done" /\ inbound'[c] = <<>>
      BY <1>0, <1>8 DEF WriteError, Downloading, Finish, GiveBack, VisitorTypes, HeldTypes
    <2>2. channels'[num'[c]] # c
      BY <2>1, UnlistThis DEF Spoken, Active
    <2>3. c \notin abort' => EndRead(c) /\ vis[c] # "fin"
      BY <1>0, <2>1 DEF DownOK, Active
    <2>4. EndRead(c) /\ vis[c] # "fin" => EndRead(c)'
      BY <1>0, <2>1, <2>2 DEF EndRead, clientVars
    <2> QED
      BY <2>1, <2>2, <2>3, <2>4, DownClosed
  <1>9. CASE DownloadAborted(c)
    <2>1. /\ UNCHANGED <<got, vis, visit, num, finished, abort, channels>> /\ visit[c] = "carried" /\ c \in abort
          /\ down'[c] = "done" /\ inbound'[c] = <<>>
      BY <1>0, <1>9 DEF DownloadAborted, Downloading, GiveBack, VisitorTypes, HeldTypes, finishVars
    <2>2. channels'[num'[c]] = c => ~Open'
      BY <1>0, <2>1 DEF DownOK, Active, Open
    <2> QED
      BY <2>1, <2>2, DownClosed
  <1>10. CASE DownloadEnd(c)
    <2>1. /\ UNCHANGED <<got, visit, num, finished, abort, channels>> /\ visit[c] = "carried" /\ down[c] = "run"
          /\ down'[c] = "done" /\ inbound'[c] = <<>> /\ vis'[c] = "fin" /\ Active(c)
      BY <1>0, <1>10 DEF DownloadEnd, Downloading, GiveBack, VisitorTypes, HeldTypes, finishVars, Active
    <2>2. CASE Ending(c)
      <3>1. Len(inbound[c]) = 1 /\ Ends(inbound[c], c) /\ Count(inbound[c], c) = 0 /\ Len(got[c]) \in Nat
        BY <2>1, <2>2, InboundIs, ShapeEnd DEF Ending
      <3>2. channels[num[c]] # c /\ reader.c # c /\ c \in tend /\ DownCount(c) = tsent[c]
        BY <1>0, <3>1 DEF DownOK
      <3>3. Len(got[c]) = tsent[c]
        BY <3>1, <3>2 DEF DownCount, DownFlow
      <3>4. EndRead(c)' /\ channels'[num'[c]] # c
        BY <1>0, <2>1, <3>2, <3>3 DEF EndRead, clientVars
      <3> QED
        BY <2>1, <3>4, DownClosed
    <2>3. CASE inbound[c] = <<>> /\ Orphan(c)
      <3>1. channels[num[c]] # c /\ reader.c # c
        <4>1. num[c] \in Number /\ channels \in [Number -> Conn \union {None}]
          BY <2>1 DEF ChannelsInv, ChannelsTypeOK, BridgeTypes, Tables
        <4> QED
          BY <2>3, <4>1 DEF Orphan, Range
      <3>2. c \in abort
        BY <1>0, <2>1, <2>3, <3>1 DEF DownOK, EndRead, Ends
      <3> QED
        BY <2>1, <3>1, <3>2, DownClosed
    <2> QED
      BY <1>10, <2>2, <2>3 DEF DownloadEnd
  <1> QED
    BY <1>1, <1>4, <1>5, <1>6, <1>7, <1>8, <1>9, <1>10, DownRoute, DownCarry, DownWritten DEF VisitorStep

\* The frames of d in the client's queue, when the bridge's reader takes another message.
LEMMA ReadDatas ==
    ASSUME ChannelsInv, ReadStep, NEW d \in Conn,
           \/ ~(Arrived.t \in {"data", "end"} /\ Arrived.c = d)
           \/ bridge # "up" \/ channels'[num[d]] # d
    PROVE  SameDatas(d)
  <1>0. datas \in Seq(MessageType) /\ tsent[d] \in Nat /\ bridge' = bridge
    BY ReadFrame DEF ChannelsInv, ChannelsTypeOK, QueueTypes, ClientTypes
  <1>1. CASE bridge # "up" \/ channels'[num[d]] # d
    BY <1>0, <1>1 DEF SameDatas
  <1>2. CASE ~(Arrived.t \in {"data", "end"} /\ Arrived.c = d)
    <2>1. CASE datas' = datas
      BY <1>0, <2>1 DEF SameDatas
    <2>2. CASE datas # <<>> /\ datas' = Tail(datas) /\ Arrived = Head(datas)
      <3>1. ~IsData(Head(datas), d) /\ ~IsEnd(Head(datas), d)
        BY <1>2, <2>2 DEF IsData, IsEnd
      <3> QED
        BY <1>0, <2>2, <3>1, OrderedTailOther DEF SameDatas
    <2> QED
      BY <2>1, <2>2, ReadFrame
  <1> QED
    BY <1>1, <1>2

\* A connection in the table that data or an end arrives for: both are the next of its stream.
LEMMA DownNext ==
    ASSUME ChannelsInv, ReadStep, NEW c \in Conn, c = Arrived.c, channels[Arrived.n] = c, bridge = "up",
           Arrived.t \in {"data", "end"}
    PROVE  /\ visit[c] = "carried" /\ down[c] = "run" /\ c \notin abort /\ c \notin finished /\ vis[c] # "fin"
           /\ num[c] = Arrived.n /\ channels[num[c]] = c /\ c \in Spoken
           /\ DownFlow(c) = inbound[c] /\ reader.c = None /\ ~Ends(inbound[c], c)
           /\ Shape(inbound[c], c, Len(got[c])) /\ DownCount(c) = Len(got[c]) + Len(inbound[c])
           /\ datas # <<>> /\ Arrived = Head(datas) /\ datas' = Tail(datas)
           /\ DownCount(c) <= tsent[c] /\ Ordered(datas, c, DownCount(c), tsent[c])
  <1>0. /\ DownOK(c) /\ VisitorTypes /\ None \notin Conn
        /\ reader.c = None /\ DownFlow(c) = inbound[c]
    BY ConstantsAre, ReadFrame, ReadingIs DEF ChannelsInv, ChannelsTypeOK, Phases, DownFlow
  <1>1. /\ visit[c] = "carried" /\ down[c] \in {"run", "done"} /\ num[c] = Arrived.n /\ channels[num[c]] = c /\ c \in Spoken
    BY <1>0, ArrivedFinds
  <1>2. c \notin abort
    BY <1>0, <1>1 DEF DownOK, Active, Open
  <1>3. c \notin finished /\ down[c] = "run"
    BY <1>0, <1>1, <1>2 DEF DownOK, Active, EndRead
  <1>4. vis[c] # "fin"
    BY <1>0, <1>3 DEF DownOK, VisitorTypes
  <1>5. ~Ends(inbound[c], c) /\ Shape(inbound[c], c, Len(got[c]))
    BY <1>0, <1>1, <1>3, InboundIs DEF DownOK
  <1>6. DownCount(c) = Len(got[c]) + Len(inbound[c])
    BY <1>0, <1>5 DEF DownCount, Count
  <1>7. DownCount(c) <= tsent[c] /\ Ordered(datas, c, DownCount(c), tsent[c])
    BY <1>0, <1>1, <1>2 DEF DownOK, Active
  <1>8. datas # <<>> /\ Arrived = Head(datas) /\ datas' = Tail(datas)
    <2>1. controls # <<>> => Head(controls) \in Range(controls)
      BY RangeIs DEF ChannelsInv, ChannelsTypeOK, QueueTypes
    <2>2. ~(controls # <<>> /\ Arrived = Head(controls))
      BY <2>1 DEF ChannelsInv, Phases
    <2> QED
      BY <2>2, ReadFrame
  <1> QED
    BY <1>0, <1>1, <1>2, <1>3, <1>4, <1>5, <1>6, <1>7, <1>8

LEMMA DownReadData ==
    ASSUME ChannelsInv, ChannelsNext, ~clash', ReadData, NEW c \in Conn, c = Arrived.c
    PROVE  DownOK(c)'
  <1>0. ReadStep /\ bridge = "up" /\ Arrived.t = "data" /\ channels[Arrived.n] = c /\ HeldTypes /\ VisitorTypes /\ c # None
    BY ArrivedFinds, ConstantsAre DEF ReadData, ReadStep, ChannelsInv, ChannelsTypeOK
  <1>1. /\ visit[c] = "carried" /\ down[c] = "run" /\ c \notin abort /\ c \notin finished /\ vis[c] # "fin"
        /\ num[c] = Arrived.n /\ channels[num[c]] = c /\ reader.c = None /\ ~Ends(inbound[c], c)
    BY <1>0, DownNext
  <1>2. UNCHANGED <<visit, num, down, vis, got, tsent, tend, bridge, finished, abort, channels>>
    BY <1>0, ReadFrame DEF ReadData, visitorVars, finishVars
  <1>3. PICK n \in Nat : n = DownCount(c) /\ n <= tsent[c] /\ Ordered(datas, c, n, tsent[c]) /\ tsent[c] \in Nat /\ n = Len(got[c]) + Len(inbound[c])
    BY <1>0, DownNext, DownTypes
  <1>4. Arrived.k = n + 1 /\ n + 1 <= tsent[c] /\ Ordered(datas', c, n + 1, tsent[c])
    <2>1. datas \in Seq(MessageType) /\ datas # <<>> /\ Arrived = Head(datas) /\ datas' = Tail(datas)
      BY <1>0, DownNext DEF ChannelsInv, ChannelsTypeOK, QueueTypes
    <2>2. IsData(Head(datas), c)
      BY <1>0, <2>1 DEF IsData
    <2> QED
      BY <1>3, <2>1, <2>2, OrderedTailData
  <1>5. PICK x \in Item : x = <<c, Arrived.k>> /\ x # EndOf(c) /\ x = <<c, n + 1>>
    BY <1>0, <1>4, ArrivedFinds
  <1>6. DownFlow(c)' = Append(inbound[c], x) /\ (inbound'[c] = inbound[c] \/ inbound'[c] = Append(inbound[c], x))
    <2>1. CASE Fits(c)
      <3>1. inbound' = [inbound EXCEPT ![c] = Append(@, x)] /\ reader' = reader
        BY <1>0, <1>1, <1>5, <2>1 DEF ReadData, Hold
      <3> QED
        BY <1>0, <1>1, <3>1 DEF DownFlow, HeldTypes
    <2>2. CASE ~Fits(c)
      <3>1. inbound' = inbound /\ reader' = [Reading EXCEPT !.at = "wait", !.c = c, !.x = x]
        BY <1>0, <1>5, <2>2 DEF ReadData
      <3>2. reader'.c = c /\ reader'.x = x
        BY <3>1 DEF Reading
      <3> QED
        BY <3>1, <3>2 DEF DownFlow
    <2> QED
      BY <2>1, <2>2
  <1>7. PICK s \in Seq(Item) : s = inbound[c] /\ Shape(s, c, Len(got[c])) /\ Len(got[c]) \in Nat /\ ~Ends(s, c)
    BY <1>0, <1>1, InboundIs
  <1>8. x = <<c, Len(got[c]) + Len(s) + 1>>
    <2>1. n = Len(got[c]) + Len(s)
      BY <1>3, <1>7
    <2> QED
      BY <1>5, <2>1
  <1>9. Shape(Append(s, x), c, Len(got[c])) /\ ~Ends(Append(s, x), c) /\ Count(Append(s, x), c) = Len(s) + 1
    <2>1. PICK g \in Nat : g = Len(got[c]) /\ Shape(s, c, g) /\ x = <<c, g + Len(s) + 1>>
      BY <1>7, <1>8
    <2>3. s \in Seq(Item) /\ x \in Item /\ Shape(s, c, g) /\ ~Ends(s, c) /\ (x = <<c, g + Len(s) + 1>> \/ x = EndOf(c))
      BY <1>7, <2>1
    <2>2. /\ Shape(Append(s, x), c, g) /\ (Ends(Append(s, x), c) <=> x = EndOf(c))
          /\ Count(Append(s, x), c) = IF x = EndOf(c) THEN Len(s) ELSE Len(s) + 1
      BY <2>3, ShapeAppend, Zenon
    <2> QED
      BY <1>5, <2>1, <2>2
  <1>10. Shape(DownFlow(c), c, Len(got[c]))' /\ ~Ends(inbound[c], c)'
    BY <1>2, <1>6, <1>7, <1>9 DEF Shape, Ends, EndOf
  <1>11. DownCount(c)' = n + 1
    <2>1. DownCount(c)' = Len(got[c]) + Count(Append(s, x), c)
      BY <1>2, <1>6, <1>7 DEF DownCount
    <2>2. PICK a \in Nat, b \in Nat : a = Len(got[c]) /\ b = Len(s) /\ Count(Append(s, x), c) = b + 1 /\ n = a + b
      <3>1. Len(s) \in Nat
        BY <1>7
      <3> QED
        BY <1>3, <1>7, <1>9, <3>1
    <2>3. a + (b + 1) = (a + b) + 1
      OBVIOUS
    <2> QED
      BY <2>1, <2>2, <2>3
  <1>12. \A i \in 1 .. Len(got'[c]) : got'[c][i] = <<c, i>>
    BY <1>2 DEF ChannelsInv, DownOK
  <1>13. DownCount(c)' <= tsent'[c] /\ Ordered(datas', c, DownCount(c)', tsent'[c])
    BY <1>2, <1>4, <1>11
  <1> QED
    BY <1>1, <1>2, <1>10, <1>12, <1>13, DatasKept DEF DownOK

LEMMA DownReadEnd ==
    ASSUME ChannelsInv, ChannelsNext, ~clash', ReadEnd, NEW c \in Conn, c = Arrived.c
    PROVE  DownOK(c)'
  <1>0. ReadStep /\ bridge = "up" /\ Arrived.t = "end" /\ channels[Arrived.n] = c /\ HeldTypes /\ VisitorTypes /\ c # None
    BY ArrivedFinds, ConstantsAre DEF ReadEnd, ReadStep, ChannelsInv, ChannelsTypeOK
  <1>1. /\ visit[c] = "carried" /\ down[c] = "run" /\ c \notin abort /\ c \notin finished /\ vis[c] # "fin"
        /\ num[c] = Arrived.n /\ channels[num[c]] = c /\ reader.c = None /\ ~Ends(inbound[c], c) /\ c \in Spoken
    BY <1>0, DownNext
  <1>2. UNCHANGED <<visit, num, down, vis, got, tsent, tend, bridge, abort, reader>> /\ Unlist(num[c])
        /\ inbound'[c] = Append(inbound[c], EndOf(c))
    BY <1>0, <1>1, ReadFrame DEF ReadEnd, visitorVars, Finish, HeldTypes
  <1>3. PICK n \in Nat : n = DownCount(c) /\ n <= tsent[c] /\ Ordered(datas, c, n, tsent[c]) /\ tsent[c] \in Nat /\ n = Len(got[c]) + Len(inbound[c])
    BY <1>0, DownNext, DownTypes
  <1>4. n = tsent[c] /\ c \in tend
    <2>1. datas \in Seq(MessageType) /\ datas # <<>> /\ Arrived = Head(datas)
      BY <1>0, DownNext DEF ChannelsInv, ChannelsTypeOK, QueueTypes
    <2>2. IsEnd(Head(datas), c)
      BY <1>0, <2>1 DEF IsEnd
    <2>3. ~NoEnd(datas, c)
      <3>1. Len(datas) \in Nat \ {0} /\ Head(datas) = datas[1]
        BY <2>1, TailIs
      <3> QED
        BY <2>2, <3>1 DEF NoEnd
    <2>4. c \in tend
      BY <2>3 DEF ChannelsInv, DownOK
    <2> QED
      BY <1>3, <2>1, <2>2, <2>4, OrderedTailEnd
  <1>5. channels'[num'[c]] # c
    BY <1>1, <1>2, UnlistThis
  <1>6. DownFlow(c)' = Append(inbound[c], EndOf(c))
    BY <1>0, <1>1, <1>2 DEF DownFlow
  <1>7. PICK s \in Seq(Item) : s = inbound[c] /\ Shape(s, c, Len(got[c])) /\ Len(got[c]) \in Nat /\ ~Ends(s, c)
    BY <1>0, <1>1, InboundIs
  <1>8. PICK x \in Item : x = EndOf(c)
    BY EndIs
  <1>9. Shape(Append(s, x), c, Len(got[c])) /\ Ends(Append(s, x), c) /\ Count(Append(s, x), c) = Len(s)
    BY <1>7, <1>8, ShapeAppend
  <1>10. Shape(DownFlow(c), c, Len(got[c]))' /\ Ends(inbound[c], c)'
    BY <1>2, <1>6, <1>7, <1>8, <1>9 DEF Shape, Ends, EndOf
  <1>11. DownCount(c)' = n
    <2>1. DownCount(c)' = Len(got[c]) + Count(Append(s, x), c)
      BY <1>2, <1>6, <1>7, <1>8 DEF DownCount
    <2> QED
      BY <1>3, <1>7, <1>9, <2>1
  <1>12. \A i \in 1 .. Len(got'[c]) : got'[c][i] = <<c, i>>
    BY <1>2 DEF ChannelsInv, DownOK
  <1>13. EndRead(c)'
    BY <1>0, <1>1, <1>2, <1>4, <1>5, <1>10 DEF EndRead
  <1> QED
    BY <1>0, <1>1, <1>2, <1>4, <1>5, <1>10, <1>11, <1>12, <1>13, DatasKept DEF DownOK

LEMMA DownRead ==
    ASSUME ChannelsInv, ChannelsNext, ~clash', ReadStep, NEW d \in Conn
    PROVE  DownOK(d)'
  <1>0. /\ UNCHANGED <<visit, num, down, vis, got, tsent, tend, bridge>> /\ reader.c = None /\ d # None
        /\ HeldTypes /\ VisitorTypes
    BY ReadFrame, ReadingIs, ConstantsAre DEF visitorVars, ChannelsInv, ChannelsTypeOK, Phases
  <1>1. CASE ~Active(d)
    BY <1>0, <1>1, DownIdle DEF Active
  <1>2. ASSUME Active(d), inbound'[d] = inbound[d], SameStanding(d), SameDatas(d) PROVE DownOK(d)'
    <2>1. SameDown(d) /\ (Open' => Open)
      BY <1>0, <1>2 DEF SameDown, Open
    <2> QED
      BY <1>2, <2>1, DownSame, DatasKept
  <1>3. ASSUME Active(d), Ignore PROVE DownOK(d)'
    <2>1. SameStanding(d) /\ inbound' = inbound /\ channels' = channels
      BY <1>3 DEF Ignore, SameStanding, finishVars, heldVars
    <2>2. Arrived.t \in {"data", "end"} /\ Arrived.c = d => bridge # "up" \/ channels[num[d]] # d
      BY <1>0, <1>3, ArrivedIs DEF Ignore
    <2> QED
      BY <1>2, <1>3, <2>1, <2>2, ReadDatas
  <1>4. ASSUME Active(d), ReadPing PROVE DownOK(d)'
    <2>1. reader' = [Reading EXCEPT !.at = "tell", !.tell = Signal("pong")] /\ Arrived.t = "ping"
      BY <1>4 DEF ReadPing
    <2>2. reader'.c = None
      BY <2>1 DEF Reading
    <2>3. SameStanding(d) /\ inbound' = inbound
      BY <1>0, <1>4, <2>2 DEF ReadPing, SameStanding, finishVars, heldVars
    <2> QED
      BY <1>2, <1>4, <2>1, <2>3, ReadDatas
  <1>5. ASSUME ReadData \/ ReadEnd \/ ReadReset
        PROVE  \E c \in Conn : c = Arrived.c /\ c = channels[Arrived.n] /\ Arrived.n = num[c] /\ c \in Spoken
    <2>1. Arrived.t \in {"data", "end", "reset"} /\ channels[Arrived.n] # None
      BY <1>5 DEF ReadData, ReadEnd, ReadReset
    <2> QED
      BY <2>1, ArrivedFinds
  <1>6. ASSUME Active(d), ReadData, d # Arrived.c PROVE DownOK(d)'
    <2>1. PICK c \in Conn : c = Arrived.c /\ c = channels[Arrived.n]
      BY <1>5, <1>6
    <2>2. UNCHANGED <<finished, abort, channels>>
      BY <1>6 DEF ReadData, finishVars
    <2>3. reader'.c # d /\ inbound'[d] = inbound[d]
      <3>1. CASE Fits(c)
        <4>1. Hold(c, <<c, Arrived.k>>) /\ reader' = reader
          BY <1>6, <2>1, <3>1 DEF ReadData
        <4>2. inbound' = inbound \/ inbound' = [inbound EXCEPT ![c] = Append(@, <<c, Arrived.k>>)]
          BY <4>1 DEF Hold
        <4> QED
          BY <1>0, <1>6, <2>1, <4>1, <4>2 DEF HeldTypes
      <3>2. CASE ~Fits(c)
        <4>1. reader' = [Reading EXCEPT !.at = "wait", !.c = c, !.x = <<c, Arrived.k>>] /\ inbound' = inbound
          BY <1>6, <2>1, <3>2 DEF ReadData
        <4>2. reader'.c = c
          BY <4>1 DEF Reading
        <4> QED
          BY <1>6, <2>1, <4>1, <4>2
      <3> QED
        BY <3>1, <3>2
    <2>4. SameStanding(d)
      BY <1>0, <2>2, <2>3 DEF SameStanding
    <2> QED
      BY <1>2, <1>6, <2>3, <2>4, ReadDatas
  <1>7. ASSUME Active(d), ReadEnd \/ ReadReset, d # Arrived.c PROVE DownOK(d)'
    <2>1. PICK c \in Conn : c = Arrived.c /\ c = channels[Arrived.n] /\ Arrived.n = num[c] /\ c \in Spoken
      BY <1>5, <1>7
    <2>2. Unlist(num[c]) /\ reader' = reader /\ d \in Spoken
      BY <1>7, <2>1 DEF ReadEnd, ReadReset, Spoken
    <2>3. channels'[num[d]] = channels[num[d]]
      BY <1>7, <2>1, <2>2, UnlistOther
    <2>4. (d \in finished' <=> d \in finished) /\ (d \in abort' <=> d \in abort)
      BY <1>7, <2>1 DEF ReadEnd, ReadReset, Finish
    <2>5. inbound'[d] = inbound[d]
      BY <1>0, <1>7, <2>1 DEF ReadEnd, ReadReset, heldVars, HeldTypes
    <2>6. SameStanding(d)
      BY <2>2, <2>3, <2>4 DEF SameStanding
    <2> QED
      BY <1>2, <1>7, <2>5, <2>6, ReadDatas
  <1>8. ASSUME ReadReset, d = Arrived.c PROVE DownOK(d)'
    <2>1. d = channels[Arrived.n] /\ Arrived.n = num[d] /\ d \in Spoken
      BY <1>5, <1>8
    <2>2. Unlist(num[d]) /\ reader' = reader /\ inbound' = inbound /\ finished' = finished \union {d} /\ abort' = abort \union ({d} \ finished)
      BY <1>8, <2>1 DEF ReadReset, Finish, heldVars
    <2>3. channels'[num[d]] # d
      BY <2>1, <2>2, UnlistThis
    <2>4. SameDown(d)
      BY <1>0, <2>2 DEF SameDown
    <2> QED
      BY <1>0, <2>2, <2>3, <2>4, DownCut
  <1> QED
    BY <1>1, <1>3, <1>4, <1>6, <1>7, <1>8, DownReadData, DownReadEnd DEF ReadStep

\* A reset: for the connection itself, and for the others.
LEMMA DownReset ==
    ASSUME ChannelsInv, ChannelsNext, ~clash', NEW c \in Spoken, NEW todo, NEW stays \in {reader.c, None}, stays = None => reader.c \in {None, c},
           Reset(c, todo, stays), ReaderStep, NEW d \in Conn
    PROVE  DownOK(d)'
  <1>0. UNCHANGED <<visit, num, down, vis, got, tsent, tend, bridge, datas, inbound>> /\ d # None /\ c \in Conn
    BY ReaderFrame, ConstantsAre, SpokenIs DEF visitorVars, clientVars, Reset, heldVars
  <1>1. CASE ~Active(d)
    BY <1>0, <1>1, DownIdle DEF Active
  <1>2. /\ Unlist(num[c]) /\ finished' = finished \union ({c} \ Done) /\ abort' = abort \union (({c} \ Done) \ finished)
        /\ reader'.c = stays /\ reader'.x = reader.x
    BY DEF Reset, Finish
  <1>3. SameDown(d)
    BY <1>0 DEF SameDown
  <1>4. CASE Active(d) /\ d = c
    <2>1. d \notin Done
      BY <1>4 DEF Active, Done
    <2>2. channels'[num[d]] # d
      BY <1>2, <1>4, UnlistThis
    <2> QED
      BY <1>0, <1>2, <1>3, <1>4, <2>1, <2>2, DownCut
  <1>5. CASE Active(d) /\ d # c
    <2>1. channels'[num[d]] = channels[num[d]]
      BY <1>2, <1>5, UnlistOther DEF Spoken
    <2>2. SameStanding(d)
      BY <1>0, <1>2, <1>5, <2>1 DEF SameStanding
    <2>3. SameDatas(d) /\ (Open' => Open)
      BY <1>0 DEF SameDatas, Open
    <2> QED
      BY <1>3, <2>2, <2>3, DownSame, DatasKept
  <1> QED
    BY <1>1, <1>4, <1>5

\* What the reader waited with joins what is queued, or is dropped with a download that is over.
LEMMA DownHold ==
    ASSUME ChannelsInv, ChannelsNext, ~clash', ReaderStep, NEW c \in Conn, c = reader.c, reader' = Reading,
           Hold(c, reader.x) \/ (inbound' = inbound /\ channels[num[c]] = None),
           UNCHANGED <<finished, abort, channels>>, NEW d \in Conn
    PROVE  DownOK(d)'
  <1>0. /\ UNCHANGED <<visit, num, down, vis, got, tsent, tend, bridge, datas>> /\ d # None /\ c # None
        /\ HeldTypes /\ VisitorTypes /\ reader'.c = None /\ DownOK(c)
    BY ReaderFrame, ConstantsAre, ReadingIs DEF visitorVars, clientVars, ChannelsInv, ChannelsTypeOK
  <1>1. CASE ~Active(d)
    BY <1>0, <1>1, DownIdle DEF Active
  <1>2. inbound' = inbound \/ inbound' = [inbound EXCEPT ![c] = Append(@, reader.x)]
    BY DEF Hold
  <1>3. CASE d # c
    <2>1. inbound'[d] = inbound[d]
      BY <1>0, <1>2, <1>3 DEF HeldTypes
    <2>2. SameDown(d) /\ SameStanding(d) /\ SameDatas(d) /\ (Open' => Open)
      BY <1>0, <1>3, <2>1 DEF SameDown, SameStanding, SameDatas, Open
    <2> QED
      BY <2>2, DownSame, DatasKept
  <1>4. CASE Active(c) /\ d = c /\ inbound' = inbound
    <2>1. SameDown(c)
      BY <1>0, <1>4 DEF SameDown
    <2>2. channels[num[c]] = None \/ down[c] = "done"
      <3>1. visit[c] # "done"
        BY <1>4 DEF Active
      <3>2. inbound[c] \in Seq(Item) /\ reader.x \in Item /\ Append(inbound[c], reader.x) # inbound[c]
        <4>1. inbound[c] \in Seq(Item) /\ reader.x \in Item
          BY DownTypes
        <4>2. Len(Append(inbound[c], reader.x)) # Len(inbound[c])
          BY <4>1, AppendIs
        <4> QED
          BY <4>1, <4>2
      <3>3. inbound' # [inbound EXCEPT ![c] = Append(@, reader.x)]
        BY <1>0, <1>4, <3>2 DEF HeldTypes
      <3> QED
        BY <3>1, <3>3 DEF Hold
    <2>3. channels[num[c]] # c \/ (c \in abort /\ ~Open)
      BY <1>0, <1>4, <2>2 DEF DownOK, EndRead
    <2>4. Open' => Open
      BY <1>0 DEF Open
    <2> QED
      BY <1>0, <1>4, <2>1, <2>3, <2>4, DownCut
  <1>5. CASE Active(c) /\ d = c /\ inbound' = [inbound EXCEPT ![c] = Append(@, reader.x)]
    <2>1. inbound'[c] = Append(inbound[c], reader.x) /\ inbound[c] \in Seq(Item) /\ reader.x \in Item /\ reader.x # EndOf(c)
      BY <1>0, <1>5, DownTypes DEF HeldTypes
    <2>2. DownFlow(c)' = DownFlow(c)
      BY <1>0, <2>1 DEF DownFlow
    <2>3. DownCount(c)' = DownCount(c)
      BY <1>0, <2>2 DEF DownCount
    <2>4. ~Ends(inbound[c], c)'
      <3>1. PICK s \in Seq(Item) : s = inbound[c]
        BY <2>1
      <3>2. PICK x \in Item : x = reader.x /\ x # EndOf(c)
        BY <2>1
      <3>3. Len(Append(s, x)) = Len(s) + 1 /\ Append(s, x)[Len(s) + 1] = x
        BY AppendIs
      <3>4. ~Ends(Append(s, x), c)
        BY <3>2, <3>3 DEF Ends
      <3> QED
        BY <2>1, <3>1, <3>2, <3>4
    <2>5. ~EndRead(c)
      BY DEF EndRead
    <2>6. Shape(DownFlow(c), c, Len(got[c]))' \/ ~(visit'[c] = "carried" /\ down'[c] = "run")
      BY <1>0, <2>2 DEF DownOK, Shape, EndOf
    <2>7. (\A i \in 1 .. Len(got'[c]) : got'[c][i] = <<c, i>>) /\ (vis'[c] = "fin" => down'[c] # "run")
      BY <1>0 DEF DownOK
    <2>8. Active(c)' /\ c \notin abort' => channels'[num'[c]] = c /\ c \notin finished' /\ down'[c] # "done"
      BY <1>0, <1>5, <2>5 DEF DownOK
    <2>9. Active(c)' /\ c \notin abort' /\ channels'[num'[c]] = c /\ bridge' = "up" =>
            DownCount(c)' <= tsent'[c] /\ Ordered(datas', c, DownCount(c)', tsent'[c])
      BY <1>0, <1>5, <2>3 DEF DownOK
    <2>10. Active(c)' /\ c \in abort' /\ channels'[num'[c]] = c => ~Open'
      BY <1>0, <1>5 DEF DownOK, Open
    <2> QED
      BY <1>5, <2>4, <2>6, <2>7, <2>8, <2>9, <2>10, DatasKept DEF DownOK
  <1> QED
    BY <1>1, <1>2, <1>3, <1>4, <1>5

LEMMA DownReader ==
    ASSUME ChannelsInv, ChannelsNext, ~clash', ReaderStep, NEW d \in Conn
    PROVE  DownOK(d)'
  <1>0. /\ UNCHANGED <<visit, num, down, vis, got, tsent, tend, bridge, datas>> /\ d # None /\ ReaderTypes
    BY ReaderFrame, ConstantsAre DEF visitorVars, clientVars, ChannelsInv, ChannelsTypeOK
  <1>1. CASE WaitEnds
    <2>1. PICK c \in Conn : c = reader.c
      BY <1>1, ReaderHas DEF WaitEnds, ChannelsInv, Phases
    <2> QED
      BY <1>1, <2>1, DownHold DEF WaitEnds, finishVars
  <1>2. ASSUME UNCHANGED <<inbound, finished, abort, channels>>, reader'.c = reader.c, reader'.x = reader.x \/ reader.c = None PROVE DownOK(d)'
    <2>1. SameDown(d) /\ SameStanding(d) /\ SameDatas(d) /\ (Open' => Open)
      BY <1>0, <1>2 DEF SameDown, SameStanding, SameDatas, Open
    <2> QED
      BY <2>1, DownSame, DatasKept
  <1>3. CASE Stall
    <2>1. reader'.c = reader.c /\ reader'.x = reader.x
      BY <1>0, <1>3 DEF Stall, ReaderTypes
    <2> QED
      BY <1>2, <1>3, <2>1 DEF Stall, finishVars
  <1>4. CASE ResetStalled
    <2>1. PICK c \in reader.todo : Reset(c, reader.todo \ {c}, reader.c)
      BY <1>4 DEF ResetStalled
    <2>2. c \in Spoken
      BY <1>0, <2>1, ConstantsAre DEF Spoken, WithReader, ReaderTypes
    <2>3. reader.c = None => reader.c \in {None, c}
      OBVIOUS
    <2> QED
      BY <2>1, <2>2, <2>3, DownReset
  <1>5. CASE LastTry
    <2>1. reader.c # None
      BY <1>5 DEF LastTry, ChannelsInv, Phases
    <2>2. PICK c \in Conn : c = reader.c /\ c \in Spoken
      BY <2>1, ReaderHas
    <2>3. CASE channels[num[c]] = None \/ Fits(c)
      <3>1. reader' = Reading /\ UNCHANGED <<finished, abort, channels>>
        BY <1>5, <2>2, <2>3 DEF LastTry, finishVars
      <3>2. Hold(c, reader.x) \/ (inbound' = inbound /\ channels[num[c]] = None)
        BY <1>5, <2>2, <2>3 DEF LastTry
      <3> QED
        BY <2>2, <3>1, <3>2, DownHold
    <2>4. CASE ~(channels[num[c]] = None \/ Fits(c))
      <3>1. Reset(c, {}, None)
        BY <1>5, <2>2, <2>4 DEF LastTry
      <3> QED
        BY <2>2, <3>1, DownReset
    <2> QED
      BY <2>3, <2>4
  <1>6. CASE Tell
    <2>1. CASE reader.c = None
      BY <1>2, <1>6, <2>1, ReadingIs DEF Tell, heldVars, finishVars
    <2>2. CASE reader.c # None
      <3>1. reader' = [reader EXCEPT !.at = "stall", !.tell = Signal("none")]
        BY <1>6, <2>2 DEF Tell
      <3>2. reader'.c = reader.c /\ reader'.x = reader.x
        BY <1>0, <3>1 DEF ReaderTypes
      <3> QED
        BY <1>2, <1>6, <3>2 DEF Tell, heldVars, finishVars
    <2> QED
      BY <2>1, <2>2
  <1> QED
    BY <1>1, <1>3, <1>4, <1>5, <1>6 DEF ReaderStep

LEMMA DownBridge ==
    ASSUME ChannelsInv, ChannelsNext, ~clash', BridgeStep, NEW d \in Conn
    PROVE  DownOK(d)'
  <1>0. /\ UNCHANGED <<visit, num, down, vis, got, tsent, tend, inbound, datas>> /\ d # None
    BY BridgeFrame, ConstantsAre DEF visitorVars
  <1>1. SameDown(d)
    BY <1>0 DEF SameDown
  <1>2. CASE KeepAlive \/ Lose \/ Drain
    <2>1. UNCHANGED <<finished, abort, channels, reader>> /\ (bridge' = "up" => bridge = "up") /\ (Open' => Open)
      BY <1>2 DEF KeepAlive, Lose, Drain, finishVars, Open
    <2>2. SameStanding(d) /\ SameDatas(d)
      BY <1>0, <2>1 DEF SameStanding, SameDatas
    <2> QED
      BY <1>1, <2>1, <2>2, DownSame, DatasKept
  <1>3. CASE CloseBridge
    <2>1. CASE ~Active(d)
      BY <1>0, <2>1, DownIdle DEF Active
    <2>2. CASE Active(d)
      <3>1. /\ reader'.c = None /\ abort' = abort \union ((Range(channels) \ {None}) \ finished)
            /\ channels' = [n \in DOMAIN channels |-> None]
        BY <1>3, ReadingIs DEF CloseBridge, Finish
      <3>2. num[d] \in Number /\ channels \in [Number -> Conn \union {None}]
        BY <2>2 DEF ChannelsInv, ChannelsTypeOK, BridgeTypes, Tables, Active
      <3>3. channels'[num[d]] # d
        BY <1>0, <3>1, <3>2
      <3>4. channels[num[d]] = d => d \in Range(channels)
        BY <3>2 DEF Range
      <3> QED
        BY <1>0, <1>1, <3>1, <3>3, <3>4, DownCut
    <2> QED
      BY <2>1, <2>2
  <1> QED
    BY <1>2, <1>3 DEF BridgeStep

\* The target's answer: the next frame of its stream, or its end.
LEMMA DownAnswer ==
    ASSUME ChannelsInv, ChannelsNext, ~clash', NEW c \in Conn, Answer(c)
    PROVE  DownOK(c)'
  <1>0. /\ UNCHANGED <<visit, num, down, vis, got, inbound, reader, channels, finished, abort, bridge, tend>>
        /\ tsent[c] \in Nat /\ tsent'[c] = tsent[c] + 1 /\ DownOK(c) /\ task[c] = "run"
        /\ datas' = Append(datas, Message("data", c, tsent[c] + 1))
    BY DEF Answer, Serving, ClientOnly, ServerSide, visitorVars, finishVars, heldVars, Queue, ChannelsInv, ChannelsTypeOK, ClientTypes
  <1>1. c \notin tend
    BY <1>0 DEF ChannelsInv, Phases
  <1>2. DownFlow(c)' = DownFlow(c)
    BY <1>0 DEF DownFlow
  <1>3. DownCount(c)' = DownCount(c) /\ DownCount(c) \in Nat
    BY <1>0, <1>2, DownTypes DEF DownCount
  <1>4. ~EndRead(c) /\ ~Ends(inbound[c], c) /\ ~Ends(inbound[c], c)'
    <2>1. ~EndRead(c) /\ ~Ends(inbound[c], c)
      BY <1>0, <1>1 DEF EndRead, DownOK
    <2> QED
      BY <1>0, <2>1 DEF Ends, EndOf
  <1>5. Active(c)' /\ c \notin abort' /\ channels'[num'[c]] = c /\ bridge' = "up" =>
          DownCount(c)' <= tsent'[c] /\ Ordered(datas', c, DownCount(c)', tsent'[c])
    <2>1. SUFFICES ASSUME Active(c), c \notin abort, channels[num[c]] = c, bridge = "up"
                   PROVE  DownCount(c)' <= tsent'[c] /\ Ordered(datas', c, DownCount(c)', tsent'[c])
      BY <1>0 DEF Active
    <2>2. DownCount(c) <= tsent[c] /\ Ordered(datas, c, DownCount(c), tsent[c]) /\ NoEnd(datas, c) /\ datas \in Seq(MessageType)
      BY <1>0, <1>1, <2>1 DEF DownOK, ChannelsInv, ChannelsTypeOK, QueueTypes
    <2>10. PICK k \in Nat : k = tsent[c] + 1
      BY <1>0
    <2>11. num \in [Conn -> Nat]
      BY DEF ChannelsInv, ChannelsTypeOK, VisitorTypes
    <2>12. PICK m \in MessageType : m = Message("data", c, k) /\ m.t = "data" /\ m.c = c /\ m.k = k
      BY <2>11, MessageHas
    <2>3. m = Message("data", c, tsent[c] + 1) /\ IsData(m, c) /\ m.k = tsent[c] + 1
      BY <2>10, <2>12 DEF IsData
    <2>4. PICK lo \in Nat : lo = DownCount(c)
      BY <1>3
    <2>5. PICK hi \in Nat : hi = tsent[c]
      BY <1>0
    <2>9. lo <= hi /\ Ordered(datas, c, lo, hi) /\ NoEnd(datas, c) /\ datas \in Seq(MessageType) /\ IsData(m, c) /\ m.k = hi + 1
      BY <2>2, <2>3, <2>4, <2>5
    <2>6. Ordered(Append(datas, m), c, lo, hi + 1)
      BY <2>9, OrderedAppendData
    <2>7. DownCount(c)' = lo /\ tsent'[c] = hi + 1 /\ datas' = Append(datas, m) /\ lo <= hi
      BY <1>0, <1>3, <2>2, <2>3, <2>4, <2>5
    <2>8. lo <= hi + 1
      BY <2>7
    <2> QED
      BY <2>6, <2>7, <2>8
  <1>6. Shape(DownFlow(c), c, Len(got[c]))' \/ ~(visit'[c] = "carried" /\ down'[c] = "run")
    BY <1>0, <1>2 DEF DownOK, Shape, EndOf
  <1>7. (\A i \in 1 .. Len(got'[c]) : got'[c][i] = <<c, i>>) /\ (vis'[c] = "fin" => down'[c] # "run")
    BY <1>0 DEF DownOK
  <1>8. Active(c)' /\ c \notin abort' => channels'[num'[c]] = c /\ c \notin finished' /\ down'[c] # "done"
    BY <1>0, <1>4 DEF DownOK, Active
  <1>9. Active(c)' /\ c \in abort' /\ channels'[num'[c]] = c => ~Open'
    BY <1>0 DEF DownOK, Open, Active
  <1> QED
    BY <1>4, <1>5, <1>6, <1>7, <1>8, <1>9, DatasKept DEF DownOK

LEMMA DownClient ==
    ASSUME ChannelsInv, ChannelsNext, ~clash', HearStep \/ ClientStep \/ SessionEnds, NEW d \in Conn
    PROVE  DownOK(d)'
  <1>0. /\ UNCHANGED <<visit, num, down, vis, got, inbound, reader, channels, finished, abort>>
        /\ datas \in Seq(MessageType) /\ num \in [Conn -> Nat] /\ tsent \in [Conn -> Nat]
    BY HearFrame, ClientFrame, SessionFrame DEF visitorVars, finishVars, heldVars, ChannelsInv, ChannelsTypeOK, QueueTypes, VisitorTypes, ClientTypes
  <1>1. tend \subseteq tend' /\ (d \notin tend' => NoEnd(datas', d)) /\ SameStanding(d)
    BY <1>0, DatasKept DEF SameStanding
  <1>2. ASSUME tsent'[d] = tsent[d], SameDatas(d), Open' => Open PROVE DownOK(d)'
    <2>1. SameDown(d)
      BY <1>0, <1>1, <1>2 DEF SameDown
    <2> QED
      BY <1>1, <1>2, <2>1, DownSame
  <1>3. CASE SessionEnds
    BY <1>0, <1>2, <1>3 DEF SessionEnds, SameDatas, Open
  <1>4. CASE HearStep
    <2>1. tsent' = tsent /\ datas' = datas /\ bridge' = bridge
      BY <1>4, HearFrame DEF HearStep, RefuseOpen, AcceptOpen, Deliver, HearReset, HearPing, HearPong, Leave
    <2> QED
      BY <1>2, <2>1 DEF SameDatas, Open
  <1>5. CASE Delivered \/ Stalled \/ Heartbeat
    <2>1. tsent' = tsent /\ datas' = datas /\ bridge' = bridge
      BY <1>5 DEF Delivered, Stalled, Heartbeat, Leave, Control, ClientOnly
    <2> QED
      BY <1>2, <2>1 DEF SameDatas, Open
  <1>6. ASSUME NEW c \in Conn, TargetStep(c) PROVE DownOK(d)'
    <2>0. bridge' = bridge
      BY <1>6, ClientFrame DEF ClientStep
    <2>1. CASE Take(c) \/ TakeEnd(c) \/ ChannelDone(c) \/ ChannelFails(c)
      <3>1. tsent' = tsent /\ datas' = datas
        BY <2>1 DEF Take, TakeEnd, ChannelDone, ChannelFails, Leave
      <3> QED
        BY <1>2, <2>0, <3>1 DEF SameDatas, Open
    <2>2. ASSUME NEW m \in MessageType, datas' = Append(datas, m), tsent'[d] = tsent[d], ~IsData(m, d), ~IsEnd(m, d) \/ NoEnd(datas, d) PROVE DownOK(d)'
      <3>1. ASSUME NEW lo \in Nat, Ordered(datas, d, lo, tsent[d]) PROVE Ordered(datas', d, lo, tsent[d])
        <4>1. CASE ~IsEnd(m, d)
          BY <1>0, <2>2, <3>1, <4>1, OrderedAppendOther
        <4>2. CASE IsEnd(m, d)
          BY <1>0, <2>2, <3>1, <4>2, OrderedAppendEnd
        <4> QED
          BY <4>1, <4>2
      <3> QED
        BY <1>2, <2>0, <2>2, <3>1 DEF SameDatas, Open
    <2>3. CASE Answer(c)
      <3>1. CASE d = c
        BY <2>3, <3>1, DownAnswer
      <3>2. CASE d # c
        <4>1. PICK m \in MessageType : m = Message("data", c, tsent[c] + 1) /\ m.c = c
          <5>1. tsent[c] + 1 \in Nat
            BY <1>0
          <5> QED
            BY <1>0, <5>1, MessageHas
        <4>2. datas' = Append(datas, m) /\ tsent'[d] = tsent[d]
          BY <1>0, <2>3, <3>2, <4>1 DEF Answer, Queue
        <4> QED
          BY <2>2, <3>2, <4>1, <4>2 DEF IsData, IsEnd
      <3> QED
        BY <3>1, <3>2
    <2>4. CASE AnswerEnds(c)
      <3>1. PICK m \in MessageType : m = Message("end", c, 0) /\ m.c = c /\ m.t = "end"
        BY <1>0, MessageHas
      <3>2. datas' = Append(datas, m) /\ tsent' = tsent /\ task[c] = "run"
        BY <2>4, <3>1 DEF AnswerEnds, Queue
      <3>3. NoEnd(datas, c)
        BY <3>2 DEF ChannelsInv, Phases, DownOK
      <3> QED
        BY <2>2, <3>1, <3>2, <3>3 DEF IsData, IsEnd
    <2>5. CASE TellFailed(c)
      <3>1. PICK m \in MessageType : m = Message("reset", c, 0) /\ m.t = "reset"
        BY <1>0, MessageHas
      <3>2. datas' = Append(datas, m) /\ tsent' = tsent
        BY <2>5, <3>1 DEF TellFailed, Queue, Leave
      <3> QED
        BY <2>2, <3>1, <3>2 DEF IsData, IsEnd
    <2> QED
      BY <1>6, <2>1, <2>3, <2>4, <2>5 DEF TargetStep
  <1> QED
    BY <1>3, <1>4, <1>5, <1>6 DEF ClientStep

LEMMA DownKept ==
    ASSUME ChannelsInv, ChannelsNext, ~clash'
    PROVE  \A d \in Conn : DownOK(d)'
  <1> TAKE d \in Conn
  <1>1. ASSUME NEW c \in Conn, VisitorStep(c) PROVE DownOK(d)'
    BY <1>1, DownVisitor, DownElsewhere
  <1> QED
    BY <1>1, Steps, DownRead, DownReader, DownBridge, DownClient

-----------------------------------------------------------------------------
(* From a visitor to its target. *)

\* What a step leaves alone of the way to c's target.
SameUp(c) ==
    /\ tgot'[c] = tgot[c] /\ sent'[c] = sent[c] /\ UpFlow(c)' = UpFlow(c)
    /\ c \in vend' <=> c \in vend
    /\ c \in tfin' <=> c \in tfin
    /\ Running(c)' <=> Running(c)
    /\ task[c] = "off" => task'[c] = "off"
    /\ up'[c] = "run" => up[c] = "run"
    /\ Told(c) => Told(c)'
SameOut(c) ==
    /\ Opening(c)' => Opening(c)
    /\ NoEnd(outbound, c) => NoEnd(outbound', c)
    /\ Open' => Open /\ \A lo, hi \in Nat : Ordered(outbound, c, lo, hi) => Ordered(outbound', c, lo, hi)
    /\ OpenFirst(c)'

LEMMA OutAppend ==
    ASSUME ChannelsInv, NEW c \in Conn, NEW m \in MessageType, Irrelevant(m, c), outbound' = Append(outbound, m), Open' => Open
    PROVE  SameOut(c)
  <1>0. outbound \in Seq(MessageType) /\ OpenFirst(c)
    BY DEF ChannelsInv, ChannelsTypeOK, QueueTypes, UpOK
  <1>1. ~IsData(m, c) /\ ~IsEnd(m, c) /\ ~IsOpen(m, c)
    BY DEF IsData, IsEnd, IsOpen, Irrelevant
  <1>2. NoEnd(outbound, c) => NoEnd(outbound', c)
    BY <1>0, <1>1, NoEndAppend
  <1>3. \A lo, hi \in Nat : Ordered(outbound, c, lo, hi) => Ordered(outbound', c, lo, hi)
    BY <1>0, <1>1, OrderedAppendOther
  <1>4. Len(outbound') = Len(outbound) + 1 /\ Len(outbound) \in Nat /\ outbound'[Len(outbound) + 1] = m /\ \A i \in 1 .. Len(outbound) : outbound'[i] = outbound[i]
    BY <1>0, AppendIs
  <1>5. \A i \in 1 .. Len(outbound') : (i \in 1 .. Len(outbound) /\ outbound'[i] = outbound[i]) \/ outbound'[i] = m
    BY <1>4
  <1>6. Opening(c)' => Opening(c)
    BY <1>1, <1>5 DEF Opening, IsOpen
  <1>7. OpenFirst(c)'
    BY <1>0, <1>1, <1>5 DEF OpenFirst, IsOpen, Irrelevant
  <1> QED
    BY <1>2, <1>3, <1>6, <1>7 DEF SameOut

LEMMA OpenTail ==
    ASSUME ChannelsInv, NEW c \in Conn, outbound # <<>>, outbound' = Tail(outbound)
    PROVE  /\ OpenFirst(c)' /\ (Opening(c)' => Opening(c))
           /\ ~Irrelevant(Head(outbound), c) => ~Opening(c)'
  <1>0. outbound \in Seq(MessageType) /\ OpenFirst(c)
    BY DEF ChannelsInv, ChannelsTypeOK, QueueTypes, UpOK
  <1>1. /\ Len(outbound') = Len(outbound) - 1 /\ Len(outbound) \in Nat \ {0} /\ Head(outbound) = outbound[1]
        /\ \A i \in 1 .. Len(outbound') : outbound'[i] = outbound[i + 1] /\ i + 1 \in 1 .. Len(outbound)
    BY <1>0, TailIs
  <1>2. Opening(c)' => Opening(c)
    BY <1>1 DEF Opening
  <1>3. ASSUME NEW i \in 1 .. Len(outbound'), NEW j \in 1 .. Len(outbound'), IsOpen(outbound'[i], c),
               outbound'[j].c = c, outbound'[j].t \in {"open", "data", "end"}
        PROVE  i <= j
    <2>1. i + 1 <= j + 1
      BY <1>0, <1>1, <1>3 DEF OpenFirst
    <2> QED
      BY <1>1, <2>1
  <1>4. OpenFirst(c)'
    BY <1>3 DEF OpenFirst, IsOpen
  <1>5. ASSUME ~Irrelevant(Head(outbound), c), NEW i \in 1 .. Len(outbound'), IsOpen(outbound'[i], c) PROVE FALSE
    <2>1. 1 \in 1 .. Len(outbound) /\ i + 1 \in 1 .. Len(outbound) /\ IsOpen(outbound[i + 1], c)
      BY <1>1, <1>5
    <2>2. i + 1 <= 1
      BY <1>0, <1>1, <1>5, <2>1 DEF OpenFirst, Irrelevant
    <2> QED
      BY <1>1, <2>2
  <1>6. ~Irrelevant(Head(outbound), c) => ~Opening(c)'
    BY <1>5 DEF Opening, IsOpen
  <1> QED
    BY <1>2, <1>4, <1>6

LEMMA OutTail ==
    ASSUME ChannelsInv, NEW c \in Conn, outbound # <<>>, outbound' = Tail(outbound), Irrelevant(Head(outbound), c), Open' => Open
    PROVE  SameOut(c)
  <1>0. outbound \in Seq(MessageType)
    BY DEF ChannelsInv, ChannelsTypeOK, QueueTypes
  <1>1. ~IsData(Head(outbound), c) /\ ~IsEnd(Head(outbound), c)
    BY DEF IsData, IsEnd, Irrelevant
  <1>2. NoEnd(outbound, c) => NoEnd(outbound', c)
    BY <1>0, NoEndTail
  <1>3. \A lo, hi \in Nat : Ordered(outbound, c, lo, hi) => Ordered(outbound', c, lo, hi)
    BY <1>0, <1>1, OrderedTailOther
  <1> QED
    BY <1>2, <1>3, OpenTail DEF SameOut

LEMMA OutGone ==
    ASSUME NEW c \in Conn, outbound' = <<>>, ~Open'
    PROVE  SameOut(c)
  <1>1. 1 .. Len(outbound') = {}
    OBVIOUS
  <1> QED
    BY <1>1 DEF SameOut, Opening, NoEnd, OpenFirst

LEMMA OutSame ==
    ASSUME ChannelsInv, NEW c \in Conn, outbound' = outbound, Open' => Open
    PROVE  SameOut(c)
  <1>1. OpenFirst(c)
    BY DEF ChannelsInv, UpOK
  <1> QED
    BY <1>1 DEF SameOut, Opening, OpenFirst, IsOpen

LEMMA UpTypes ==
    ASSUME ChannelsInv, NEW c \in Conn
    PROVE  /\ local[c] \in Seq(Item) /\ tgot[c] \in Seq(Item) /\ Len(tgot[c]) \in Nat /\ sent[c] \in Nat
           /\ UpFlow(c) \in Seq(Item) /\ UpCount(c) \in Nat /\ Count(UpFlow(c), c) \in Nat
           /\ creader # None => creader[1] \in Conn /\ creader[2] \in Item
  <1>1. local[c] \in Seq(Item) /\ tgot[c] \in Seq(Item) /\ Len(tgot[c]) \in Nat /\ sent[c] \in Nat
    BY DEF ChannelsInv, ChannelsTypeOK, VisitorTypes, ClientTypes
  <1>2. creader # None => creader[1] \in Conn /\ creader[2] \in Item
    BY DEF ChannelsInv, ChannelsTypeOK, QueueTypes
  <1>3. UpFlow(c) \in Seq(Item)
    BY <1>1, <1>2 DEF UpFlow
  <1>4. Count(UpFlow(c), c) \in Nat
    BY <1>3, CountIs
  <1> QED
    BY <1>1, <1>2, <1>3, <1>4 DEF UpCount

LEMMA UpSame ==
    ASSUME ChannelsInv, NEW c \in Conn, SameUp(c), SameOut(c)
    PROVE  UpOK(c)'
  <1>0. UpOK(c) /\ UpCount(c) \in Nat /\ sent[c] \in Nat
    BY UpTypes DEF ChannelsInv
  <1>1. UpCount(c)' = UpCount(c)
    BY DEF UpCount, SameUp
  <1>2. \A i \in 1 .. Len(tgot'[c]) : tgot'[c][i] = <<c, i>>
    BY <1>0 DEF UpOK, SameUp
  <1>3. c \in tfin' => c \in vend' /\ up'[c] # "run" /\ Told(c)' /\ Len(tgot'[c]) = sent'[c]
    BY <1>0 DEF UpOK, SameUp
  <1>4. up'[c] = "run" => c \notin vend'
    BY <1>0 DEF UpOK, SameUp
  <1>5. Running(c)' => Shape(UpFlow(c), c, Len(tgot[c]))'
    BY <1>0 DEF UpOK, SameUp
  <1>6. Running(c)' /\ (c \in tfin' \/ Ends(UpFlow(c), c)') =>
         /\ c \in vend' /\ UpCount(c)' = sent'[c] /\ NoEnd(outbound', c)
         /\ c \in tfin' => UpFlow(c)' = <<>>
    BY <1>0, <1>1 DEF UpOK, SameUp, SameOut
  <1>7. Open' /\ (Running(c)' \/ Opening(c)') => UpCount(c)' <= sent'[c] /\ Ordered(outbound', c, UpCount(c)', sent'[c])
    BY <1>0, <1>1 DEF UpOK, SameUp, SameOut
  <1>8. c \notin vend' => NoEnd(outbound', c)
    BY <1>0 DEF UpOK, SameUp, SameOut
  <1>9. Opening(c)' => task'[c] = "off"
    BY <1>0 DEF UpOK, SameUp, SameOut
  <1> QED
    BY <1>2, <1>3, <1>4, <1>5, <1>6, <1>7, <1>8, <1>9 DEF UpOK, SameOut

\* The task of a connection is over, or the connection is no longer to be opened.
LEMMA UpStopped ==
    ASSUME ChannelsInv, NEW c \in Conn, ~Running(c)', ~Opening(c)', OpenFirst(c)', NoEnd(outbound, c) => NoEnd(outbound', c),
           tgot'[c] = tgot[c], c \in tfin' => c \in tfin,
           UNCHANGED <<sent, vend, up, visit>>
    PROVE  UpOK(c)'
  <1>0. UpOK(c)
    BY DEF ChannelsInv
  <1>1. \A i \in 1 .. Len(tgot'[c]) : tgot'[c][i] = <<c, i>>
    BY <1>0 DEF UpOK
  <1>2. c \in tfin' => c \in vend' /\ up'[c] # "run" /\ Told(c)' /\ Len(tgot'[c]) = sent'[c]
    BY <1>0 DEF UpOK, Told
  <1>3. (up'[c] = "run" => c \notin vend') /\ (c \notin vend' => NoEnd(outbound', c))
    BY <1>0 DEF UpOK
  <1> QED
    BY <1>1, <1>2, <1>3 DEF UpOK

LEMMA OpenAppend ==
    ASSUME ChannelsInv, NEW c \in Conn, NEW m \in MessageType, ~IsOpen(m, c), outbound' = Append(outbound, m)
    PROVE  (Opening(c)' => Opening(c)) /\ OpenFirst(c)'
  <1>0. outbound \in Seq(MessageType) /\ OpenFirst(c)
    BY DEF ChannelsInv, ChannelsTypeOK, QueueTypes, UpOK
  <1>1. Len(outbound') = Len(outbound) + 1 /\ Len(outbound) \in Nat /\ outbound'[Len(outbound) + 1] = m /\ \A i \in 1 .. Len(outbound) : outbound'[i] = outbound[i]
    BY <1>0, AppendIs
  <1>2. \A i \in 1 .. Len(outbound') : IsOpen(outbound'[i], c) => i \in 1 .. Len(outbound) /\ outbound'[i] = outbound[i]
    BY <1>1
  <1>3. Opening(c)' => Opening(c)
    BY <1>2 DEF Opening, IsOpen
  <1>4. ASSUME NEW i \in 1 .. Len(outbound'), NEW j \in 1 .. Len(outbound'), IsOpen(outbound'[i], c),
               outbound'[j].c = c, outbound'[j].t \in {"open", "data", "end"}
        PROVE  i <= j
    <2>1. i \in 1 .. Len(outbound) /\ IsOpen(outbound[i], c)
      BY <1>2, <1>4
    <2>2. CASE j \in 1 .. Len(outbound)
      BY <1>0, <1>1, <1>4, <2>1, <2>2 DEF OpenFirst
    <2>3. CASE j = Len(outbound) + 1
      BY <1>1, <2>1, <2>3
    <2> QED
      BY <1>1, <2>2, <2>3
  <1>5. OpenFirst(c)'
    BY <1>4 DEF OpenFirst, IsOpen
  <1> QED
    BY <1>3, <1>5

\* The first two messages of a connection: its open, and the ClientHello.
LEMMA CarryOut ==
    ASSUME ChannelsInv, NEW c \in Conn, Carry(c), Open
    PROVE  /\ outbound \in Seq(MessageType)
           /\ \E m, l \in MessageType : /\ m.c = c /\ m.t = "open" /\ l.c = c /\ l.t = "data" /\ l.k = 1
                                        /\ outbound' = Append(Append(outbound, m), l)
           /\ Len(outbound') = Len(outbound) + 2 /\ Len(outbound) \in Nat
           /\ \A i \in 1 .. Len(outbound) : outbound'[i] = outbound[i]
           /\ \A i \in 1 .. Len(outbound') : i \notin 1 .. Len(outbound) =>
                /\ i \in {Len(outbound) + 1, Len(outbound) + 2} /\ outbound'[i].c = c
                /\ outbound'[i].t = "open" => i = Len(outbound) + 1
  <1>0. outbound \in Seq(MessageType) /\ num \in [Conn -> Nat]
    BY DEF ChannelsInv, ChannelsTypeOK, QueueTypes, VisitorTypes
  <1>1. PICK m \in MessageType : m = Message("open", c, 0) /\ m.c = c /\ m.t = "open"
    BY <1>0, MessageHas
  <1>2. PICK l \in MessageType : l = Message("data", c, 1) /\ l.c = c /\ l.t = "data" /\ l.k = 1
    BY <1>0, MessageHas
  <1>3. outbound' = Append(Append(outbound, m), l)
    BY <1>0, <1>1, <1>2, ConcatIs DEF Carry, Send
  <1>8. PICK q \in Seq(MessageType) : q = Append(outbound, m)
    BY <1>0, AppendIs
  <1>4. /\ Len(q) = Len(outbound) + 1 /\ Len(outbound) \in Nat
        /\ q[Len(outbound) + 1] = m /\ \A i \in 1 .. Len(outbound) : q[i] = outbound[i]
    BY <1>0, <1>8, AppendIs
  <1>5. /\ Len(outbound') = Len(q) + 1 /\ outbound'[Len(q) + 1] = l /\ \A i \in 1 .. Len(q) : outbound'[i] = q[i]
    BY <1>3, <1>8, AppendIs
  <1>6. Len(outbound') = Len(outbound) + 2 /\ outbound'[Len(outbound) + 2] = l /\ outbound'[Len(outbound) + 1] = m
        /\ \A i \in 1 .. Len(outbound) : outbound'[i] = outbound[i]
    BY <1>4, <1>5
  <1>7. ASSUME NEW i \in 1 .. Len(outbound'), i \notin 1 .. Len(outbound)
        PROVE  /\ i \in {Len(outbound) + 1, Len(outbound) + 2} /\ outbound'[i].c = c
               /\ outbound'[i].t = "open" => i = Len(outbound) + 1
    <2>1. i \in {Len(outbound) + 1, Len(outbound) + 2}
      BY <1>4, <1>6, <1>7
    <2> QED
      BY <1>1, <1>2, <1>6, <2>1
  <1> QED
    BY <1>0, <1>1, <1>2, <1>3, <1>4, <1>6, <1>7

LEMMA UpCarry ==
    ASSUME ChannelsInv, NEW c \in Conn, Carry(c)
    PROVE  UpOK(c)'
  <1>0. /\ visit[c] = "routed" /\ sent'[c] = 1 /\ UNCHANGED <<vend, bridge, tgot, tfin, task, local, creader>>
    BY DEF Carry, clientVars, ChannelsInv, ChannelsTypeOK, VisitorTypes
  <1>1. task[c] = "off" /\ c \notin vend /\ tgot[c] = <<>> /\ local[c] = <<>> /\ c \notin tfin
    BY <1>0 DEF ChannelsInv, Phases
  <1>2. creader # None => creader[1] # c
    BY <1>1 DEF ChannelsInv, Phases
  <1>3. UpFlow(c)' = <<>>
    BY <1>0, <1>1, <1>2 DEF UpFlow
  <1>4. UpCount(c)' = 0
    BY <1>0, <1>1, <1>3 DEF UpCount, Count, Ends
  <1>5. ~Running(c)' /\ task'[c] = "off" /\ c \notin vend' /\ c \notin tfin' /\ \A i \in 1 .. Len(tgot'[c]) : tgot'[c][i] = <<c, i>>
    BY <1>0, <1>1 DEF Running
  <1>6. CASE ~Open
    <2>1. outbound' = <<>> /\ ~Open'
      BY <1>0, <1>6 DEF Carry, Send, ChannelsInv, Phases, Open
    <2>2. NoEnd(outbound', c) /\ OpenFirst(c)'
      BY <2>1 DEF NoEnd, OpenFirst
    <2> QED
      BY <1>5, <2>1, <2>2 DEF UpOK
  <1>7. CASE Open
    <2>0. \A m \in Range(outbound) : m.c # c
      <3>1. ~Told(c) /\ c # None
        BY <1>0, ConstantsAre DEF Told
      <3> QED
        BY <3>1 DEF ChannelsInv, Tables, Sound, Underway
    <2>1. outbound \in Seq(MessageType) /\ Ordered(outbound, c, 0, 0) /\ NoEnd(outbound, c) /\ \A i \in 1 .. Len(outbound) : outbound[i].c # c
      BY <1>7, <2>0, CarryOut, OrderedNone, RangeIs
    <2>2. PICK m \in MessageType, l \in MessageType : m.c = c /\ m.t = "open" /\ l.c = c /\ l.t = "data" /\ l.k = 1
                                   /\ outbound' = Append(Append(outbound, m), l)
      BY <1>7, CarryOut
    <2>3. ~IsData(m, c) /\ ~IsEnd(m, c) /\ IsData(l, c) /\ ~IsEnd(l, c)
      BY <2>2 DEF IsData, IsEnd
    <2>4. PICK q \in Seq(MessageType) : q = Append(outbound, m)
      BY <2>1, AppendIs
    <2>5. Ordered(q, c, 0, 0) /\ NoEnd(q, c)
      BY <2>1, <2>3, <2>4, OrderedAppendOther, NoEndAppend
    <2>6. Ordered(Append(q, l), c, 0, 0 + 1) /\ NoEnd(Append(q, l), c)
      <3>1. l.k = 0 + 1 /\ 0 <= 0 /\ 0 \in Nat
        BY <2>2
      <3> QED
        BY <2>3, <2>5, <3>1, OrderedAppendData, NoEndAppend
    <2>7. Ordered(outbound', c, UpCount(c)', sent'[c]) /\ NoEnd(outbound', c) /\ UpCount(c)' <= sent'[c]
      BY <1>0, <1>4, <2>2, <2>4, <2>6
    <2>8. OpenFirst(c)'
      <3>1. ASSUME NEW i \in 1 .. Len(outbound'), NEW j \in 1 .. Len(outbound'), IsOpen(outbound'[i], c),
                   outbound'[j].c = c, outbound'[j].t \in {"open", "data", "end"}
            PROVE  i <= j
        <4>1. i \notin 1 .. Len(outbound) /\ j \notin 1 .. Len(outbound)
          BY <1>7, <2>1, <3>1, CarryOut DEF IsOpen
        <4>2. i = Len(outbound) + 1 /\ j \in {Len(outbound) + 1, Len(outbound) + 2} /\ Len(outbound) \in Nat
          BY <1>7, <3>1, <4>1, CarryOut DEF IsOpen
        <4> QED
          BY <4>2
      <3> QED
        BY <3>1 DEF OpenFirst, IsOpen
    <2> QED
      BY <1>5, <2>7, <2>8 DEF UpOK
  <1> QED
    BY <1>6, <1>7

\* A frame, or the end, of a visitor that has not ended.
LEMMA UpUpload ==
    ASSUME ChannelsInv, NEW c \in Conn, Upload(c) \/ UploadEnd(c)
    PROVE  UpOK(c)'
  <1>0. /\ UNCHANGED <<visit, bridge, tgot, tfin, task, local, creader>> /\ up[c] = "run" /\ UpOK(c)
        /\ outbound \in Seq(MessageType) /\ num \in [Conn -> Nat]
    BY DEF Upload, UploadEnd, Uploading, clientVars, ChannelsInv, ChannelsTypeOK, QueueTypes, VisitorTypes
  <1>1. c \notin vend /\ c \notin tfin /\ NoEnd(outbound, c) /\ (Running(c) => ~Ends(UpFlow(c), c))
    BY <1>0 DEF UpOK
  <1>2. UpFlow(c)' = UpFlow(c)
    BY <1>0 DEF UpFlow
  <1>3. PICK n \in Nat : n = UpCount(c) /\ UpCount(c)' = n
    BY <1>0, <1>2, UpTypes DEF UpCount
  <1>4. PICK s \in Nat : s = sent[c]
    BY UpTypes
  <1>5. Running(c)' = Running(c) /\ (Running(c)' => ~Ends(UpFlow(c), c)') /\ c \notin tfin'
    BY <1>0, <1>1, <1>2 DEF Running
  <1>6. Running(c)' => Shape(UpFlow(c), c, Len(tgot[c]))'
    BY <1>0, <1>2, <1>5 DEF UpOK
  <1>7. \A i \in 1 .. Len(tgot'[c]) : tgot'[c][i] = <<c, i>>
    BY <1>0 DEF UpOK
  <1>8. Opening(c) => task[c] = "off"
    BY <1>0 DEF UpOK
  <1>9. Open' = Open
    BY <1>0 DEF Open
  <1>10. ASSUME up'[c] = "run" => c \notin vend', c \notin vend' => NoEnd(outbound', c), Opening(c)' => Opening(c), OpenFirst(c)',
                Open /\ (Running(c) \/ Opening(c)) => n <= sent'[c] /\ Ordered(outbound', c, n, sent'[c])
         PROVE  UpOK(c)'
    BY <1>0, <1>3, <1>5, <1>6, <1>7, <1>8, <1>9, <1>10 DEF UpOK
  <1>11. CASE ~Open
    <2>1. outbound' = <<>>
      BY <1>0, <1>11 DEF Upload, UploadEnd, Send, ChannelsInv, Phases
    <2>2. NoEnd(outbound', c) /\ ~Opening(c)' /\ OpenFirst(c)'
      BY <2>1 DEF NoEnd, Opening, OpenFirst
    <2>3. up'[c] = "done"
      BY <1>11 DEF Upload, UploadEnd, Uploading, ChannelsInv, ChannelsTypeOK, VisitorTypes
    <2> QED
      BY <1>10, <1>11, <2>2, <2>3
  <1>12. CASE Open /\ Upload(c)
    <2>1. sent'[c] = s + 1 /\ vend' = vend
      BY <1>4, <1>12 DEF Upload, ChannelsInv, ChannelsTypeOK, VisitorTypes
    <2>2. PICK k \in Nat : k = s + 1 /\ k = sent'[c]
      BY <2>1
    <2>3. PICK m \in MessageType : m = Message("data", c, k) /\ m.t = "data" /\ m.c = c /\ m.k = k
      BY <1>0, MessageHas
    <2>4. outbound' = Append(outbound, m)
      BY <1>0, <1>12, <2>2, <2>3, ConcatIs DEF Upload, Send
    <2>5. IsData(m, c) /\ ~IsEnd(m, c) /\ ~IsOpen(m, c)
      BY <2>3 DEF IsData, IsEnd, IsOpen
    <2>6. NoEnd(outbound', c)
      BY <1>0, <1>1, <2>4, <2>5, NoEndAppend
    <2>7. ASSUME Running(c) \/ Opening(c) PROVE n <= sent'[c] /\ Ordered(outbound', c, n, sent'[c])
      <3>1. n <= s /\ Ordered(outbound, c, n, s) /\ m.k = s + 1
        BY <1>0, <1>3, <1>4, <1>12, <2>2, <2>3, <2>7 DEF UpOK
      <3>2. Ordered(Append(outbound, m), c, n, s + 1)
        BY <1>0, <1>1, <2>5, <3>1, OrderedAppendData
      <3>3. n <= s + 1
        BY <3>1
      <3> QED
        BY <2>1, <2>4, <3>2, <3>3
    <2> QED
      BY <1>1, <1>10, <2>1, <2>4, <2>5, <2>6, <2>7, OpenAppend
  <1>13. CASE Open /\ UploadEnd(c)
    <2>1. sent'[c] = s /\ vend' = vend \union {c} /\ up'[c] = "done"
      BY <1>4, <1>13 DEF UploadEnd, Uploading, ChannelsInv, ChannelsTypeOK, VisitorTypes
    <2>3. PICK m \in MessageType : m = Message("end", c, 0) /\ m.t = "end" /\ m.c = c
      BY <1>0, MessageHas
    <2>4. outbound' = Append(outbound, m)
      BY <1>0, <1>13, <2>3, ConcatIs DEF UploadEnd, Send
    <2>5. IsEnd(m, c) /\ ~IsOpen(m, c)
      BY <2>3 DEF IsEnd, IsOpen
    <2>7. ASSUME Running(c) \/ Opening(c) PROVE n <= sent'[c] /\ Ordered(outbound', c, n, sent'[c])
      <3>1. n <= s /\ Ordered(outbound, c, n, s)
        BY <1>0, <1>3, <1>4, <1>13, <2>7 DEF UpOK
      <3>2. Ordered(Append(outbound, m), c, n, s)
        BY <1>0, <1>1, <2>5, <3>1, OrderedAppendEnd
      <3> QED
        BY <2>1, <2>4, <3>1, <3>2
    <2> QED
      BY <1>10, <2>1, <2>4, <2>5, <2>7, OpenAppend
  <1> QED
    BY <1>11, <1>12, <1>13

\* What the other steps of a visitor queue.
LEMMA VisitorOut ==
    ASSUME ChannelsInv, NEW c \in Conn, VisitorStep(c), ~Carry(c), ~clash'
    PROVE  \/ outbound' = outbound
           \/ \E m \in MessageType : /\ m.c = c /\ outbound' = Append(outbound, m)
                                     /\ ~Upload(c) /\ ~UploadEnd(c) => m.t = "reset"
  <1>0. outbound \in Seq(MessageType) /\ num \in [Conn -> Nat] /\ sent \in [Conn -> Nat]
    BY DEF ChannelsInv, ChannelsTypeOK, QueueTypes, VisitorTypes
  <1>1. CASE Route(c) \/ Refuse(c) \/ UploadAborted(c) \/ Written(c) \/ Progress(c) \/ DownloadEnd(c) \/ DownloadAborted(c) \/ Ended(c)
    BY <1>1 DEF Route, Refuse, UploadAborted, Written, Progress, DownloadEnd, DownloadAborted, Ended, outVars
  <1>2. CASE UploadError(c) \/ WriteError(c) \/ Idle(c)
    <2>1. PICK m \in MessageType : m = Message("reset", c, 0) /\ m.c = c /\ m.t = "reset"
      BY <1>0, MessageHas
    <2>2. outbound' = outbound \/ outbound' = Append(outbound, m)
      BY <1>2, <2>1 DEF UploadError, WriteError, Idle, TrySendReset
    <2> QED
      BY <2>1, <2>2
  <1>3. CASE Upload(c)
    <2>1. PICK k \in Nat : k = sent'[c]
      BY <1>0, <1>3 DEF Upload
    <2>2. PICK m \in MessageType : m = Message("data", c, k) /\ m.c = c
      BY <1>0, MessageHas
    <2>3. outbound' = outbound \/ outbound' = Append(outbound, m)
      BY <1>0, <1>3, <2>1, <2>2, ConcatIs DEF Upload, Send
    <2> QED
      BY <1>3, <2>2, <2>3
  <1>4. CASE UploadEnd(c)
    <2>2. PICK m \in MessageType : m = Message("end", c, 0) /\ m.c = c
      BY <1>0, MessageHas
    <2>3. outbound' = outbound \/ outbound' = Append(outbound, m)
      BY <1>0, <1>4, <2>2, ConcatIs DEF UploadEnd, Send
    <2> QED
      BY <1>4, <2>2, <2>3
  <1> QED
    BY <1>1, <1>2, <1>3, <1>4 DEF VisitorStep

LEMMA UpElsewhere ==
    ASSUME ChannelsInv, ~clash', NEW c \in Conn, VisitorStep(c), NEW d \in Conn, d # c
    PROVE  UpOK(d)'
  <1>0. UNCHANGED <<tgot, tfin, task, local, creader, bridge>> /\ (Open' => Open) /\ OpenFirst(d)
    BY VisitorFrame DEF clientVars, Open, ChannelsInv, UpOK
  <1>1. SameUp(d)
    <2>1. UpFlow(d)' = UpFlow(d)
      BY <1>0 DEF UpFlow
    <2>2. (Running(d)' <=> Running(d)) /\ (Told(d) => Told(d)')
      BY <1>0, VisitorElsewhere DEF Running, Told
    <2> QED
      BY <1>0, <2>1, <2>2, VisitorElsewhere DEF SameUp
  <1>2. SameOut(d)
    <2>1. CASE ~Carry(c)
      <3>1. ASSUME NEW m \in MessageType, m.c = c PROVE Irrelevant(m, d)
        BY <3>1 DEF Irrelevant
      <3> QED
        BY <1>0, <2>1, <3>1, VisitorOut, OutSame, OutAppend
    <2>2. CASE Carry(c) /\ ~Open
      <3>1. outbound' = outbound
        BY <2>2 DEF Carry, Send
      <3> QED
        BY <1>0, <3>1, OutSame
    <2>3. CASE Carry(c) /\ Open
      <3>1. PICK m \in MessageType, l \in MessageType : m.c = c /\ l.c = c /\ outbound' = Append(Append(outbound, m), l)
        BY <2>3, CarryOut
      <3>2. ~IsData(m, d) /\ ~IsEnd(m, d) /\ ~IsData(l, d) /\ ~IsEnd(l, d)
        BY <3>1 DEF IsData, IsEnd
      <3>3. outbound \in Seq(MessageType)
        BY <2>3, CarryOut
      <3>4. PICK q \in Seq(MessageType) : q = Append(outbound, m)
        BY <3>3, AppendIs
      <3>5. NoEnd(outbound, d) => NoEnd(outbound', d)
        BY <3>1, <3>2, <3>3, <3>4, NoEndAppend
      <3>6. \A lo, hi \in Nat : Ordered(outbound, d, lo, hi) => Ordered(outbound', d, lo, hi)
        <4>1. \A lo, hi \in Nat : Ordered(outbound, d, lo, hi) => Ordered(q, d, lo, hi)
          BY <3>2, <3>3, <3>4, OrderedAppendOther
        <4>2. \A lo, hi \in Nat : Ordered(q, d, lo, hi) => Ordered(Append(q, l), d, lo, hi)
          BY <3>2, OrderedAppendOther
        <4> QED
          BY <3>1, <3>4, <4>1, <4>2
      <3>7. \A i \in 1 .. Len(outbound') : outbound'[i].c = d => i \in 1 .. Len(outbound) /\ outbound'[i] = outbound[i]
        BY <2>3, CarryOut
      <3>8. (Opening(d)' => Opening(d)) /\ OpenFirst(d)'
        BY <1>0, <3>7 DEF Opening, OpenFirst, IsOpen
      <3> QED
        BY <1>0, <3>5, <3>6, <3>8 DEF SameOut
    <2> QED
      BY <2>1, <2>2, <2>3
  <1> QED
    BY <1>1, <1>2, UpSame

LEMMA UpVisitor ==
    ASSUME ChannelsInv, NEW c \in Conn, VisitorStep(c), ~clash'
    PROVE  UpOK(c)'
  <1>1. CASE Carry(c) \/ Upload(c) \/ UploadEnd(c)
    BY <1>1, UpCarry, UpUpload
  <1>2. CASE ~(Carry(c) \/ Upload(c) \/ UploadEnd(c))
    <2>0. UNCHANGED <<tgot, tfin, task, local, creader, bridge>> /\ (Open' => Open) /\ VisitorTypes
      BY VisitorFrame DEF clientVars, Open, ChannelsInv, ChannelsTypeOK
    <2>1. UNCHANGED <<sent, vend>> /\ (up'[c] = "run" => up[c] = "run") /\ (Told(c) => Told(c)')
      <3>1. CASE Route(c) \/ Refuse(c)
        BY <2>0, <3>1 DEF Route, Refuse, Told, VisitorTypes
      <3>2. CASE UploadError(c) \/ UploadAborted(c)
        BY <2>0, <3>2 DEF UploadError, UploadAborted, Uploading, Told, VisitorTypes
      <3>3. CASE Written(c) \/ Progress(c) \/ WriteError(c) \/ DownloadEnd(c) \/ DownloadAborted(c)
        BY <2>0, <3>3 DEF Written, Progress, WriteError, DownloadEnd, DownloadAborted, Downloading, Told
      <3>4. CASE Ended(c) \/ Idle(c)
        BY <2>0, <3>4 DEF Ended, Idle, Over, Told, VisitorTypes
      <3> QED
        BY <1>2, <3>1, <3>2, <3>3, <3>4 DEF VisitorStep
    <2>2. SameUp(c)
      <3>1. UpFlow(c)' = UpFlow(c)
        BY <2>0 DEF UpFlow
      <3>2. Running(c)' <=> Running(c)
        BY <2>0 DEF Running
      <3> QED
        BY <2>0, <2>1, <3>1, <3>2 DEF SameUp
    <2>3. SameOut(c)
      <3>1. ASSUME NEW m \in MessageType, m.t = "reset" PROVE Irrelevant(m, c)
        BY <3>1 DEF Irrelevant
      <3> QED
        BY <1>2, <2>0, <3>1, VisitorOut, OutSame, OutAppend
    <2> QED
      BY <2>2, <2>3, UpSame
  <1> QED
    BY <1>1, <1>2

\* The bridge's reader and the bridge say nothing of a stream to the client.
LEMMA UpServer ==
    ASSUME ChannelsInv, ReadStep \/ ReaderStep \/ BridgeStep, NEW d \in Conn
    PROVE  UpOK(d)'
  <1>0. UNCHANGED <<visit, up, sent, vend, tgot, tfin, task, local, creader>>
    BY ReadFrame, ReaderFrame, BridgeFrame DEF visitorVars, clientVars
  <1>1. SameUp(d)
    <2>1. UpFlow(d)' = UpFlow(d)
      BY <1>0 DEF UpFlow
    <2>2. (Running(d)' <=> Running(d)) /\ (Told(d) => Told(d)')
      BY <1>0 DEF Running, Told
    <2> QED
      BY <1>0, <2>1, <2>2 DEF SameUp
  <1>2. ASSUME NEW m \in MessageType, m.t \notin {"open", "data", "end"}, outbound' = Append(outbound, m), Open' => Open PROVE SameOut(d)
    <2>1. Irrelevant(m, d)
      BY <1>2 DEF Irrelevant
    <2> QED
      BY <1>2, <2>1, OutAppend
  <1>3. SameOut(d)
    <2>1. CASE ReadStep
      BY <2>1, ReadFrame, OutSame DEF outVars, Open
    <2>2. CASE ReaderStep
      <3>0. bridge' = bridge
        BY <2>2, ReaderFrame
      <3>1. CASE Tell
        <4>1. reader.tell \in MessageType /\ reader.tell.t \in {"none", "pong", "reset"} /\ outbound \in Seq(MessageType)
          BY DEF ChannelsInv, ChannelsTypeOK, ReaderTypes, QueueTypes, Phases
        <4>2. PICK m \in MessageType : m = reader.tell /\ m.t \notin {"open", "data", "end"}
          BY <4>1
        <4>3. outbound' = outbound \/ outbound' = Append(outbound, m)
          BY <3>1, <4>1, <4>2, ConcatIs DEF Tell, Send
        <4> QED
          BY <1>2, <3>0, <4>2, <4>3, OutSame DEF Open
      <3>2. CASE ~Tell
        <4>1. outbound' = outbound
          BY <2>2, <3>2 DEF ReaderStep, WaitEnds, Stall, ResetStalled, LastTry, outVars
        <4> QED
          BY <3>0, <4>1, OutSame DEF Open
      <3> QED
        BY <3>1, <3>2
    <2>3. ASSUME NEW t \in {"ping", "drain"}, outbound' = Append(outbound, Signal(t)) \/ outbound' = outbound, Open' => Open PROVE SameOut(d)
      <3>1. PICK m \in MessageType : m = Signal(t) /\ m.t = t
        BY SignalIs DEF Signal
      <3> QED
        BY <1>2, <2>3, <3>1, OutSame
    <2>4. CASE KeepAlive
      BY <2>3, <2>4 DEF KeepAlive, Open
    <2>5. CASE Drain
      BY <2>3, <2>5 DEF Drain, Open
    <2>6. CASE Lose \/ CloseBridge
      BY <2>6, OutGone DEF Lose, CloseBridge, DropOutbound, Open
    <2> QED
      BY <2>1, <2>2, <2>4, <2>5, <2>6 DEF BridgeStep
  <1> QED
    BY <1>1, <1>3, UpSame

\* A step of the client that leaves a connection alone.
LEMMA UpLeft ==
    ASSUME ChannelsInv, UNCHANGED visitorVars, NEW d \in Conn, tgot'[d] = tgot[d], task'[d] = task[d], d \in tfin' <=> d \in tfin,
           UpFlow(d)' = UpFlow(d), SameOut(d)
    PROVE  UpOK(d)'
  <1>1. (Running(d)' <=> Running(d)) /\ (Told(d) => Told(d)')
    BY DEF Running, Told, visitorVars
  <1>2. SameUp(d)
    BY <1>1 DEF SameUp, visitorVars
  <1> QED
    BY <1>2, UpSame

\* The tables the head of the outbound queue finds at the client.
LEMMA ArrivingIs ==
    ASSUME ChannelsInv, outbound # <<>>
    PROVE  /\ Head(outbound) \in MessageType /\ Head(outbound).k \in Nat /\ outbound \in Seq(MessageType)
           /\ Head(outbound).t = "data" => Head(outbound).k > 0
           /\ Head(outbound).t = "end" => Head(outbound).k = 0
           /\ Head(outbound).t \in {"open", "data", "end", "reset"} =>
                /\ Head(outbound).c \in Conn /\ Head(outbound).n = num[Head(outbound).c] /\ Head(outbound).n \in Number
                /\ served[Head(outbound).n] \in {Head(outbound).c, None}
  <1>1. PICK m \in Underway : m = Head(outbound)
    BY HeadIs
  <1>2. m \in MessageType /\ Sound(m) /\ m.k \in Nat /\ (m.t \in {"open", "data", "end", "reset"} => m.c \in Conn /\ m.n = num[m.c] /\ m.n \in Number /\ served[m.n] \in {m.c, None})
    BY MeansIs
  <1>3. outbound \in Seq(MessageType)
    BY DEF ChannelsInv, ChannelsTypeOK, QueueTypes
  <1> QED
    BY <1>1, <1>2, <1>3 DEF Sound

\* A connection whose task is over, before or with a step that takes the queue's head.
LEMMA UpOver ==
    ASSUME ChannelsInv, NEW c \in Conn, (outbound # <<>> /\ outbound' = Tail(outbound)) \/ outbound' = outbound, ~Running(c)',
           ~Opening(c) \/ (outbound # <<>> /\ outbound' = Tail(outbound) /\ ~Irrelevant(Head(outbound), c)),
           tgot'[c] = tgot[c], c \in tfin' => c \in tfin, UNCHANGED visitorVars
    PROVE  UpOK(c)'
  <1>0. outbound \in Seq(MessageType) /\ UNCHANGED <<sent, vend, up, visit>> /\ OpenFirst(c)
    BY DEF visitorVars, ChannelsInv, ChannelsTypeOK, QueueTypes, UpOK
  <1>1. CASE outbound # <<>> /\ outbound' = Tail(outbound)
    <2>1. OpenFirst(c)' /\ ~Opening(c)'
      BY <1>1, OpenTail
    <2>2. NoEnd(outbound, c) => NoEnd(outbound', c)
      BY <1>0, <1>1, NoEndTail
    <2> QED
      BY <1>0, <2>1, <2>2, UpStopped
  <1>2. CASE outbound' = outbound /\ ~Opening(c)
    <2>1. OpenFirst(c)' /\ ~Opening(c)'
      BY <1>0, <1>2 DEF OpenFirst, Opening, IsOpen
    <2> QED
      BY <1>0, <1>2, <2>1, UpStopped
  <1> QED
    BY <1>1, <1>2

\* deliver, to a connection that is served.
LEMMA UpDeliver ==
    ASSUME ChannelsInv, Deliver, NEW c \in Conn, c = Head(outbound).c, Running(c)
    PROVE  UpOK(c)'
  <1>0. /\ UNCHANGED visitorVars /\ UNCHANGED <<tgot, tfin, task, bridge>> /\ Open /\ creader = None
        /\ outbound # <<>> /\ outbound' = Tail(outbound) /\ Head(outbound).t \in {"data", "end"} /\ UpOK(c)
    BY DEF Deliver, Receive, ServerSide, ChannelsInv
  <1>1. /\ Head(outbound).k \in Nat /\ outbound \in Seq(MessageType) /\ served[Head(outbound).n] = c /\ Head(outbound).n \in Number
        /\ Head(outbound).t = "data" => Head(outbound).k > 0
        /\ Head(outbound).t = "end" => Head(outbound).k = 0
    <2>1. c \in Range(served)
      BY ServedIs DEF Running
    <2> QED
      BY <1>0, <2>1, ArrivingIs, ServedIs
  <1>2. PICK k \in Nat : k = Head(outbound).k
    BY <1>1
  <1>3. PICK x \in Item : x = <<c, k>>
    BY DEF Item
  <1>4. PICK s \in Seq(Item) : s = local[c] /\ s = UpFlow(c)
    BY <1>0, UpTypes DEF UpFlow
  <1>5. UpFlow(c)' = Append(s, x)
    <2>1. c # None /\ DOMAIN served = Number /\ local \in [Conn -> Seq(Item)]
      BY ConstantsAre DEF ChannelsInv, ChannelsTypeOK, ClientTypes
    <2>2. \/ local' = [local EXCEPT ![c] = Append(@, x)] /\ creader' = creader
          \/ creader' = <<c, x>> /\ local' = local
      BY <1>1, <1>2, <1>3, <2>1 DEF Deliver, Arriving
    <2>3. CASE local' = [local EXCEPT ![c] = Append(@, x)] /\ creader' = creader
      BY <1>0, <1>4, <2>1, <2>3 DEF UpFlow
    <2>4. CASE creader' = <<c, x>> /\ local' = local
      <3>1. creader' # None
        BY <2>4, ConstantsAre
      <3> QED
        BY <1>4, <2>4, <3>1 DEF UpFlow
    <2> QED
      BY <2>2, <2>3, <2>4
  <1>6. PICK a \in Nat : a = Len(tgot[c])
    BY UpTypes
  <1>7. PICK hi \in Nat : hi = sent[c] /\ hi = sent'[c]
    BY <1>0, UpTypes DEF visitorVars
  <1>8. PICK lo \in Nat : lo = UpCount(c)
    BY UpTypes
  <1>9. lo <= hi /\ Ordered(outbound, c, lo, hi) /\ Shape(s, c, a)
    BY <1>0, <1>4, <1>6, <1>7, <1>8 DEF UpOK
  <1>10. c \notin tfin /\ ~Ends(s, c)
    <2>1. SUFFICES ASSUME c \in tfin \/ Ends(s, c) PROVE FALSE
      OBVIOUS
    <2>2. lo = hi /\ NoEnd(outbound, c)
      BY <1>0, <1>4, <1>7, <1>8, <2>1 DEF UpOK
    <2>3. Head(outbound) = outbound[1] /\ 1 \in 1 .. Len(outbound)
      BY <1>0, <1>1, TailIs
    <2>4. IsData(outbound[1], c)
      BY <1>0, <2>2, <2>3 DEF NoEnd, IsEnd, IsData
    <2> QED
      BY <1>9, <2>2, <2>3, <2>4, <1>1 DEF Ordered
  <1>11. lo = a + Len(s) /\ Len(s) \in Nat
    <2>1. Count(s, c) = Len(s)
      BY <1>10 DEF Count
    <2>2. lo = Len(tgot[c]) + Count(s, c)
      BY <1>4, <1>8 DEF UpCount
    <2>3. Len(s) \in Nat
      OBVIOUS
    <2> QED
      BY <1>6, <2>1, <2>2, <2>3
  <1>12. ~Opening(c)' /\ OpenFirst(c)' /\ Running(c)' /\ Len(tgot'[c]) = a /\ tgot'[c] = tgot[c] /\ c \notin tfin' /\ (NoEnd(outbound, c) => NoEnd(outbound', c))
    <2>1. ~Irrelevant(Head(outbound), c)
      BY <1>0 DEF Irrelevant
    <2>2. ~Opening(c)' /\ OpenFirst(c)' /\ (NoEnd(outbound, c) => NoEnd(outbound', c))
      BY <1>0, <1>1, <2>1, OpenTail, NoEndTail
    <2> QED
      BY <1>0, <1>6, <1>10, <2>2 DEF Running
  <1>13. UNCHANGED <<sent, vend, up, visit>>
    BY <1>0 DEF visitorVars
  <1>14. ASSUME Shape(Append(s, x), c, a), NEW n \in Nat, n = Count(Append(s, x), c),
                Ends(Append(s, x), c) => c \in vend /\ a + n = hi /\ NoEnd(outbound', c),
                a + n <= hi /\ Ordered(outbound', c, a + n, hi)
         PROVE  UpOK(c)'
    <2>1. UpCount(c)' = a + n
      BY <1>5, <1>12, <1>14 DEF UpCount
    <2>2. Running(c)' => Shape(UpFlow(c), c, Len(tgot[c]))'
      BY <1>5, <1>12, <1>14
    <2>3. Ends(UpFlow(c), c)' => c \in vend' /\ UpCount(c)' = sent'[c] /\ NoEnd(outbound', c)
      BY <1>5, <1>7, <1>13, <1>14, <2>1
    <2>4. UpCount(c)' <= sent'[c] /\ Ordered(outbound', c, UpCount(c)', sent'[c])
      BY <1>7, <1>14, <2>1
    <2>5. (\A i \in 1 .. Len(tgot'[c]) : tgot'[c][i] = <<c, i>>) /\ (up'[c] = "run" => c \notin vend') /\ (c \notin vend' => NoEnd(outbound', c))
      BY <1>0, <1>12, <1>13 DEF UpOK
    <2> QED
      BY <1>12, <2>2, <2>3, <2>4, <2>5 DEF UpOK
  <1>15. CASE Head(outbound).t = "data"
    <2>1. IsData(Head(outbound), c)
      BY <1>15 DEF IsData
    <2>2. k = lo + 1 /\ lo + 1 <= hi /\ Ordered(outbound', c, lo + 1, hi)
      BY <1>0, <1>1, <1>2, <1>9, <2>1, OrderedTailData
    <2>3. a + Len(s) + 1 = lo + 1 /\ a + (Len(s) + 1) = lo + 1 /\ Len(s) + 1 \in Nat
      BY <1>11
    <2>4. x = <<c, a + Len(s) + 1>> /\ x # EndOf(c)
      BY <1>3, <2>2, <2>3 DEF EndOf
    <2>5. Shape(Append(s, x), c, a) /\ ~Ends(Append(s, x), c) /\ Count(Append(s, x), c) = Len(s) + 1
      BY <1>9, <1>10, <2>4, ShapeAppend
    <2>6. PICK n \in Nat : n = Len(s) + 1
      BY <2>3
    <2>7. a + n = lo + 1
      BY <2>3, <2>6
    <2> QED
      BY <1>14, <2>2, <2>5, <2>6, <2>7
  <1>16. CASE Head(outbound).t = "end"
    <2>1. IsEnd(Head(outbound), c)
      BY <1>16 DEF IsEnd
    <2>2. lo = hi /\ NoEnd(outbound', c) /\ Ordered(outbound', c, lo, hi)
      BY <1>0, <1>1, <1>9, <2>1, OrderedTailEnd
    <2>3. x = EndOf(c)
      BY <1>1, <1>2, <1>3, <1>16 DEF EndOf
    <2>4. Shape(Append(s, x), c, a) /\ Count(Append(s, x), c) = Len(s)
      BY <1>9, <1>10, <2>3, ShapeAppend
    <2>5. c \in vend
      <3>1. outbound[1] = Head(outbound) /\ 1 \in 1 .. Len(outbound)
        BY <1>0, <1>1, TailIs
      <3> QED
        BY <1>0, <2>1, <3>1 DEF UpOK, NoEnd
    <2>6. PICK n \in Nat : n = Len(s)
      BY <1>11
    <2>7. a + n = lo /\ lo <= hi
      BY <1>11, <2>2, <2>6
    <2> QED
      BY <1>14, <2>2, <2>4, <2>5, <2>6, <2>7
  <1> QED
    BY <1>0, <1>15, <1>16

LEMMA UpAccept ==
    ASSUME ChannelsInv, AcceptOpen, NEW c \in Conn, c = Head(outbound).c
    PROVE  UpOK(c)'
  <1>0. /\ UNCHANGED visitorVars /\ UNCHANGED <<tgot, tfin, local, creader, bridge>> /\ Open /\ creader = None
        /\ outbound # <<>> /\ outbound' = Tail(outbound) /\ Head(outbound).t = "open" /\ UpOK(c)
    BY DEF AcceptOpen, Receive, ServerSide, ChannelsInv
  <1>1. Opening(c) /\ task[c] = "off" /\ outbound \in Seq(MessageType)
    BY <1>0, OpeningIs, ArrivingIs
  <1>2. tgot[c] = <<>> /\ local[c] = <<>> /\ c \notin tfin
    BY <1>1 DEF ChannelsInv, Phases
  <1>3. UpFlow(c) = <<>> /\ UpFlow(c)' = <<>>
    BY <1>0, <1>2 DEF UpFlow
  <1>4. UpCount(c)' = UpCount(c) /\ ~Ends(UpFlow(c), c)'
    <2>1. ~Ends(<<>>, c)
      BY DEF Ends
    <2> QED
      BY <1>0, <1>3, <2>1 DEF UpCount
  <1>5. PICK lo \in Nat, hi \in Nat : lo = UpCount(c) /\ hi = sent[c] /\ hi = sent'[c]
    BY <1>0, UpTypes DEF visitorVars
  <1>6. lo <= hi /\ Ordered(outbound, c, lo, hi)
    BY <1>0, <1>1, <1>5 DEF UpOK
  <1>7. ~IsData(Head(outbound), c) /\ ~IsEnd(Head(outbound), c) /\ ~Irrelevant(Head(outbound), c)
    BY <1>0 DEF IsData, IsEnd, Irrelevant
  <1>8. Ordered(outbound', c, lo, hi)
    BY <1>0, <1>1, <1>6, <1>7, OrderedTailOther
  <1>9. ~Opening(c)' /\ OpenFirst(c)' /\ (NoEnd(outbound, c) => NoEnd(outbound', c))
    BY <1>0, <1>1, <1>7, OpenTail, NoEndTail
  <1>10. Shape(UpFlow(c), c, Len(tgot[c]))'
    BY <1>0, <1>2, <1>3 DEF Shape
  <1>11. UNCHANGED <<sent, vend, up, visit>>
    BY <1>0 DEF visitorVars
  <1>12. (\A i \in 1 .. Len(tgot'[c]) : tgot'[c][i] = <<c, i>>) /\ (up'[c] = "run" => c \notin vend') /\ (c \notin vend' => NoEnd(outbound', c)) /\ c \notin tfin'
    BY <1>0, <1>2, <1>9, <1>11 DEF UpOK
  <1>13. UpCount(c)' <= sent'[c] /\ Ordered(outbound', c, UpCount(c)', sent'[c])
    BY <1>4, <1>5, <1>6, <1>8
  <1> QED
    BY <1>4, <1>9, <1>10, <1>12, <1>13 DEF UpOK

\* The messages of the server, one by one.
LEMMA UpHear ==
    ASSUME ChannelsInv, HearStep, NEW d \in Conn
    PROVE  UpOK(d)'
  <1>0. UNCHANGED visitorVars /\ bridge' = bridge /\ creader = None /\ outbound # <<>> /\ outbound' = Tail(outbound) /\ ClientTypes /\ None \notin Conn
    BY HearFrame, ConstantsAre DEF ChannelsInv, ChannelsTypeOK
  <1>1. PICK c : c = Head(outbound).c
    OBVIOUS
  <1>2. ASSUME Irrelevant(Head(outbound), d), tgot'[d] = tgot[d], task'[d] = task[d], d \in tfin' <=> d \in tfin, local'[d] = local[d],
               creader' = None \/ (creader' # None /\ creader'[1] # d)
        PROVE  UpOK(d)'
    <2>1. UpFlow(d)' = UpFlow(d)
      BY <1>0, <1>2 DEF UpFlow
    <2>2. SameOut(d)
      BY <1>0, <1>2, OutTail DEF Open
    <2> QED
      BY <1>0, <1>2, <2>1, <2>2, UpLeft
  <1>3. ASSUME d # c \/ Head(outbound).t \notin {"open", "data", "end"} PROVE Irrelevant(Head(outbound), d)
    BY <1>1, <1>3 DEF Irrelevant
  <1>4. ASSUME d = c, Head(outbound).t \in {"open", "data", "end"} PROVE ~Irrelevant(Head(outbound), d)
    BY <1>1, <1>4 DEF Irrelevant
  <1>5. CASE RefuseOpen
    <2>0. UNCHANGED <<tgot, tfin, task, local, creader>> /\ Head(outbound).t = "open"
      BY <1>5 DEF RefuseOpen, Receive
    <2>1. CASE d = c
      <3>1. ~Running(d)'
        BY <1>0, <1>1, <2>0, <2>1, OpeningIs DEF Running
      <3> QED
        BY <1>0, <1>4, <2>0, <2>1, <3>1, UpOver
    <2>2. CASE d # c
      BY <1>0, <1>2, <1>3, <2>0, <2>2
    <2> QED
      BY <2>1, <2>2
  <1>6. CASE AcceptOpen
    <2>1. CASE d = c
      BY <1>1, <1>6, <2>1, UpAccept
    <2>2. CASE d # c
      <3>1. UNCHANGED <<tgot, tfin, local, creader>> /\ task'[d] = task[d]
        BY <1>0, <1>1, <1>6, <2>2 DEF AcceptOpen, Arriving, ClientTypes
      <3> QED
        BY <1>0, <1>2, <1>3, <2>2, <3>1
    <2> QED
      BY <2>1, <2>2
  <1>7. CASE Deliver
    <2>0. UNCHANGED <<tgot, tfin, task, served>> /\ Head(outbound).t \in {"data", "end"}
      BY <1>7 DEF Deliver, Receive
    <2>1. CASE d = c /\ Running(d)
      BY <1>1, <1>7, <2>1, UpDeliver
    <2>2. CASE d = c /\ ~Running(d)
      <3>1. ~Running(d)'
        BY <2>0, <2>2 DEF Running
      <3> QED
        BY <1>0, <1>4, <2>0, <2>2, <3>1, UpOver
    <2>3. CASE d # c
      <3>1. PICK e \in Conn \union {None} : e = (IF Head(outbound).n \in DOMAIN served THEN served[Head(outbound).n] ELSE None) /\ e # d
        BY <1>0, <1>1, <2>0, <2>3, ArrivingIs DEF ClientTypes
      <3>2. local'[d] = local[d] /\ (creader' = None \/ creader' = <<e, <<Head(outbound).c, Head(outbound).k>>>>)
        BY <1>0, <1>7, <3>1 DEF Deliver, Arriving, ClientTypes
      <3> QED
        BY <1>0, <1>2, <1>3, <2>0, <2>3, <3>1, <3>2
    <2> QED
      BY <2>1, <2>2, <2>3
  <1>8. CASE HearReset
    <2>0. creader' = None /\ Head(outbound).t = "reset" /\ Irrelevant(Head(outbound), d)
      BY <1>0, <1>3, <1>8 DEF HearReset, Receive
    <2>1. PICK e \in Conn \union {None} : e = served[Head(outbound).n] /\ (e # None => task[e] \in {"run", "ended", "failed"})
      BY <2>0, <1>0, ArrivingIs DEF ClientTypes, ChannelsInv, Tables
    <2>2. CASE d # e
      <3>1. tgot'[d] = tgot[d] /\ task'[d] = task[d] /\ (d \in tfin' <=> d \in tfin) /\ local'[d] = local[d]
        BY <1>0, <1>8, <2>1, <2>2 DEF HearReset, Leave, ClientTypes, Arriving
      <3> QED
        BY <1>2, <2>0, <3>1
    <2>3. CASE d = e
      <3>1. Leave(d, "done")
        BY <1>0, <1>8, <2>1, <2>3 DEF HearReset, Arriving
      <3>2. ~Running(d)' /\ tgot'[d] = tgot[d] /\ (d \in tfin' => d \in tfin)
        BY <1>0, <3>1 DEF Leave, Running, ClientTypes
      <3>3. ~Opening(d)
        BY <1>0, <2>1, <2>3 DEF ChannelsInv, UpOK
      <3> QED
        BY <1>0, <3>2, <3>3, UpOver
    <2> QED
      BY <2>2, <2>3
  <1>9. CASE HearPing \/ HearPong
    <2>1. UNCHANGED <<tgot, tfin, task, local, creader>> /\ Head(outbound).t \in {"ping", "pong"}
      BY <1>9 DEF HearPing, HearPong, Receive
    <2> QED
      BY <1>0, <1>2, <1>3, <2>1
  <1> QED
    BY <1>5, <1>6, <1>7, <1>8, <1>9 DEF HearStep

LEMMA UpTake ==
    ASSUME ChannelsInv, NEW c \in Conn, Take(c)
    PROVE  UpOK(c)'
  <1>0. /\ UNCHANGED <<sent, vend, up, visit, tfin, task, creader, outbound, bridge>> /\ UpOK(c) /\ Running(c)
        /\ local[c] # <<>> /\ Head(local[c])[2] # 0
        /\ local'[c] = Tail(local[c]) /\ tgot'[c] = Append(tgot[c], Head(local[c]))
    BY DEF Take, Serving, ClientOnly, ServerSide, visitorVars, ChannelsInv, ChannelsTypeOK, ClientTypes
  <1>1. PICK s \in Seq(Item), w \in Seq(Item) : s = local[c] /\ w = UpFlow(c)
    BY UpTypes
  <1>2. Head(s) # EndOf(c) /\ s # <<>>
    BY <1>0, <1>1 DEF EndOf
  <1>3. w # <<>> /\ Head(w) = Head(s) /\ UpFlow(c)' = Tail(w)
    <2>1. CASE creader # None /\ creader[1] = c
      <3>1. PICK x \in Item : x = creader[2] /\ w = Append(s, x)
        BY <1>1, <2>1, UpTypes DEF UpFlow
      <3>2. UpFlow(c)' = Append(Tail(s), x)
        BY <1>0, <1>1, <2>1, <3>1 DEF UpFlow
      <3>3. Tail(Append(s, x)) = Append(Tail(s), x) /\ Head(Append(s, x)) = Head(s) /\ Append(s, x) # <<>>
        BY <1>2, <3>1, TailAppend, AppendIs
      <3> QED
        BY <3>1, <3>2, <3>3
    <2>2. CASE ~(creader # None /\ creader[1] = c)
      BY <1>0, <1>1, <1>2, <2>2 DEF UpFlow
    <2> QED
      BY <2>1, <2>2
  <1>4. PICK a \in Nat : a = Len(tgot[c])
    BY UpTypes
  <1>5. Shape(w, c, a)
    BY <1>0, <1>1, <1>4 DEF UpOK
  <1>6. Head(w) = <<c, a + 1>> /\ Shape(Tail(w), c, a + 1) /\ (Ends(Tail(w), c) <=> Ends(w, c)) /\ Count(w, c) = Count(Tail(w), c) + 1
    BY <1>2, <1>3, <1>5, ShapeTail
  <1>7. Len(tgot'[c]) = a + 1 /\ \A i \in 1 .. Len(tgot'[c]) : tgot'[c][i] = <<c, i>>
    <2>2. PICK g \in Seq(Item) : g = tgot[c]
      BY UpTypes
    <2>6. PICK x \in Item : x = Head(s)
      BY <1>2, TailIs
    <2>7. PICK h : h = Append(g, x)
      OBVIOUS
    <2>3. h = tgot'[c] /\ Len(h) = Len(g) + 1 /\ Len(g) \in Nat /\ h[Len(g) + 1] = x /\ \A i \in 1 .. Len(g) : h[i] = g[i]
      BY <1>0, <1>1, <2>2, <2>6, <2>7, AppendIs
    <2>4. \A i \in 1 .. Len(g) : g[i] = <<c, i>>
      BY <1>0, <2>2 DEF UpOK
    <2>8. Len(g) = a /\ x = <<c, a + 1>>
      BY <1>3, <1>4, <1>6, <2>2, <2>6
    <2>5. \A i \in 1 .. Len(h) : h[i] = <<c, i>>
      BY <2>3, <2>4, <2>8
    <2> QED
      BY <2>3, <2>5, <2>8
  <1>8. UpCount(c)' = UpCount(c)
    <2>1. UpCount(c)' = Len(tgot'[c]) + Count(Tail(w), c)
      BY <1>3 DEF UpCount
    <2>2. UpCount(c) = a + Count(w, c)
      BY <1>1, <1>4 DEF UpCount
    <2>5. Count(Tail(w), c) \in Nat
      BY <1>3, TailIs, CountIs
    <2>3. PICK b \in Nat : b = Count(Tail(w), c) /\ Count(w, c) = b + 1
      BY <1>6, <2>5
    <2>4. (a + 1) + b = a + (b + 1)
      OBVIOUS
    <2> QED
      BY <1>7, <2>1, <2>2, <2>3, <2>4
  <1>9. Shape(UpFlow(c), c, Len(tgot[c]))' /\ (Ends(UpFlow(c), c)' <=> Ends(w, c))
    BY <1>3, <1>6, <1>7
  <1>10. c \notin tfin
    BY <1>0, <1>1, <1>3 DEF UpOK
  <1>11. Ends(w, c) => c \in vend /\ UpCount(c) = sent[c] /\ NoEnd(outbound, c)
    BY <1>0, <1>1 DEF UpOK
  <1>12. Open' = Open /\ ~Opening(c)' /\ OpenFirst(c)'
    BY <1>0 DEF UpOK, Opening, OpenFirst, IsOpen, Running, Open
  <1>13. Open => UpCount(c) <= sent[c] /\ Ordered(outbound, c, UpCount(c), sent[c])
    BY <1>0 DEF UpOK
  <1>14. (up[c] = "run" => c \notin vend) /\ (c \notin vend => NoEnd(outbound, c))
    BY <1>0 DEF UpOK
  <1>15. Open' => UpCount(c)' <= sent'[c] /\ Ordered(outbound', c, UpCount(c)', sent'[c])
    BY <1>0, <1>8, <1>12, <1>13
  <1>16. Ends(UpFlow(c), c)' => c \in vend' /\ UpCount(c)' = sent'[c] /\ NoEnd(outbound', c)
    BY <1>0, <1>8, <1>9, <1>11
  <1>17. (up'[c] = "run" => c \notin vend') /\ (c \notin vend' => NoEnd(outbound', c)) /\ c \notin tfin'
    BY <1>0, <1>10, <1>14
  <1> QED
    BY <1>7, <1>9, <1>12, <1>15, <1>16, <1>17 DEF UpOK

LEMMA UpTakeEnd ==
    ASSUME ChannelsInv, NEW c \in Conn, TakeEnd(c)
    PROVE  UpOK(c)'
  <1>0. /\ UNCHANGED <<sent, vend, up, visit, tgot, task, creader, outbound, bridge>> /\ UpOK(c) /\ Running(c)
        /\ local[c] # <<>> /\ Head(local[c])[2] = 0
        /\ local'[c] = <<>> /\ tfin' = tfin \union {c}
    BY DEF TakeEnd, Serving, ClientOnly, ServerSide, visitorVars, ChannelsInv, ChannelsTypeOK, ClientTypes
  <1>1. PICK s \in Seq(Item), w \in Seq(Item) : s = local[c] /\ w = UpFlow(c)
    BY UpTypes
  <1>4. PICK a \in Nat : a = Len(tgot[c])
    BY UpTypes
  <1>5. Shape(w, c, a)
    BY <1>0, <1>1, <1>4 DEF UpOK
  <1>6. s # <<>> /\ Head(s) \in Item /\ Head(s)[2] = 0
    BY <1>0, <1>1, TailIs
  <1>7. Head(s) # <<c, a + 1>>
    BY <1>6
  <1>8. ~(creader # None /\ creader[1] = c)
    <2>1. SUFFICES ASSUME creader # None, creader[1] = c PROVE FALSE
      OBVIOUS
    <2>2. PICK x \in Item : w = Append(s, x)
      BY <1>1, <2>1, UpTypes DEF UpFlow
    <2>3. Shape(s, c, a) /\ ~Ends(s, c)
      BY <1>5, <2>2, ShapeFront
    <2>4. Head(s) = s[1] /\ 1 \in 1 .. Len(s)
      BY <1>6, TailIs
    <2>5. s[1] = <<c, a + 1>> \/ (1 = Len(s) /\ s[1] = EndOf(c))
      BY <2>3, <2>4 DEF Shape
    <2> QED
      BY <1>6, <1>7, <2>3, <2>4, <2>5 DEF Ends
  <1>9. w = s /\ UpFlow(c)' = <<>>
    BY <1>0, <1>1, <1>8 DEF UpFlow
  <1>10. Head(s) = EndOf(c)
    <2>1. Head(s) = s[1] /\ 1 \in 1 .. Len(s)
      BY <1>6, TailIs
    <2> QED
      BY <1>5, <1>7, <1>9, <2>1 DEF Shape
  <1>11. Ends(s, c) /\ Count(s, c) = 0
    BY <1>5, <1>6, <1>9, <1>10, ShapeEnd
  <1>12. c \in vend /\ UpCount(c) = sent[c] /\ NoEnd(outbound, c) /\ up[c] # "run"
    BY <1>0, <1>1, <1>9, <1>11 DEF UpOK
  <1>13. UpCount(c) = a + Count(s, c)
    BY <1>1, <1>4, <1>9 DEF UpCount
  <1>14. UpCount(c) = a
    BY <1>11, <1>13
  <1>15. ~Ends(<<>>, c) /\ Count(<<>>, c) = 0
    BY DEF Ends, Count
  <1>16. UpCount(c)' = Len(tgot[c]) + Count(<<>>, c)
    BY <1>0, <1>9 DEF UpCount
  <1>17. UpCount(c)' = a
    BY <1>4, <1>15, <1>16
  <1>18. Told(c)
    BY <1>0 DEF ChannelsInv, Tables, Running
  <1>19. Open' = Open /\ ~Opening(c)' /\ OpenFirst(c)' /\ Told(c)'
    BY <1>0, <1>18 DEF UpOK, Opening, OpenFirst, IsOpen, Running, Open, Told
  <1>20. Open => UpCount(c) <= sent[c] /\ Ordered(outbound, c, UpCount(c), sent[c])
    BY <1>0 DEF UpOK
  <1>21. Open' => UpCount(c)' <= sent'[c] /\ Ordered(outbound', c, UpCount(c)', sent'[c])
    BY <1>0, <1>14, <1>17, <1>19, <1>20
  <1>22. c \in vend' /\ UpCount(c)' = sent'[c] /\ NoEnd(outbound', c) /\ up'[c] # "run" /\ Len(tgot'[c]) = sent'[c]
    BY <1>0, <1>4, <1>12, <1>14, <1>17
  <1>23. Shape(UpFlow(c), c, Len(tgot[c]))'
    BY <1>9 DEF Shape
  <1>24. \A i \in 1 .. Len(tgot'[c]) : tgot'[c][i] = <<c, i>>
    BY <1>0 DEF UpOK
  <1> QED
    BY <1>9, <1>19, <1>21, <1>22, <1>23, <1>24 DEF UpOK

LEMMA UpClient ==
    ASSUME ChannelsInv, ClientStep, NEW d \in Conn
    PROVE  UpOK(d)'
  <1>0. /\ UNCHANGED visitorVars /\ bridge' = bridge /\ outbound' = outbound /\ ClientTypes /\ None \notin Conn /\ UpOK(d)
        /\ creader \in (Conn \X Item) \union {None}
    BY ClientFrame, ConstantsAre DEF ChannelsInv, ChannelsTypeOK, QueueTypes
  <1>1. SameOut(d)
    BY <1>0, OutSame DEF Open
  <1>2. ASSUME tgot'[d] = tgot[d], task'[d] = task[d], d \in tfin' <=> d \in tfin, local'[d] = local[d],
               creader' = creader \/ (creader' = None /\ creader[1] # d)
        PROVE  UpOK(d)'
    <2>1. UpFlow(d)' = UpFlow(d)
      BY <1>2 DEF UpFlow
    <2> QED
      BY <1>0, <1>1, <1>2, <2>1, UpLeft
  <1>3. ASSUME task[d] # "off", ~Running(d)', tgot'[d] = tgot[d], d \in tfin' => d \in tfin PROVE UpOK(d)'
    <2>1. ~Opening(d)
      BY <1>0, <1>3 DEF UpOK
    <2> QED
      BY <1>0, <1>3, <2>1, UpOver
  <1>4. ASSUME NEW c \in Conn, Leave(c, "done"), task[c] # "off", creader' = creader \/ (creader' = None /\ creader[1] = c) PROVE UpOK(d)'
    <2>1. CASE d = c
      <3>1. ~Running(d)' /\ tgot'[d] = tgot[d] /\ (d \in tfin' => d \in tfin)
        BY <1>0, <1>4, <2>1 DEF Leave, Running, ClientTypes
      <3> QED
        BY <1>3, <1>4, <2>1, <3>1
    <2>2. CASE d # c
      <3>1. tgot'[d] = tgot[d] /\ task'[d] = task[d] /\ (d \in tfin' <=> d \in tfin) /\ local'[d] = local[d]
        BY <1>0, <1>4, <2>2 DEF Leave, ClientTypes
      <3> QED
        BY <1>2, <1>4, <2>2, <3>1
    <2> QED
      BY <2>1, <2>2
  <1>5. CASE Delivered
    <2>0. creader # None /\ creader' = None /\ UNCHANGED <<tgot, tfin, task>>
      BY <1>5 DEF Delivered
    <2>1. PICK c \in Conn, x \in Item : c = creader[1] /\ x = creader[2] /\ task[c] # "off"
      BY <1>0, <2>0 DEF ChannelsInv, Phases
    <2>2. local' = IF Running(c) THEN [local EXCEPT ![c] = Append(@, x)] ELSE local
      BY <1>5, <2>1 DEF Delivered
    <2>3. CASE d # c
      <3>1. local'[d] = local[d]
        BY <1>0, <2>2, <2>3 DEF ClientTypes
      <3> QED
        BY <1>2, <2>0, <2>1, <2>3, <3>1
    <2>4. CASE d = c /\ Running(c)
      <3>1. local'[d] = Append(local[d], x)
        BY <1>0, <2>2, <2>4 DEF ClientTypes
      <3>2. UpFlow(d)' = UpFlow(d)
        BY <2>0, <2>1, <2>4, <3>1 DEF UpFlow
      <3> QED
        BY <1>0, <1>1, <2>0, <3>2, UpLeft
    <2>5. CASE d = c /\ ~Running(c)
      <3>1. ~Running(d)'
        BY <2>0, <2>5 DEF Running
      <3> QED
        BY <1>3, <2>0, <2>1, <2>5, <3>1
    <2> QED
      BY <2>3, <2>4, <2>5
  <1>6. CASE Stalled
    <2>1. PICK c \in Conn : c = creader[1] /\ Leave(c, "done") /\ creader' = None
      BY <1>0, <1>6 DEF Stalled
    <2>2. task[c] # "off"
      BY <1>6, <2>1 DEF Stalled, Running
    <2> QED
      BY <1>4, <2>1, <2>2
  <1>7. CASE Heartbeat
    BY <1>2, <1>7 DEF Heartbeat
  <1>8. ASSUME NEW c \in Conn, TargetStep(c) PROVE UpOK(d)'
    <2>0. creader' = creader
      BY <1>8 DEF TargetStep, Take, TakeEnd, Answer, AnswerEnds, ChannelDone, ChannelFails, TellFailed, Serving
    <2>1. CASE Take(c) /\ d = c
      BY <2>1, UpTake
    <2>2. CASE TakeEnd(c) /\ d = c
      BY <2>2, UpTakeEnd
    <2>3. CASE (Take(c) \/ TakeEnd(c)) /\ d # c
      <3>1. tgot'[d] = tgot[d] /\ task'[d] = task[d] /\ (d \in tfin' <=> d \in tfin) /\ local'[d] = local[d]
        BY <1>0, <2>3 DEF Take, TakeEnd, ClientTypes
      <3> QED
        BY <1>2, <2>0, <3>1
    <2>4. CASE Answer(c)
      BY <1>2, <2>0, <2>4 DEF Answer
    <2>5. CASE AnswerEnds(c)
      <3>1. UNCHANGED <<tgot, tfin, local>> /\ task[c] = "run" /\ task' = [task EXCEPT ![c] = "ended"]
        BY <2>5 DEF AnswerEnds
      <3>2. (Running(d)' <=> Running(d)) /\ (task[d] = "off" => task'[d] = "off")
        BY <1>0, <3>1 DEF Running, ClientTypes
      <3>3. UpFlow(d)' = UpFlow(d) /\ (Told(d) => Told(d)')
        BY <1>0, <2>0, <3>1 DEF UpFlow, Told, visitorVars
      <3>4. SameUp(d)
        BY <1>0, <3>1, <3>2, <3>3 DEF SameUp, visitorVars
      <3> QED
        BY <1>1, <3>4, UpSame
    <2>6. CASE ChannelDone(c) \/ TellFailed(c)
      <3>1. Leave(c, "done") /\ task[c] # "off"
        BY <2>6 DEF ChannelDone, TellFailed
      <3> QED
        BY <1>4, <2>0, <3>1
    <2>7. CASE ChannelFails(c)
      <3>1. UNCHANGED <<tgot, tfin>> /\ Running(c) /\ task' = [task EXCEPT ![c] = "failed"] /\ local' = [local EXCEPT ![c] = <<>>]
        BY <2>7 DEF ChannelFails
      <3>2. CASE d = c
        <4>1. ~Running(d)' /\ task[d] # "off"
          BY <1>0, <3>1, <3>2 DEF Running, ClientTypes
        <4> QED
          BY <1>3, <3>1, <4>1
      <3>3. CASE d # c
        <4>1. task'[d] = task[d] /\ local'[d] = local[d]
          BY <1>0, <3>1, <3>3 DEF ClientTypes
        <4> QED
          BY <1>2, <2>0, <3>1, <4>1
      <3> QED
        BY <3>2, <3>3
    <2> QED
      BY <1>8, <2>1, <2>2, <2>3, <2>4, <2>5, <2>6, <2>7 DEF TargetStep
  <1> QED
    BY <1>5, <1>6, <1>7, <1>8 DEF ClientStep

LEMMA UpSession ==
    ASSUME ChannelsInv, SessionEnds, NEW d \in Conn
    PROVE  UpOK(d)'
  <1>1. UNCHANGED <<sent, vend, up, visit>> /\ outbound' = <<>> /\ ~Running(d)' /\ tgot'[d] = tgot[d] /\ (d \in tfin' => d \in tfin)
    BY SessionFrame DEF SessionEnds, DropOutbound, visitorVars, Running
  <1>2. ~Opening(d)' /\ OpenFirst(d)' /\ NoEnd(outbound', d)
    BY <1>1 DEF Opening, OpenFirst, NoEnd
  <1> QED
    BY <1>1, <1>2, UpStopped

LEMMA UpKept ==
    ASSUME ChannelsInv, ChannelsNext, ~clash'
    PROVE  \A d \in Conn : UpOK(d)'
  <1> TAKE d \in Conn
  <1>1. ASSUME NEW c \in Conn, VisitorStep(c) PROVE UpOK(d)'
    BY <1>1, UpVisitor, UpElsewhere
  <1> QED
    BY <1>1, Steps, UpServer, UpHear, UpClient, UpSession

-----------------------------------------------------------------------------
(* The theorems. *)

LEMMA SettledKept ==
    ASSUME ChannelsInv, ChannelsNext, ~clash', NEW c \in Conn
    PROVE  Settled(c)'
  <1>0. /\ VisitorTypes /\ ClientTypes /\ DownOK(c) /\ Settled(c) /\ (c \in tend => task[c] # "run")
        /\ (visit[c] \in {"new", "routed"} => vis[c] = "open")
        /\ (visit[c] = "carried" => down[c] # "off")
    BY DEF ChannelsInv, ChannelsTypeOK, Phases
  <1>1. ASSUME UNCHANGED visitorVars, c \in tend => c \in tend' /\ tsent'[c] = tsent[c] PROVE Settled(c)'
    BY <1>0, <1>1 DEF Settled, visitorVars
  <1>2. CASE ReadStep \/ ReaderStep \/ BridgeStep \/ SessionEnds
    <2>1. UNCHANGED <<visitorVars, tend, tsent>>
      BY <1>2, ReadFrame, ReaderFrame, BridgeFrame, SessionFrame DEF clientVars
    <2> QED
      BY <1>1, <2>1
  <1>3. CASE HearStep
    <2>1. UNCHANGED <<visitorVars, tend, tsent>>
      <3>1. UNCHANGED visitorVars
        BY <1>3, HearFrame
      <3>2. UNCHANGED <<tend, tsent>>
        BY <1>3 DEF HearStep, RefuseOpen, AcceptOpen, Deliver, HearReset, HearPing, HearPong, Leave
      <3> QED
        BY <3>1, <3>2
    <2> QED
      BY <1>1, <2>1
  <1>4. CASE ClientStep
    <2>1. UNCHANGED visitorVars
      BY <1>4, ClientFrame
    <2>2. CASE Delivered \/ Stalled \/ Heartbeat
      BY <1>1, <2>1, <2>2 DEF Delivered, Stalled, Heartbeat, Leave
    <2>3. ASSUME NEW d \in Conn, Answer(d) PROVE Settled(c)'
      <3>1. c \in tend => c # d
        BY <1>0, <2>3 DEF Answer
      <3>2. tend' = tend /\ (c # d => tsent'[c] = tsent[c])
        BY <1>0, <2>3 DEF Answer, ClientTypes
      <3> QED
        BY <1>1, <2>1, <3>1, <3>2
    <2>4. ASSUME NEW d \in Conn, TargetStep(d), ~Answer(d) PROVE Settled(c)'
      <3>1. tsent' = tsent /\ tend \subseteq tend'
        BY <2>4 DEF TargetStep, Take, TakeEnd, AnswerEnds, ChannelDone, ChannelFails, TellFailed, Leave
      <3> QED
        BY <1>1, <2>1, <3>1
    <2> QED
      BY <1>4, <2>2, <2>3, <2>4 DEF ClientStep
  <1>5. ASSUME NEW d \in Conn, VisitorStep(d) PROVE Settled(c)'
    <2>1. UNCHANGED <<tend, tsent>>
      BY <1>5, VisitorFrame DEF clientVars
    <2>2. ASSUME visit'[c] = "done", vis'[c] = "fin" PROVE c \in tend /\ Len(got'[c]) = tsent[c]
      <3>0. got'[c] = got[c]
        BY <2>2, GotKept DEF Active
      <3>1. CASE visit[c] = "done"
        <4>1. vis[c] = "fin"
          <5>1. CASE Ended(d) \/ Idle(d)
            BY <1>0, <2>2, <3>1, <5>1 DEF Ended, Idle, Over, VisitorTypes
          <5>2. CASE DownloadEnd(d)
            BY <1>0, <2>2, <3>1, <5>2 DEF DownloadEnd, Downloading, VisitorTypes
          <5>3. CASE Route(d) \/ Carry(d) \/ Refuse(d)
            BY <2>2, <5>3 DEF Route, Carry, Refuse
          <5>4. CASE Upload(d) \/ UploadEnd(d) \/ UploadError(d) \/ UploadAborted(d)
            BY <2>2, <5>4 DEF Upload, UploadEnd, UploadError, UploadAborted, Uploading
          <5>5. CASE Written(d) \/ Progress(d) \/ WriteError(d) \/ DownloadAborted(d)
            BY <2>2, <5>5 DEF Written, Progress, WriteError, DownloadAborted
          <5> QED
            BY <1>5, <5>1, <5>2, <5>3, <5>4, <5>5 DEF VisitorStep
        <4> QED
          BY <1>0, <3>0, <3>1, <4>1 DEF Settled
      <3>2. CASE visit[c] # "done"
        <4>1. Ended(c) \/ Idle(c) \/ Refuse(c)
          <5>1. CASE Route(d) \/ Carry(d) \/ Refuse(d)
            BY <1>0, <2>2, <3>2, <5>1 DEF Route, Carry, Refuse, VisitorTypes
          <5>2. CASE Upload(d) \/ UploadEnd(d) \/ UploadError(d) \/ UploadAborted(d)
            BY <2>2, <3>2, <5>2 DEF Upload, UploadEnd, UploadError, UploadAborted, Uploading
          <5>3. CASE Written(d) \/ Progress(d) \/ WriteError(d) \/ DownloadEnd(d) \/ DownloadAborted(d)
            BY <2>2, <3>2, <5>3 DEF Written, Progress, WriteError, DownloadEnd, DownloadAborted, Downloading
          <5>4. CASE Ended(d) \/ Idle(d)
            BY <1>0, <2>2, <3>2, <5>4 DEF Ended, Idle, Over, VisitorTypes
          <5> QED
            BY <1>5, <5>1, <5>2, <5>3, <5>4 DEF VisitorStep
        <4>2. ~Refuse(c)
          BY <1>0, <2>2 DEF Refuse
        <4>3. ~Idle(c)
          BY <1>0, <2>2 DEF Idle, Over, VisitorTypes
        <4>4. visit[c] = "carried" /\ down[c] = "done" /\ vis[c] = "fin" /\ c \notin abort
          BY <1>0, <2>2, <4>1, <4>2, <4>3 DEF Ended, Over, VisitorTypes
        <4>5. EndRead(c)
          BY <1>0, <4>4 DEF DownOK, Active
        <4> QED
          BY <3>0, <4>4, <4>5 DEF EndRead
      <3> QED
        BY <3>1, <3>2
    <2> QED
      BY <2>1, <2>2 DEF Settled
  <1> QED
    BY <1>2, <1>3, <1>4, <1>5, Steps

LEMMA ChannelsStarts ==
    ASSUME ChannelsInit
    PROVE  ChannelsInv
  <1> USE DEF ChannelsInit
  <1>0. /\ None \notin Conn /\ IsFiniteSet(Conn) /\ Numbers \in Nat \ {0, 1} /\ Numbers - 1 \in Nat
        /\ CHANNEL_BUDGET \in Nat /\ BRIDGE_BUDGET \in Nat /\ OUTBOUND_BUDGET \in Nat
    BY ConstantsAre
  <1>1. <<>> \in Seq(Item) /\ <<>> \in Seq(MessageType) /\ Signal("none") \in MessageType /\ Signal("none").c = None /\ Signal("none").n = 0 /\ Signal("none").t = "none"
    BY SignalIs DEF Signal
  <1>2. reader.at = "read" /\ reader.c = None /\ reader.x = <<>> /\ reader.todo = {} /\ reader.tell = Signal("none") /\ reader = Reading
        /\ DOMAIN reader = {"at", "c", "x", "todo", "tell"}
    BY DEF Reading
  <1>3. Len(<<>>) = 0 /\ Range(outbound) = {} /\ Range(controls) = {} /\ Range(datas) = {}
    BY DEF Range
  <1>4. Underway = {} /\ WithReader = {}
    BY <1>1, <1>2, <1>3 DEF Underway, WithReader
  <1>5. ChannelsTypeOK
    <2>1. VisitorTypes
      BY <1>1 DEF VisitorTypes
    <2>2. HeldTypes
      BY <1>0, <1>1 DEF HeldTypes
    <2>3. BridgeTypes
      BY <1>0 DEF BridgeTypes, Number
    <2>4. ReaderTypes
      BY <1>1, <1>2 DEF ReaderTypes
    <2>5. ClientTypes
      BY <1>1 DEF ClientTypes, Number
    <2>6. QueueTypes
      BY <1>0, <1>1 DEF QueueTypes
    <2> QED
      BY <2>1, <2>2, <2>3, <2>4, <2>5, <2>6 DEF ChannelsTypeOK
  <1>6. Tables
    <2>1. Spoken = {}
      BY <1>4 DEF Spoken, Active, Range
    <2>2. Sound(reader.tell)
      BY <1>1, <1>2 DEF Sound
    <2>3. \A n \in Number : channels[n] = None /\ served[n] = None
      BY DEF Number
    <2>4. \A c \in Conn : visit[c] = "new" /\ task[c] = "off"
      OBVIOUS
    <2>5. bridge = "up"
      OBVIOUS
    <2> HIDE DEF ChannelsInit
    <2> QED
      BY <1>4, <2>1, <2>2, <2>3, <2>4, <2>5 DEF Tables
  <1>7. Phases
    BY <1>1, <1>2, <1>3 DEF Phases, Open
  <1>8. Balanced
    <2>1. \A c \in Conn : Frames(c) = {}
      BY DEF Frames
    <2>2. HeldFrames = {} /\ CreditedFrames = {} /\ {c \in Conn : visit[c] \in {"routed", "carried"}} = {}
      BY <2>1 DEF HeldFrames, CreditedFrames
    <2>3. Cardinality({}) = 0
      BY FS_EmptySet
    <2>4. \A c \in Conn : Data(c) = 0
      BY <2>1, <2>3 DEF Data
    <2>5. /\ \A c \in Conn : budget[c] = CHANNEL_BUDGET /\ inbound[c] = <<>>
          /\ shared = BRIDGE_BUDGET /\ credit = OUTBOUND_BUDGET /\ visitors = 0
      OBVIOUS
    <2> HIDE DEF ChannelsInit
    <2>6. Cardinality(HeldFrames) = 0 /\ Cardinality(CreditedFrames) = 0 /\ Cardinality({c \in Conn : visit[c] \in {"routed", "carried"}}) = 0
      BY <2>2, <2>3
    <2>7. \A c \in Conn : budget[c] + Data(c) = CHANNEL_BUDGET
      BY <1>0, <2>4, <2>5
    <2>8. shared + Cardinality(HeldFrames) = BRIDGE_BUDGET /\ credit + Cardinality(CreditedFrames) = OUTBOUND_BUDGET
      BY <1>0, <2>5, <2>6
    <2> QED
      BY <2>5, <2>6, <2>7, <2>8 DEF Balanced
  <1>9. ASSUME NEW c \in Conn PROVE DownOK(c)
    <2>1. inbound[c] = <<>> /\ got[c] = <<>> /\ DownFlow(c) = <<>> /\ ~Active(c) /\ c \notin tend /\ vis[c] = "open" /\ down[c] = "off"
      BY <1>0, <1>2 DEF DownFlow, Active
    <2>2. ~Ends(inbound[c], c) /\ NoEnd(datas, c) /\ visit[c] # "carried"
      BY <2>1 DEF Ends, NoEnd
    <2> QED
      BY <2>1, <2>2 DEF DownOK
  <1>10. ASSUME NEW c \in Conn PROVE UpOK(c)
    <2>1. tgot[c] = <<>> /\ ~Running(c) /\ ~Opening(c) /\ OpenFirst(c) /\ NoEnd(outbound, c) /\ c \notin vend /\ c \notin tfin
      BY DEF Running, Opening, OpenFirst, NoEnd
    <2> QED
      BY <2>1 DEF UpOK
  <1>11. ASSUME NEW c \in Conn PROVE Settled(c)
    BY DEF Settled
  <1> QED
    BY <1>5, <1>6, <1>7, <1>8, <1>9, <1>10, <1>11 DEF ChannelsInv

LEMMA ChannelsStutter ==
    ASSUME ChannelsInv, UNCHANGED channelsVars
    PROVE  ChannelsInv'
  <1> USE DEF channelsVars, visitorVars, finishVars, heldVars, outVars, clientVars
  <1>1. ChannelsTypeOK'
    BY DEF ChannelsInv, ChannelsTypeOK, VisitorTypes, HeldTypes, BridgeTypes, ReaderTypes, ClientTypes, QueueTypes
  <1>2. Tables'
    <2>1. Underway' = Underway /\ WithReader' = WithReader /\ Spoken' = Spoken
      BY DEF Underway, WithReader, Spoken, Active
    <2> QED
      BY <2>1 DEF ChannelsInv, Tables, Sound, Told, Active
  <1>3. Phases'
    BY DEF ChannelsInv, Phases, Open
  <1>4. Balanced'
    BY DEF ChannelsInv, Balanced, HeldFrames, CreditedFrames, Data, Frames
  <1>5. ASSUME NEW c \in Conn PROVE DownOK(c)' /\ UpOK(c)' /\ Settled(c)'
    <2>1. DownOK(c) /\ UpOK(c) /\ Settled(c)
      BY DEF ChannelsInv
    <2>2. DownFlow(c)' = DownFlow(c) /\ UpFlow(c)' = UpFlow(c)
      BY DEF DownFlow, UpFlow
    <2>3. DownOK(c)'
      BY <2>1, <2>2 DEF DownOK, EndRead, DownCount, Active, Open
    <2>4. UpOK(c)'
      BY <2>1, <2>2 DEF UpOK, UpCount, Opening, OpenFirst, Running, Open, Told
    <2>5. Settled(c)'
      BY <2>1 DEF Settled
    <2> QED
      BY <2>3, <2>4, <2>5
  <1> QED
    BY <1>1, <1>2, <1>3, <1>4, <1>5 DEF ChannelsInv

LEMMA ClashStays ==
    ASSUME clash, [ChannelsNext]_channelsVars
    PROVE  clash'
  <1>1. CASE UNCHANGED channelsVars
    BY <1>1 DEF channelsVars
  <1>2. CASE ChannelsNext
    <2>1. ASSUME NEW c \in Conn, Route(c) PROVE clash'
      <3>1. PICK taken \in Elsewhere, i \in 0 .. Numbers - 1 : clash' = (clash \/ Lingers(Candidate(i)))
        BY <2>1, Zenon DEF Route
      <3> QED
        BY <3>1, Zenon
    <2>2. ASSUME NEW c \in Conn, VisitorStep(c), ~Route(c) PROVE UNCHANGED clash
      <3>1. CASE Carry(c) \/ Refuse(c)
        BY <3>1 DEF Carry, Refuse
      <3>2. CASE Upload(c) \/ UploadEnd(c) \/ UploadError(c) \/ UploadAborted(c)
        BY <3>2 DEF Upload, UploadEnd, UploadError, UploadAborted, Uploading
      <3>3. CASE Written(c) \/ Progress(c) \/ WriteError(c) \/ DownloadEnd(c) \/ DownloadAborted(c)
        BY <3>3 DEF Written, Progress, WriteError, DownloadEnd, DownloadAborted, Downloading
      <3>4. CASE Ended(c) \/ Idle(c)
        BY <3>4 DEF Ended, Idle, Over
      <3> QED
        BY <2>2, <3>1, <3>2, <3>3, <3>4 DEF VisitorStep
    <2>3. CASE ReadStep \/ ReaderStep \/ BridgeStep
      BY <2>3 DEF ReadStep, Ignore, ReadPing, ReadData, ReadEnd, ReadReset, Arrive, ReaderStep, WaitEnds, Stall, ResetStalled,
                  LastTry, Tell, ReaderOnly, BridgeStep, KeepAlive, Lose, Drain, CloseBridge
    <2>4. CASE HearStep \/ SessionEnds
      BY <2>4 DEF HearStep, RefuseOpen, AcceptOpen, Deliver, HearReset, HearPing, HearPong, Receive, ServerSide, SessionEnds
    <2>5. CASE ClientStep
      <3>1. CASE Delivered \/ Stalled \/ Heartbeat
        BY <3>1 DEF Delivered, Stalled, Heartbeat, ClientOnly, ServerSide
      <3>2. ASSUME NEW c \in Conn, TargetStep(c) PROVE ClientOnly
        BY <3>2 DEF TargetStep, Take, TakeEnd, Answer, AnswerEnds, ChannelDone, ChannelFails, TellFailed, Serving
      <3> QED
        BY <2>5, <3>1, <3>2 DEF ClientStep, ClientOnly, ServerSide
    <2> QED
      BY <1>2, <2>1, <2>2, <2>3, <2>4, <2>5, Steps
  <1> QED
    BY <1>1, <1>2

\* Until a number clashes, the invariant is kept.
LEMMA ChannelsInvHolds ==
    ChannelsSpec => [](clash \/ ChannelsInv)
  <1>1. ChannelsInit => ChannelsInv
    BY ChannelsStarts
  <1>2. ASSUME ChannelsInv, [ChannelsNext]_channelsVars, ~clash' PROVE ChannelsInv'
    <2>1. CASE ChannelsNext
      <3>1. Tables'
        <4>1. CASE \A c \in Conn : ~Route(c)
          BY <1>2, <2>1, <4>1, TablesKept
        <4>2. ASSUME NEW c \in Conn, Route(c) PROVE Tables'
          BY <1>2, <4>2, TablesRoute
        <4> QED
          BY <4>1, <4>2
      <3> QED
        BY <1>2, <2>1, <3>1, TypesKept, PhasesKept, BalancedKept, DownKept, UpKept, SettledKept DEF ChannelsInv
    <2>2. CASE UNCHANGED channelsVars
      BY <1>2, <2>2, ChannelsStutter
    <2> QED
      BY <1>2, <2>1, <2>2
  <1> QED
    <2> HIDE DEF ChannelsInv, ChannelsNext, ChannelsInit, channelsVars
    <2>1. (clash \/ ChannelsInv) /\ [ChannelsNext]_channelsVars => (clash \/ ChannelsInv)'
      BY <1>2, ClashStays, Zenon
    <2> QED
      BY <1>1, <2>1, PTL DEF ChannelsSpec

\* Until a number still spoken of is given again, every share and slot taken is
\* accounted for by something that will give it back (Held and its permits,
\* VisitorSlot), for any number of connections and any budgets: none leaks and none is
\* given back twice, however a connection ends.
THEOREM SharesAreAccounted ==
    ChannelsSpec => []Accounted
  <1>1. clash \/ ChannelsInv => Accounted
    BY DEF ChannelsInv, Accounted
  <1> QED
    BY <1>1, ChannelsInvHolds, PTL

\* Until a number still spoken of is given again, a visitor gets its own target's data
\* and a target its own visitor's, in order and without a gap, though numbers come round;
\* a visitor that sees its target's end and no reset, and a target told of its visitor's
\* end, got everything sent (routing, relay and run_channel).
THEOREM StreamsAreWhole ==
    ChannelsSpec => []Streams
  <1>1. ASSUME ChannelsInv PROVE Streams
    <2>1. SUFFICES ASSUME NEW c \in Conn
                   PROVE  /\ \A i \in 1 .. Len(got[c]) : got[c][i] = <<c, i>>
                          /\ \A i \in 1 .. Len(tgot[c]) : tgot[c][i] = <<c, i>>
                          /\ vis[c] = "fin" /\ c \notin abort => c \in tend /\ Len(got[c]) = tsent[c]
                          /\ c \in tfin => c \in vend /\ Len(tgot[c]) = sent[c]
      BY DEF Streams
    <2>2. DownOK(c) /\ UpOK(c) /\ Settled(c)
      BY <1>1 DEF ChannelsInv
    <2>3. ASSUME vis[c] = "fin", c \notin abort PROVE c \in tend /\ Len(got[c]) = tsent[c]
      <3>1. visit[c] \in {"carried", "done"}
        BY <1>1, <2>3 DEF ChannelsInv, Phases, ChannelsTypeOK, VisitorTypes
      <3>2. CASE visit[c] = "carried"
        <4>1. down[c] = "done"
          BY <1>1, <2>2, <2>3, <3>2 DEF ChannelsInv, Phases, DownOK, ChannelsTypeOK, VisitorTypes
        <4>2. EndRead(c)
          BY <2>2, <2>3, <3>2, <4>1 DEF DownOK, Active
        <4> QED
          BY <2>3, <4>2 DEF EndRead
      <3> QED
        BY <2>2, <2>3, <3>1, <3>2 DEF Settled
    <2> QED
      BY <2>2, <2>3 DEF DownOK, UpOK
  <1>2. clash => Streams
    BY DEF Streams
  <1> QED
    BY <1>1, <1>2, ChannelsInvHolds, PTL

=============================================================================
