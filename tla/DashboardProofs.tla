-------------------------- MODULE DashboardProofs --------------------------
(* Proofs about Dashboard, for any browsers, injectors and events. *)
EXTENDS Dashboard, FiniteSetTheorems, SequenceTheorems, TLAPS

USE DashboardAssumption

-----------------------------------------------------------------------------
(* The inductive invariant. *)

Message == [kind : {"event", "incident"}, n : Nat]

TypeOK ==
    /\ published \in Nat
    /\ fetched \in Nat
    /\ added \in Seq(Nat)
    /\ phase \in [Broadcaster -> {"idle", "event", "incident", "inject", "done", "cancelled"}]
    /\ phase["drain"] \in {"idle", "event", "incident", "cancelled"}
    /\ targets \in [Broadcaster -> Seq(Client)]
    /\ active_connections \in Seq(Client)
    /\ endpoint \in [Client -> {"none", "accepting", "open", "ended"}]
    /\ peer \in [Client -> {"up", "gone"}]
    /\ log \in Seq(Message)
    /\ joined \in [Client -> Nat]
    /\ received \in [Client -> Seq(Message)]

Distinct(q) == \A i, j \in 1 .. Len(q) : q[i] = q[j] => i = j

Accepting(c) == endpoint[c] \in {"none", "accepting"}

(* Only accepted connections are registered or the target of a broadcast,  *)
(* each once; one that serves a browser is registered.                     *)
ConnectionInv ==
    /\ Distinct(active_connections)
    /\ \A c \in Range(active_connections) : ~ Accepting(c)
    /\ \A b \in Broadcaster :
          /\ Distinct(targets[b])
          /\ \A c \in Range(targets[b]) : ~ Accepting(c)
    /\ \A c \in Client :
          /\ endpoint[c] = "open" /\ peer[c] = "up" => c \in Range(active_connections)
          /\ endpoint[c] = "ended" => peer[c] = "gone"

(* Between two broadcasts drain has nobody to send to. *)
DrainInv ==
    /\ phase["drain"] \in {"idle", "cancelled"} => targets["drain"] = <<>>
    /\ \A i \in 1 .. Len(added) : added[i] = i
    /\ phase["drain"] \in {"idle", "incident"} => Len(added) = fetched
    /\ phase["drain"] = "event" => Len(added) = fetched - 1
    /\ Len(added) \in {fetched, fetched - 1}

Awaits(c) == c \in Range(targets["drain"])

(* A registered browser has all of the log from where it joined, but for   *)
(* the last message while it is still in drain's snapshot.                 *)
HasFeed(c) ==
    /\ Len(received[c]) = Len(log) - joined[c] - (IF Awaits(c) THEN 1 ELSE 0)
    /\ \A i \in 1 .. Len(received[c]) : received[c][i] = log[joined[c] + i]

FeedInv ==
    /\ \A c \in Client :
          /\ joined[c] <= Len(log)
          /\ Awaits(c) => joined[c] < Len(log)
          /\ Accepting(c) => received[c] = <<>>
    /\ phase["drain"] # "cancelled" =>
          \A c \in Range(active_connections) : peer[c] = "up" => HasFeed(c)

IInv ==
    /\ TypeOK
    /\ ConnectionInv
    /\ DrainInv
    /\ FeedInv
-----------------------------------------------------------------------------
(* Lists of connections. *)

LEMMA RangeIsElements ==
    ASSUME NEW S, NEW q \in Seq(S), NEW x
    PROVE  x \in Range(q) <=> \E i \in 1 .. Len(q) : q[i] = x
BY LenProperties DEF Range

LEMMA RangeInSet ==
    ASSUME NEW S, NEW q \in Seq(S), NEW x \in Range(q)
    PROVE  x \in S
<1>1. PICK i \in 1 .. Len(q) : q[i] = x
  BY RangeIsElements
<1> QED
  BY <1>1, ElementOfSeq

(* list.append of a new element. *)
LEMMA AppendDistinct ==
    ASSUME NEW S, NEW q \in Seq(S), NEW e \in S
    PROVE  /\ Range(Append(q, e)) = Range(q) \cup {e}
           /\ Distinct(q) /\ e \notin Range(q) => Distinct(Append(q, e))
<1>1. /\ Append(q, e) \in Seq(S)
      /\ Len(Append(q, e)) = Len(q) + 1
      /\ \A i \in 1 .. Len(q) : Append(q, e)[i] = q[i]
      /\ Append(q, e)[Len(q) + 1] = e
  BY AppendProperties
<1>2. /\ Len(q) \in Nat
      /\ DOMAIN q = 1 .. Len(q)
      /\ DOMAIN Append(q, e) = 1 .. Len(q) + 1
  BY <1>1, LenProperties
<1>3. \A i : i \in 1 .. Len(q) + 1 <=> i \in 1 .. Len(q) \/ i = Len(q) + 1
  BY <1>2
<1>4. Range(Append(q, e)) = Range(q) \cup {e}
  BY <1>1, <1>2, <1>3 DEF Range
<1>5. ASSUME Distinct(q), e \notin Range(q)
      PROVE  Distinct(Append(q, e))
  <2>1. \A i \in 1 .. Len(q) : q[i] # e
    BY <1>2, <1>5 DEF Range
  <2> QED
    BY <1>1, <1>3, <1>5, <2>1 DEF Distinct
<1> QED
  BY <1>4, <1>5

(* The rest of a snapshot. *)
LEMMA TailDistinct ==
    ASSUME NEW S, NEW q \in Seq(S), q # <<>>
    PROVE  /\ Head(q) \in S /\ Head(q) \in Range(q)
           /\ Tail(q) \in Seq(S)
           /\ Range(Tail(q)) \subseteq Range(q)
           /\ Distinct(q) => Distinct(Tail(q)) /\ Range(Tail(q)) = Range(q) \ {Head(q)}
<1>1. /\ Head(q) \in S /\ Head(q) = q[1]
      /\ Tail(q) \in Seq(S)
      /\ Len(Tail(q)) = Len(q) - 1
      /\ \A i \in 1 .. Len(Tail(q)) : Tail(q)[i] = q[i + 1]
  BY HeadTailProperties
<1>2. Len(q) \in Nat \ {0} /\ 1 \in 1 .. Len(q)
  BY EmptySeq
<1>3. \A i \in 1 .. Len(Tail(q)) : i + 1 \in 1 .. Len(q) /\ i + 1 # 1
  BY <1>1, <1>2
<1>4. \A i \in 1 .. Len(q) : i # 1 => i - 1 \in 1 .. Len(Tail(q)) /\ Tail(q)[i - 1] = q[i]
  <2>1. ASSUME NEW i \in 1 .. Len(q), i # 1
        PROVE  i - 1 \in 1 .. Len(Tail(q)) /\ Tail(q)[i - 1] = q[i]
    <3>1. i - 1 \in 1 .. Len(Tail(q)) /\ (i - 1) + 1 = i
      BY <1>1, <1>2, <2>1
    <3> QED
      BY <1>1, <3>1
  <2> QED
    BY <2>1
<1>5. Head(q) \in Range(q)
  BY <1>1, <1>2, RangeIsElements
<1>6. Range(Tail(q)) \subseteq Range(q)
  <2>1. ASSUME NEW x \in Range(Tail(q))
        PROVE  x \in Range(q)
    <3>1. PICK i \in 1 .. Len(Tail(q)) : Tail(q)[i] = x
      BY <1>1, RangeIsElements
    <3>2. q[i + 1] = x /\ i + 1 \in 1 .. Len(q)
      BY <1>1, <1>3, <3>1
    <3> QED
      BY <3>2, RangeIsElements
  <2> QED
    BY <2>1
<1>7. ASSUME Distinct(q)
      PROVE  Distinct(Tail(q)) /\ Range(Tail(q)) = Range(q) \ {Head(q)}
  <2>1. ASSUME NEW i \in 1 .. Len(Tail(q)), NEW j \in 1 .. Len(Tail(q)), Tail(q)[i] = Tail(q)[j]
        PROVE  i = j
    <3>1. i + 1 = j + 1
      BY <1>1, <1>3, <1>7, <2>1 DEF Distinct
    <3> QED
      BY <3>1
  <2>2. Head(q) \notin Range(Tail(q))
    <3>1. \A i \in 1 .. Len(Tail(q)) : Tail(q)[i] # Head(q)
      BY <1>1, <1>2, <1>3, <1>7 DEF Distinct
    <3>2. Tail(q) \in Seq(S)
      BY <1>1
    <3>3. Head(q) \in Range(Tail(q)) => \E i \in 1 .. Len(Tail(q)) : Tail(q)[i] = Head(q)
      BY <3>2, RangeIsElements
    <3> QED
      BY <3>1, <3>3
  <2>3. ASSUME NEW x \in Range(q), x # Head(q)
        PROVE  x \in Range(Tail(q))
    <3>1. PICK i \in 1 .. Len(q) : q[i] = x
      BY RangeIsElements
    <3>2. i # 1
      BY <1>1, <2>3, <3>1
    <3> QED
      BY <1>1, <1>4, <3>1, <3>2, RangeIsElements
  <2> QED
    BY <1>6, <2>1, <2>2, <2>3 DEF Distinct
<1> QED
  BY <1>1, <1>5, <1>6, <1>7

(* A sequence that agrees with a stretch of another is that stretch. *)
LEMMA SliceOf ==
    ASSUME NEW S, NEW s \in Seq(S), NEW q \in Seq(S), NEW j \in Nat,
           j + Len(q) <= Len(s),
           \A i \in 1 .. Len(q) : q[i] = s[j + i]
    PROVE  q = SubSeq(s, j + 1, j + Len(q))
<1> DEFINE m == j + 1
           n == j + Len(q)
           r == SubSeq(s, m, n)
<1>1. Len(q) \in Nat /\ Len(s) \in Nat
  BY LenProperties
<1>2. m \in Int /\ n \in Int
  BY <1>1
<1>3. \A i \in m .. n : s[i] \in S
  <2>1. \A i \in m .. n : i \in 1 .. Len(s)
    BY <1>1
  <2> QED
    BY <2>1, ElementOfSeq
<1>4. n - m + 1 = Len(q) /\ (m <= n <=> Len(q) # 0)
  BY <1>1
<1>5. \A i \in 1 .. n - m + 1 : m + i - 1 = j + i
  BY <1>1
<1> HIDE DEF m, n
<1>6. /\ r \in Seq(S)
      /\ Len(r) = IF m <= n THEN n - m + 1 ELSE 0
      /\ \A i \in 1 .. n - m + 1 : r[i] = s[m + i - 1]
  BY <1>2, <1>3, SubSeqProperties
<1> HIDE DEF r
<1>7. Len(r) = Len(q)
  BY <1>4, <1>6
<1>8. \A i \in 1 .. Len(q) : r[i] = q[i]
  BY <1>4, <1>5, <1>6
<1>9. q = r
  BY <1>6, <1>7, <1>8, SeqEqual
<1> QED
  BY <1>9 DEF r, m, n

(* list.remove takes the connection out and leaves the others in order. *)
LEMMA DisconnectRemoves ==
    ASSUME NEW S, NEW q \in Seq(S), NEW c, Distinct(q)
    PROVE  /\ Disconnect(q, c) \in Seq(S)
           /\ Distinct(Disconnect(q, c))
           /\ Range(Disconnect(q, c)) = Range(q) \ {c}
<1>1. CASE ~ \E i \in 1 .. Len(q) : q[i] = c
  <2>1. Disconnect(q, c) = q
    BY <1>1 DEF Disconnect, RemoveFirst
  <2>2. c \notin Range(q)
    BY <1>1, RangeIsElements
  <2> QED
    BY <2>1, <2>2
<1>2. CASE \E i \in 1 .. Len(q) : q[i] = c
  <2>1. PICK k \in 1 .. Len(q) : q[k] = c
    BY <1>2
  <2>2. Len(q) \in Nat /\ k \in Nat /\ 1 <= k /\ k <= Len(q)
    BY LenProperties
  <2>3. {i \in 1 .. Len(q) : q[i] = c} = {k}
    BY <2>1 DEF Distinct
  <2>4. Min({k}) = k
    BY <2>2 DEF Min
  <2>5. SelectInSeq(q, LAMBDA v : v = c) = k
    BY <2>3, <2>4 DEF SelectInSeq
  <2> DEFINE s1 == SubSeq(q, 1, k - 1)
             s2 == SubSeq(q, k + 1, Len(q))
  <2>6. Disconnect(q, c) = s1 \o s2
    BY <1>2, <2>5 DEF Disconnect, RemoveFirst, RemoveAt
  <2>7. /\ s1 \in Seq(S) /\ Len(s1) = k - 1
        /\ \A i \in 1 .. k - 1 : s1[i] = q[i]
    <3>1. \A i \in 1 .. k - 1 : q[i] \in S
      <4>1. \A i \in 1 .. k - 1 : i \in 1 .. Len(q)
        BY <2>2
      <4> QED
        BY <4>1, ElementOfSeq
    <3>2. /\ s1 \in Seq(S)
          /\ Len(s1) = IF 1 <= k - 1 THEN k - 1 - 1 + 1 ELSE 0
          /\ \A i \in 1 .. k - 1 - 1 + 1 : s1[i] = q[1 + i - 1]
      <4>1. 1 \in Int /\ k - 1 \in Int
        BY <2>2
      <4> QED
        BY <3>1, <4>1, SubSeqProperties
    <3> HIDE DEF s1
    <3>3. \A i \in 1 .. k - 1 : i \in 1 .. k - 1 - 1 + 1 /\ 1 + i - 1 = i
      BY <2>2
    <3> QED
      BY <2>2, <3>2, <3>3
  <2>8. /\ s2 \in Seq(S) /\ Len(s2) = Len(q) - k
        /\ \A i \in 1 .. Len(q) - k : s2[i] = q[k + i]
    <3>1. \A i \in k + 1 .. Len(q) : q[i] \in S
      <4>1. \A i \in k + 1 .. Len(q) : i \in 1 .. Len(q)
        BY <2>2
      <4> QED
        BY <4>1, ElementOfSeq
    <3>2. /\ s2 \in Seq(S)
          /\ Len(s2) = IF k + 1 <= Len(q) THEN Len(q) - (k + 1) + 1 ELSE 0
          /\ \A i \in 1 .. Len(q) - (k + 1) + 1 : s2[i] = q[k + 1 + i - 1]
      <4>1. k + 1 \in Int /\ Len(q) \in Int
        BY <2>2
      <4> QED
        BY <3>1, <4>1, SubSeqProperties
    <3> HIDE DEF s2
    <3>3. \A i \in 1 .. Len(q) - k : i \in 1 .. Len(q) - (k + 1) + 1 /\ k + 1 + i - 1 = k + i
      BY <2>2
    <3> QED
      BY <2>2, <3>2, <3>3
  <2> HIDE DEF s1, s2
  <2> DEFINE r == s1 \o s2
  <2>9. /\ r \in Seq(S)
        /\ Len(r) = Len(q) - 1
        /\ \A i \in 1 .. Len(r) : r[i] = IF i < k THEN q[i] ELSE q[i + 1]
    <3>1. /\ r \in Seq(S)
          /\ Len(r) = Len(s1) + Len(s2)
          /\ \A i \in 1 .. Len(s1) + Len(s2) : r[i] = IF i <= Len(s1) THEN s1[i] ELSE s2[i - Len(s1)]
      BY <2>7, <2>8, ConcatProperties
    <3> HIDE DEF r
    <3>2. Len(r) = Len(q) - 1
      BY <2>2, <2>7, <2>8, <3>1
    <3>3. ASSUME NEW i \in 1 .. Len(r)
          PROVE  r[i] = IF i < k THEN q[i] ELSE q[i + 1]
      <4>1. CASE i < k
        <5>1. i <= Len(s1) /\ i \in 1 .. k - 1 /\ i \in 1 .. Len(s1) + Len(s2)
          BY <2>2, <2>7, <2>8, <3>2, <4>1
        <5> QED
          BY <2>7, <3>1, <4>1, <5>1
      <4>2. CASE ~ (i < k)
        <5>1. /\ ~ (i <= Len(s1)) /\ i \in 1 .. Len(s1) + Len(s2)
              /\ i - Len(s1) \in 1 .. Len(q) - k /\ k + (i - Len(s1)) = i + 1
          BY <2>2, <2>7, <2>8, <3>2, <4>2
        <5> QED
          BY <2>8, <3>1, <4>2, <5>1
      <4> QED
        BY <4>1, <4>2
    <3> QED
      BY <3>1, <3>2, <3>3
  <2> HIDE DEF r
  <2>10. \A i \in 1 .. Len(r) : \E j \in 1 .. Len(q) : /\ r[i] = q[j] /\ j # k
                                                       /\ j = IF i < k THEN i ELSE i + 1
    BY <2>2, <2>9
  <2>11. Distinct(r)
    <3>1. ASSUME NEW i \in 1 .. Len(r), NEW j \in 1 .. Len(r), r[i] = r[j]
          PROVE  i = j
      <4>1. PICK m \in 1 .. Len(q) : r[i] = q[m] /\ m = IF i < k THEN i ELSE i + 1
        BY <2>10
      <4>2. PICK n \in 1 .. Len(q) : r[j] = q[n] /\ n = IF j < k THEN j ELSE j + 1
        BY <2>10
      <4>3. m = n
        BY <3>1, <4>1, <4>2 DEF Distinct
      <4> QED
        BY <2>2, <2>9, <4>1, <4>2, <4>3
    <3> QED
      BY <3>1 DEF Distinct
  <2>12. ASSUME NEW x
         PROVE  x \in Range(r) <=> x \in Range(q) /\ x # c
    <3>1. ASSUME NEW i \in 1 .. Len(r), r[i] = x
          PROVE  x \in Range(q) /\ x # c
      <4>1. PICK j \in 1 .. Len(q) : r[i] = q[j] /\ j # k
        BY <2>10
      <4> QED
        BY <2>1, <3>1, <4>1, RangeIsElements DEF Distinct
    <3>2. ASSUME NEW j \in 1 .. Len(q), q[j] = x, x # c
          PROVE  \E i \in 1 .. Len(r) : r[i] = x
      <4>1. j # k
        BY <2>1, <3>2
      <4>2. CASE j < k
        <5>1. j \in 1 .. Len(r)
          BY <2>2, <2>9, <4>2
        <5> QED
          BY <2>9, <3>2, <4>2, <5>1
      <4>3. CASE j > k
        <5>1. j - 1 \in 1 .. Len(r) /\ ~ (j - 1 < k) /\ (j - 1) + 1 = j
          BY <2>2, <2>9, <4>3
        <5> QED
          BY <2>9, <3>2, <5>1
      <4> QED
        BY <2>2, <4>1, <4>2, <4>3
    <3> QED
      BY <2>9, <3>1, <3>2, RangeIsElements
  <2> QED
    BY <2>6, <2>9, <2>11, <2>12 DEF r
<1> QED
  BY <1>1, <1>2

-----------------------------------------------------------------------------
(* What the feed depends on. *)

(* No connections. *)
LEMMA NoConnections ==
    Range(<<>>) = {} /\ Distinct(<<>>) /\ Len(<<>>) = 0
<1>1. Len(<<>>) = 0 /\ <<>> \in Seq({})
  BY EmptySeq
<1>2. \A i : i \notin 1 .. Len(<<>>)
  BY <1>1
<1>3. Range(<<>>) = {}
  BY <1>1, <1>2, RangeIsElements
<1> QED
  BY <1>1, <1>2, <1>3 DEF Distinct

(* A step that neither sends to a browser nor registers one keeps the feed.*)
LEMMA FeedKept ==
    ASSUME IInv,
           UNCHANGED <<log, joined, received>>,
           targets["drain"]' = targets["drain"],
           phase["drain"]' # "cancelled" => phase["drain"] # "cancelled",
           \A c \in Range(active_connections)' :
               peer[c]' = "up" => c \in Range(active_connections) /\ peer[c] = "up",
           \A c \in Client : Accepting(c)' => Accepting(c)
    PROVE  FeedInv'
<1>1. \A c : Awaits(c)' <=> Awaits(c)
  BY DEF Awaits
<1>2. \A c : HasFeed(c)' <=> HasFeed(c)
  BY <1>1 DEF HasFeed
<1>3. \A c \in Client : /\ (joined[c] <= Len(log))'
                        /\ (Awaits(c) => joined[c] < Len(log))'
                        /\ (Accepting(c) => received[c] = <<>>)'
  BY <1>1 DEF IInv, FeedInv
<1> QED
  BY <1>2, <1>3 DEF IInv, FeedInv

(* drain starts a broadcast: every registered browser awaits the message. *)
LEMMA FeedStarts ==
    ASSUME IInv, NEW m \in Message,
           phase["drain"] # "cancelled",
           targets["drain"] = <<>>,
           targets["drain"]' = active_connections,
           log' = Append(log, m),
           UNCHANGED <<joined, received, active_connections, peer, endpoint>>
    PROVE  FeedInv'
<1>1. /\ log \in Seq(Message) /\ Len(log) \in Nat
      /\ active_connections \in Seq(Client)
      /\ joined \in [Client -> Nat]
      /\ received \in [Client -> Seq(Message)]
  BY LenProperties DEF IInv, TypeOK
<1>2. /\ Len(log') = Len(log) + 1
      /\ \A i \in 1 .. Len(log) : log'[i] = log[i]
  BY <1>1, AppendProperties
<1>3. \A c : ~ Awaits(c)
  BY NoConnections DEF Awaits
<1>4. \A c : Awaits(c)' <=> c \in Range(active_connections)
  BY DEF Awaits
<1>5. \A c \in Client : joined[c] \in Nat /\ joined[c] <= Len(log)
  BY <1>1 DEF IInv, FeedInv
<1>6. \A c \in Client : Accepting(c)' => received[c]' = <<>>
  BY DEF IInv, FeedInv, Accepting
<1>7. ASSUME NEW c \in Range(active_connections), peer[c] = "up"
      PROVE  HasFeed(c)'
  <2>1. c \in Client
    BY <1>1, <1>7, RangeInSet
  <2>2. HasFeed(c) /\ ~ Awaits(c) /\ Awaits(c)'
    BY <1>3, <1>4, <1>7 DEF IInv, FeedInv
  <2>3. /\ received[c] \in Seq(Message) /\ Len(received[c]) \in Nat
        /\ joined[c] \in Nat
    BY <1>1, <2>1, LenProperties
  <2>4. Len(received[c]) = Len(log) - joined[c]
    BY <1>1, <2>2, <2>3 DEF HasFeed
  <2>5. \A i \in 1 .. Len(received[c]) : received[c][i] = log'[joined[c] + i]
    <3>1. \A i \in 1 .. Len(received[c]) : joined[c] + i \in 1 .. Len(log)
      BY <1>1, <2>3, <2>4
    <3>2. \A i \in 1 .. Len(received[c]) : received[c][i] = log[joined[c] + i]
      BY <2>2 DEF HasFeed
    <3> QED
      BY <1>2, <3>1, <3>2
  <2>6. Len(received[c]) = Len(log') - joined[c] - 1
    BY <1>1, <1>2, <2>3, <2>4
  <2> QED
    BY <2>2, <2>5, <2>6 DEF HasFeed
<1>8. \A c \in Client : joined[c] <= Len(log') /\ joined[c] < Len(log')
  BY <1>1, <1>2, <1>5
<1> QED
  BY <1>6, <1>7, <1>8 DEF FeedInv

(* drain's send_text returned: if the browser is up it has the message. *)
LEMMA FeedSent ==
    ASSUME IInv, SendOk("drain")
    PROVE  FeedInv'
<1> DEFINE c0 == Head(targets["drain"])
<1>1. /\ log \in Seq(Message) /\ Len(log) \in Nat
      /\ active_connections \in Seq(Client)
      /\ targets \in [Broadcaster -> Seq(Client)]
      /\ joined \in [Client -> Nat]
      /\ received \in [Client -> Seq(Message)]
      /\ "drain" \in Broadcaster
  BY LenProperties DEF IInv, TypeOK, Broadcaster
<1>2. /\ targets["drain"] \in Seq(Client) /\ targets["drain"] # <<>>
      /\ Distinct(targets["drain"])
      /\ targets["drain"]' = Tail(targets["drain"])
  BY <1>1 DEF SendOk, IInv, ConnectionInv
<1>3. /\ c0 \in Client /\ c0 \in Range(targets["drain"])
      /\ Range(Tail(targets["drain"])) = Range(targets["drain"]) \ {c0}
  BY <1>2, TailDistinct
<1>4. /\ endpoint[c0] = "open"
      /\ UNCHANGED <<log, joined, active_connections, peer, endpoint, phase>>
      /\ received' = IF peer[c0] = "up"
                     THEN [received EXCEPT ![c0] = Append(@, log[Len(log)])]
                     ELSE received
  BY DEF SendOk, drainVars, clientVars
<1> HIDE DEF c0
<1>5. /\ \A c : Awaits(c)' <=> Awaits(c) /\ c # c0
      /\ Awaits(c0)
  BY <1>2, <1>3 DEF Awaits
<1>6. phase["drain"] # "cancelled"
  BY <1>2 DEF IInv, DrainInv
<1>7. joined[c0] < Len(log) /\ joined[c0] \in Nat
  BY <1>1, <1>3, <1>5 DEF IInv, FeedInv
<1>8. ASSUME NEW c \in Client
      PROVE  /\ (joined[c] <= Len(log))'
             /\ (Awaits(c) => joined[c] < Len(log))'
             /\ (Accepting(c) => received[c] = <<>>)'
  <2>1. (joined[c] <= Len(log))' /\ (Awaits(c) => joined[c] < Len(log))'
    BY <1>4, <1>5 DEF IInv, FeedInv
  <2>2. Accepting(c)' => Accepting(c) /\ c # c0
    BY <1>4 DEF Accepting
  <2>3. c # c0 => received[c]' = received[c]
    BY <1>1, <1>4
  <2> QED
    BY <2>1, <2>2, <2>3 DEF IInv, FeedInv
<1>9. ASSUME NEW c \in Range(active_connections), peer[c] = "up"
      PROVE  HasFeed(c)'
  <2>1. c \in Client
    BY <1>1, <1>9, RangeInSet
  <2>2. HasFeed(c)
    BY <1>6, <1>9 DEF IInv, FeedInv
  <2>3. CASE c # c0
    BY <1>1, <1>4, <1>5, <2>1, <2>2, <2>3 DEF HasFeed
  <2>4. CASE c = c0
    <3> DEFINE q == received[c]
    <3>1. q \in Seq(Message) /\ Len(q) \in Nat
      BY <1>1, <2>1, LenProperties
    <3>2. received[c]' = Append(q, log[Len(log)])
      BY <1>1, <1>4, <1>9, <2>1, <2>4
    <3>3. /\ Len(q) = Len(log) - joined[c] - 1
          /\ \A i \in 1 .. Len(q) : q[i] = log[joined[c] + i]
      BY <1>5, <2>2, <2>4 DEF HasFeed
    <3> HIDE DEF q
    <3>4. log[Len(log)] \in Message
      <4>1. Len(log) \in 1 .. Len(log)
        BY <1>1, <1>7
      <4> QED
        BY <1>1, <4>1, ElementOfSeq
    <3>5. /\ Len(Append(q, log[Len(log)])) = Len(q) + 1
          /\ \A i \in 1 .. Len(q) : Append(q, log[Len(log)])[i] = q[i]
          /\ Append(q, log[Len(log)])[Len(q) + 1] = log[Len(log)]
      BY <3>1, <3>4, AppendProperties
    <3>6. /\ joined[c] + (Len(q) + 1) = Len(log)
          /\ Len(q) + 1 = Len(log) - joined[c]
      BY <1>1, <1>7, <2>4, <3>1, <3>3
    <3>7. \A i \in 1 .. Len(q) + 1 : i \in 1 .. Len(q) \/ i = Len(q) + 1
      BY <3>1
    <3>8. \A i \in 1 .. Len(q) + 1 : Append(q, log[Len(log)])[i] = log[joined[c] + i]
      BY <3>3, <3>5, <3>6, <3>7
    <3>9. ~ Awaits(c)'
      BY <1>5, <2>4
    <3>10. Len(log) - joined[c] - 0 = Len(log) - joined[c]
      BY <1>1, <1>7, <2>4
    <3>11. /\ Len(received[c]') = Len(log') - joined[c]' - (IF Awaits(c)' THEN 1 ELSE 0)
           /\ \A i \in 1 .. Len(received[c]') : received[c]'[i] = log'[joined[c]' + i]
      BY <1>4, <3>2, <3>5, <3>6, <3>8, <3>9, <3>10
    <3> QED
      BY <3>11 DEF HasFeed
  <2> QED
    BY <2>3, <2>4
<1> QED
  BY <1>4, <1>8, <1>9 DEF FeedInv

(* drain's send_text raised: the browser is gone and awaits nothing more. *)
LEMMA FeedFailed ==
    ASSUME IInv, SendFail("drain")
    PROVE  FeedInv'
<1> DEFINE c0 == Head(targets["drain"])
<1>1. /\ active_connections \in Seq(Client)
      /\ targets \in [Broadcaster -> Seq(Client)]
      /\ "drain" \in Broadcaster
  BY DEF IInv, TypeOK, Broadcaster
<1>2. /\ targets["drain"] \in Seq(Client) /\ targets["drain"] # <<>>
      /\ Distinct(targets["drain"])
      /\ targets["drain"]' = Tail(targets["drain"])
  BY <1>1 DEF SendFail, OnSendError, IInv, ConnectionInv
<1>3. /\ c0 \in Client
      /\ Range(Tail(targets["drain"])) = Range(targets["drain"]) \ {c0}
  BY <1>2, TailDistinct
<1>4. /\ peer[c0] = "gone"
      /\ UNCHANGED <<log, joined, received, peer, endpoint, phase>>
      /\ active_connections' = Disconnect(active_connections, c0)
  BY DEF SendFail, OnSendError, clientVars
<1> HIDE DEF c0
<1>5. \A c : Awaits(c)' <=> Awaits(c) /\ c # c0
  BY <1>2, <1>3 DEF Awaits
<1>6. Range(active_connections)' = Range(active_connections) \ {c0}
  BY <1>1, <1>4, DisconnectRemoves DEF IInv, ConnectionInv
<1>7. \A c : c # c0 /\ HasFeed(c) => HasFeed(c)'
  BY <1>4, <1>5 DEF HasFeed
<1>8. \A c \in Client : /\ (joined[c] <= Len(log))'
                        /\ (Awaits(c) => joined[c] < Len(log))'
                        /\ (Accepting(c) => received[c] = <<>>)'
  BY <1>4, <1>5 DEF IInv, FeedInv, Accepting
<1> QED
  BY <1>4, <1>6, <1>7, <1>8 DEF IInv, FeedInv

-----------------------------------------------------------------------------
(* The invariant is inductive: one lemma per action. *)

LEMMA InitialInv == Init => IInv
<1> SUFFICES ASSUME Init PROVE IInv
  OBVIOUS
<1>1. TypeOK
  BY EmptySeq DEF Init, TypeOK, Broadcaster
<1>2. ConnectionInv
  BY NoConnections DEF Init, ConnectionInv
<1>3. DrainInv
  <2>1. "drain" \in Broadcaster
    BY DEF Broadcaster
  <2> QED
    BY <2>1, NoConnections DEF Init, DrainInv
<1>4. FeedInv
  <2>1. ~ \E c : Awaits(c)
    BY NoConnections DEF Init, Awaits, Broadcaster
  <2> QED
    BY <2>1, NoConnections DEF Init, FeedInv
<1> QED
  BY <1>1, <1>2, <1>3, <1>4 DEF IInv

(* The connections depend on these variables only. *)
LEMMA ConnectionKept ==
    ASSUME ConnectionInv, UNCHANGED <<active_connections, targets, endpoint, peer>>
    PROVE  ConnectionInv'
BY DEF ConnectionInv, Accepting

(* What the tasks of the browsers and the injectors leave alone in drain. *)
LEMMA DrainKept ==
    ASSUME DrainInv, UNCHANGED <<added, fetched>>,
           phase["drain"]' = phase["drain"], targets["drain"]' = targets["drain"]
    PROVE  DrainInv'
BY DEF DrainInv

LEMMA PublishInv == IInv /\ Publish => IInv'
<1> SUFFICES ASSUME IInv, Publish PROVE IInv'
  OBVIOUS
<1>1. UNCHANGED <<fetched, added, phase, targets, active_connections, endpoint,
                  peer, joined, log, received>>
  BY DEF Publish, clientVars
<1>2. TypeOK'
  BY <1>1 DEF IInv, TypeOK, Publish
<1>3. ConnectionInv' /\ DrainInv'
  BY <1>1, ConnectionKept, DrainKept DEF IInv
<1>4. FeedInv'
  BY <1>1, FeedKept DEF Accepting
<1> QED
  BY <1>2, <1>3, <1>4 DEF IInv

(* A task takes a snapshot of the registered connections. *)
LEMMA SnapshotInv ==
    ASSUME IInv, NEW b \in Broadcaster, NEW p,
           p \in {"idle", "event", "incident", "inject", "done", "cancelled"},
           StartBroadcast(b, p),
           UNCHANGED <<active_connections, endpoint, peer>>
    PROVE  /\ targets' \in [Broadcaster -> Seq(Client)]
           /\ phase' \in [Broadcaster -> {"idle", "event", "incident", "inject", "done", "cancelled"}]
           /\ targets[b]' = active_connections /\ phase[b]' = p
           /\ \A d \in Broadcaster : d # b => /\ targets[d]' = targets[d]
                                              /\ phase[d]' = phase[d]
           /\ ConnectionInv'
<1>1. /\ targets \in [Broadcaster -> Seq(Client)]
      /\ phase \in [Broadcaster -> {"idle", "event", "incident", "inject", "done", "cancelled"}]
      /\ active_connections \in Seq(Client)
  BY DEF IInv, TypeOK
<1>2. /\ targets' \in [Broadcaster -> Seq(Client)]
      /\ phase' \in [Broadcaster -> {"idle", "event", "incident", "inject", "done", "cancelled"}]
  BY <1>1 DEF StartBroadcast
<1>3. /\ targets[b]' = active_connections /\ phase[b]' = p
      /\ \A d \in Broadcaster : d # b => /\ targets[d]' = targets[d]
                                         /\ phase[d]' = phase[d]
  BY <1>1 DEF StartBroadcast
<1>4. ConnectionInv'
  <2>1. \A c : Accepting(c)' <=> Accepting(c)
    BY DEF Accepting
  <2>2. \A d \in Broadcaster : /\ Distinct(targets[d]')
                               /\ \A c \in Range(targets[d]') : ~ Accepting(c)
    BY <1>3 DEF IInv, ConnectionInv
  <2> QED
    BY <2>1, <2>2 DEF IInv, ConnectionInv
<1> QED
  BY <1>2, <1>3, <1>4

LEMMA DrainGetInv == IInv /\ DrainGet => IInv'
<1> SUFFICES ASSUME IInv, DrainGet PROVE IInv'
  OBVIOUS
<1>1. /\ UNCHANGED <<published, added, active_connections, endpoint, peer, joined, received>>
      /\ phase["drain"] = "idle" /\ fetched' = fetched + 1
      /\ StartBroadcast("drain", "event")
      /\ log' = Append(log, [kind |-> "event", n |-> fetched + 1])
  BY DEF DrainGet, NextEvent, clientVars
<1>2. "drain" \in Broadcaster
  BY DEF Broadcaster
<1>3. [kind |-> "event", n |-> fetched + 1] \in Message
  BY DEF IInv, TypeOK, Message
<1>4. /\ targets' \in [Broadcaster -> Seq(Client)]
      /\ phase' \in [Broadcaster -> {"idle", "event", "incident", "inject", "done", "cancelled"}]
      /\ targets["drain"]' = active_connections /\ phase["drain"]' = "event"
      /\ ConnectionInv'
  BY <1>1, <1>2, SnapshotInv
<1>5. TypeOK'
  <2>1. log' \in Seq(Message)
    BY <1>1, <1>3, AppendProperties DEF IInv, TypeOK
  <2> QED
    BY <1>1, <1>4, <2>1 DEF IInv, TypeOK
<1>6. DrainInv'
  <2>1. Len(added) = fetched /\ fetched \in Nat
    BY <1>1 DEF IInv, DrainInv, TypeOK
  <2>2. Len(added') = fetched' - 1
    BY <1>1, <2>1
  <2> QED
    BY <1>1, <1>4, <2>2 DEF IInv, DrainInv
<1>7. FeedInv'
  <2>1. targets["drain"] = <<>>
    BY <1>1 DEF IInv, DrainInv
  <2> QED
    BY <1>1, <1>3, <1>4, <2>1, FeedStarts
<1> QED
  BY <1>4, <1>5, <1>6, <1>7 DEF IInv

LEMMA DrainAddInv == IInv /\ DrainAdd => IInv'
<1> SUFFICES ASSUME IInv, DrainAdd PROVE IInv'
  OBVIOUS
<1>1. /\ UNCHANGED <<published, fetched, active_connections, endpoint, peer, joined, received>>
      /\ phase["drain"] = "event" /\ targets["drain"] = <<>>
      /\ added' = Append(added, fetched)
  BY DEF DrainAdd, clientVars
<1>2. /\ "drain" \in Broadcaster
      /\ added \in Seq(Nat) /\ fetched \in Nat /\ Len(added) = fetched - 1
  BY <1>1 DEF Broadcaster, IInv, TypeOK, DrainInv
<1>3. /\ added' \in Seq(Nat) /\ Len(added') = Len(added) + 1
      /\ \A i \in 1 .. Len(added) : added'[i] = added[i]
      /\ added'[Len(added) + 1] = fetched
  BY <1>1, <1>2, AppendProperties
<1>4. /\ Len(added') = fetched'
      /\ \A i \in 1 .. Len(added') : added'[i] = i
  <2>1. /\ Len(added) \in Nat /\ Len(added) + 1 = fetched
        /\ \A i \in 1 .. Len(added) + 1 : i \in 1 .. Len(added) \/ i = Len(added) + 1
    BY <1>2, LenProperties
  <2>2. \A i \in 1 .. Len(added) : added[i] = i
    BY DEF IInv, DrainInv
  <2> QED
    BY <1>1, <1>3, <2>1, <2>2
<1>5. CASE phase' = [phase EXCEPT !["drain"] = "idle"] /\ UNCHANGED <<targets, log>>
  <2>1. /\ phase' \in [Broadcaster -> {"idle", "event", "incident", "inject", "done", "cancelled"}]
        /\ phase["drain"]' = "idle"
    BY <1>2, <1>5 DEF IInv, TypeOK
  <2>2. TypeOK'
    BY <1>1, <1>3, <1>5, <2>1 DEF IInv, TypeOK
  <2>3. ConnectionInv'
    BY <1>1, <1>5, ConnectionKept DEF IInv
  <2>4. DrainInv'
    BY <1>1, <1>4, <1>5, <2>1 DEF DrainInv
  <2>5. FeedInv'
    BY <1>1, <1>5, <2>1, FeedKept DEF Accepting
  <2> QED
    BY <2>2, <2>3, <2>4, <2>5 DEF IInv
<1>6. CASE /\ StartBroadcast("drain", "incident")
           /\ log' = Append(log, [kind |-> "incident", n |-> fetched])
  <2>1. [kind |-> "incident", n |-> fetched] \in Message
    BY <1>2 DEF Message
  <2>2. /\ targets' \in [Broadcaster -> Seq(Client)]
        /\ phase' \in [Broadcaster -> {"idle", "event", "incident", "inject", "done", "cancelled"}]
        /\ targets["drain"]' = active_connections /\ phase["drain"]' = "incident"
        /\ ConnectionInv'
    BY <1>1, <1>2, <1>6, SnapshotInv
  <2>3. TypeOK'
    <3>1. log' \in Seq(Message)
      BY <1>6, <2>1, AppendProperties DEF IInv, TypeOK
    <3> QED
      BY <1>1, <1>3, <2>2, <3>1 DEF IInv, TypeOK
  <2>4. DrainInv'
    BY <1>4, <2>2 DEF DrainInv
  <2>5. FeedInv'
    BY <1>1, <1>6, <2>1, <2>2, FeedStarts
  <2> QED
    BY <2>2, <2>3, <2>4, <2>5 DEF IInv
<1> QED
  BY <1>5, <1>6 DEF DrainAdd

LEMMA DrainLoopInv == IInv /\ DrainLoop => IInv'
<1> SUFFICES ASSUME IInv, DrainLoop PROVE IInv'
  OBVIOUS
<1>1. /\ UNCHANGED <<published, fetched, added, targets, active_connections, endpoint,
                     peer, joined, log, received>>
      /\ phase["drain"] = "incident" /\ targets["drain"] = <<>>
      /\ phase' = [phase EXCEPT !["drain"] = "idle"]
  BY DEF DrainLoop, drainVars, clientVars
<1>2. /\ phase' \in [Broadcaster -> {"idle", "event", "incident", "inject", "done", "cancelled"}]
      /\ phase["drain"]' = "idle"
  BY <1>1 DEF IInv, TypeOK, Broadcaster
<1>3. TypeOK'
  BY <1>1, <1>2 DEF IInv, TypeOK
<1>4. ConnectionInv'
  BY <1>1, ConnectionKept DEF IInv
<1>5. DrainInv'
  BY <1>1, <1>2 DEF IInv, DrainInv
<1>6. FeedInv'
  BY <1>1, <1>2, FeedKept DEF Accepting
<1> QED
  BY <1>3, <1>4, <1>5, <1>6 DEF IInv

(* After a cancel nothing is promised of the feed. *)
LEMMA CancelInv == IInv /\ Cancel => IInv'
<1> SUFFICES ASSUME IInv, Cancel PROVE IInv'
  OBVIOUS
<1>1. /\ UNCHANGED <<published, fetched, added, active_connections, endpoint,
                     peer, joined, log, received>>
      /\ phase' = [phase EXCEPT !["drain"] = "cancelled"]
      /\ targets' = [targets EXCEPT !["drain"] = <<>>]
  BY DEF Cancel, drainVars, clientVars
<1>2. /\ phase' \in [Broadcaster -> {"idle", "event", "incident", "inject", "done", "cancelled"}]
      /\ phase["drain"]' = "cancelled"
  BY <1>1 DEF IInv, TypeOK, Broadcaster
<1>3. /\ targets' \in [Broadcaster -> Seq(Client)]
      /\ targets["drain"]' = <<>>
      /\ \A b \in Broadcaster : b # "drain" => targets[b]' = targets[b]
  BY <1>1, EmptySeq DEF IInv, TypeOK, Broadcaster
<1>4. TypeOK'
  BY <1>1, <1>2, <1>3 DEF IInv, TypeOK
<1>5. ConnectionInv'
  <2>1. \A c : Accepting(c)' <=> Accepting(c)
    BY <1>1 DEF Accepting
  <2>2. \A b \in Broadcaster : /\ Distinct(targets[b]')
                               /\ \A c \in Range(targets[b]') : ~ Accepting(c)
    BY <1>3, NoConnections DEF IInv, ConnectionInv
  <2> QED
    BY <1>1, <2>1, <2>2 DEF IInv, ConnectionInv
<1>6. DrainInv'
  BY <1>1, <1>2, <1>3 DEF IInv, DrainInv
<1>7. FeedInv'
  <2>1. \A c : ~ Awaits(c)'
    BY <1>3, NoConnections DEF Awaits
  <2> QED
    BY <1>1, <1>2, <2>1 DEF IInv, FeedInv, Accepting
<1> QED
  BY <1>4, <1>5, <1>6, <1>7 DEF IInv

LEMMA InjectInv == \A b \in Injector : IInv /\ Inject(b) => IInv'
<1> SUFFICES ASSUME NEW b \in Injector, IInv, Inject(b) PROVE IInv'
  OBVIOUS
<1>1. /\ UNCHANGED <<published, fetched, added, active_connections, endpoint,
                     peer, joined, log, received>>
      /\ StartBroadcast(b, "inject")
  BY DEF Inject, drainVars, clientVars
<1>2. b \in Broadcaster /\ "drain" \in Broadcaster /\ b # "drain"
  BY DEF Broadcaster
<1>3. /\ targets' \in [Broadcaster -> Seq(Client)]
      /\ phase' \in [Broadcaster -> {"idle", "event", "incident", "inject", "done", "cancelled"}]
      /\ targets["drain"]' = targets["drain"] /\ phase["drain"]' = phase["drain"]
      /\ ConnectionInv'
  BY <1>1, <1>2, SnapshotInv
<1>4. TypeOK'
  BY <1>1, <1>3 DEF IInv, TypeOK
<1>5. DrainInv'
  BY <1>1, <1>3, DrainKept DEF IInv
<1>6. FeedInv'
  BY <1>1, <1>3, FeedKept DEF Accepting
<1> QED
  BY <1>3, <1>4, <1>5, <1>6 DEF IInv

LEMMA InjectReturnInv == \A b \in Injector : IInv /\ InjectReturn(b) => IInv'
<1> SUFFICES ASSUME NEW b \in Injector, IInv, InjectReturn(b) PROVE IInv'
  OBVIOUS
<1>1. /\ UNCHANGED <<published, fetched, added, targets, active_connections, endpoint,
                     peer, joined, log, received>>
      /\ phase' = [phase EXCEPT ![b] = "done"]
  BY DEF InjectReturn, drainVars, clientVars
<1>2. /\ phase' \in [Broadcaster -> {"idle", "event", "incident", "inject", "done", "cancelled"}]
      /\ phase["drain"]' = phase["drain"]
  BY <1>1 DEF IInv, TypeOK, Broadcaster
<1>3. TypeOK'
  BY <1>1, <1>2 DEF IInv, TypeOK
<1>4. ConnectionInv' /\ DrainInv'
  BY <1>1, <1>2, ConnectionKept, DrainKept DEF IInv
<1>5. FeedInv'
  BY <1>1, <1>2, FeedKept DEF Accepting
<1> QED
  BY <1>3, <1>4, <1>5 DEF IInv

(* The snapshot of a task shrinks from its head. *)
LEMMA SnapshotShrinks ==
    ASSUME IInv, NEW b \in Broadcaster, targets[b] # <<>>,
           targets' = [targets EXCEPT ![b] = Tail(@)]
    PROVE  /\ Head(targets[b]) \in Client
           /\ targets' \in [Broadcaster -> Seq(Client)]
           /\ \A d \in Broadcaster : d # b => targets[d]' = targets[d]
           /\ \A d \in Broadcaster : /\ Distinct(targets[d]')
                                     /\ \A c \in Range(targets[d]') : ~ Accepting(c)
<1>1. /\ targets \in [Broadcaster -> Seq(Client)]
      /\ targets[b] \in Seq(Client)
  BY DEF IInv, TypeOK
<1>2. /\ Head(targets[b]) \in Client
      /\ Tail(targets[b]) \in Seq(Client)
      /\ Range(Tail(targets[b])) \subseteq Range(targets[b])
      /\ Distinct(targets[b]) => Distinct(Tail(targets[b]))
  BY <1>1, TailDistinct
<1>3. targets' \in [Broadcaster -> Seq(Client)]
  BY <1>1, <1>2
<1>4. /\ targets[b]' = Tail(targets[b])
      /\ \A d \in Broadcaster : d # b => targets[d]' = targets[d]
  BY <1>1
<1>5. \A d \in Broadcaster : /\ Distinct(targets[d]')
                             /\ \A c \in Range(targets[d]') : ~ Accepting(c)
  BY <1>2, <1>4 DEF IInv, ConnectionInv
<1> QED
  BY <1>2, <1>3, <1>4, <1>5

(* While drain sends it is in a broadcast. *)
LEMMA DrainSends ==
    ASSUME IInv, NEW b \in Broadcaster, targets[b] # <<>>,
           UNCHANGED <<added, fetched, phase>>,
           \A d \in Broadcaster : d # b => targets[d]' = targets[d]
    PROVE  DrainInv'
<1>1. "drain" \in Broadcaster
  BY DEF Broadcaster
<1>2. CASE b = "drain"
  BY <1>2 DEF IInv, DrainInv
<1>3. CASE b # "drain"
  BY <1>1, <1>3, DrainKept DEF IInv
<1> QED
  BY <1>2, <1>3

LEMMA SendOkInv == \A b \in Broadcaster : IInv /\ SendOk(b) => IInv'
<1> SUFFICES ASSUME NEW b \in Broadcaster, IInv, SendOk(b) PROVE IInv'
  OBVIOUS
<1>1. /\ UNCHANGED <<published, fetched, added, phase, active_connections, endpoint,
                     peer, joined, log>>
      /\ targets[b] # <<>> /\ targets' = [targets EXCEPT ![b] = Tail(@)]
  BY DEF SendOk, drainVars, clientVars
<1>2. /\ Head(targets[b]) \in Client
      /\ targets' \in [Broadcaster -> Seq(Client)]
      /\ \A d \in Broadcaster : d # b => targets[d]' = targets[d]
      /\ \A d \in Broadcaster : /\ Distinct(targets[d]')
                                /\ \A c \in Range(targets[d]') : ~ Accepting(c)
  BY <1>1, SnapshotShrinks
<1>3. DrainInv'
  BY <1>1, <1>2, DrainSends
<1>4. ConnectionInv'
  <2>1. \A c : Accepting(c)' <=> Accepting(c)
    BY <1>1 DEF Accepting
  <2> QED
    BY <1>1, <1>2, <2>1 DEF IInv, ConnectionInv
<1>5. CASE b = "drain"
  <2>1. received' \in [Client -> Seq(Message)]
    <3>1. /\ received \in [Client -> Seq(Message)] /\ log \in Seq(Message)
          /\ received[Head(targets[b])] \in Seq(Message)
      BY <1>2 DEF IInv, TypeOK
    <3>2. Head(targets[b]) \in Range(targets["drain"])
      <4>1. targets[b] \in Seq(Client)
        BY DEF IInv, TypeOK
      <4> QED
        BY <1>1, <1>5, <4>1, TailDistinct
    <3>3. joined[Head(targets[b])] < Len(log) /\ joined[Head(targets[b])] \in Nat
      BY <1>2, <3>2 DEF IInv, TypeOK, FeedInv, Awaits
    <3>4. log[Len(log)] \in Message
      <4>1. Len(log) \in 1 .. Len(log)
        BY <3>1, <3>3, LenProperties
      <4> QED
        BY <3>1, <4>1, ElementOfSeq
    <3>5. Append(received[Head(targets[b])], log[Len(log)]) \in Seq(Message)
      BY <3>1, <3>4, AppendProperties
    <3> QED
      BY <3>1, <3>5 DEF SendOk
  <2>2. TypeOK'
    BY <1>1, <1>2, <2>1 DEF IInv, TypeOK
  <2> QED
    BY <1>3, <1>4, <1>5, <2>2, FeedSent DEF IInv
<1>6. CASE b # "drain"
  <2>1. received' = received
    BY <1>6 DEF SendOk
  <2>2. TypeOK'
    BY <1>1, <1>2, <2>1 DEF IInv, TypeOK
  <2>3. targets["drain"]' = targets["drain"]
    BY <1>2, <1>6 DEF Broadcaster
  <2>4. FeedInv'
    BY <1>1, <2>1, <2>3, FeedKept DEF Accepting
  <2> QED
    BY <1>3, <1>4, <2>2, <2>4 DEF IInv
<1> QED
  BY <1>5, <1>6

LEMMA SendFailInv == \A b \in Broadcaster : IInv /\ SendFail(b) => IInv'
<1> SUFFICES ASSUME NEW b \in Broadcaster, IInv, SendFail(b) PROVE IInv'
  OBVIOUS
<1>1. /\ UNCHANGED <<published, fetched, added, phase, endpoint, peer, joined, log, received>>
      /\ targets[b] # <<>> /\ targets' = [targets EXCEPT ![b] = Tail(@)]
      /\ peer[Head(targets[b])] = "gone"
      /\ active_connections' = Disconnect(active_connections, Head(targets[b]))
  BY DEF SendFail, OnSendError, drainVars, clientVars
<1>2. /\ Head(targets[b]) \in Client
      /\ targets' \in [Broadcaster -> Seq(Client)]
      /\ \A d \in Broadcaster : d # b => targets[d]' = targets[d]
      /\ \A d \in Broadcaster : /\ Distinct(targets[d]')
                                /\ \A c \in Range(targets[d]') : ~ Accepting(c)
  BY <1>1, SnapshotShrinks
<1>3. /\ active_connections' \in Seq(Client)
      /\ Distinct(active_connections')
      /\ Range(active_connections') = Range(active_connections) \ {Head(targets[b])}
  <2>1. active_connections \in Seq(Client) /\ Distinct(active_connections)
    BY DEF IInv, TypeOK, ConnectionInv
  <2> QED
    BY <1>1, <2>1, DisconnectRemoves
<1>4. DrainInv'
  BY <1>1, <1>2, DrainSends
<1>5. ConnectionInv'
  <2>1. \A c : Accepting(c)' <=> Accepting(c)
    BY <1>1 DEF Accepting
  <2> QED
    BY <1>1, <1>2, <1>3, <2>1 DEF IInv, ConnectionInv
<1>6. TypeOK'
  BY <1>1, <1>2, <1>3 DEF IInv, TypeOK
<1>7. FeedInv'
  <2>1. CASE b = "drain"
    BY <2>1, FeedFailed
  <2>2. CASE b # "drain"
    <3>1. targets["drain"]' = targets["drain"]
      BY <1>2, <2>2 DEF Broadcaster
    <3> QED
      BY <1>1, <1>3, <3>1, FeedKept DEF Accepting
  <2> QED
    BY <2>1, <2>2
<1> QED
  BY <1>4, <1>5, <1>6, <1>7 DEF IInv

LEMMA ConnectInv == \A c \in Client : IInv /\ Connect(c) => IInv'
<1> SUFFICES ASSUME NEW c \in Client, IInv, Connect(c) PROVE IInv'
  OBVIOUS
<1>1. /\ UNCHANGED <<published, fetched, added, phase, targets, active_connections,
                     peer, joined, log, received>>
      /\ endpoint[c] = "none"
      /\ endpoint' = [endpoint EXCEPT ![c] = "accepting"]
  BY DEF Connect, drainVars
<1>2. /\ endpoint' \in [Client -> {"none", "accepting", "open", "ended"}]
      /\ endpoint[c]' = "accepting"
      /\ \A d \in Client : d # c => endpoint[d]' = endpoint[d]
  BY <1>1 DEF IInv, TypeOK
<1>3. \A d : Accepting(d)' <=> Accepting(d)
  <2>1. \A d \in Client : Accepting(d)' <=> Accepting(d)
    BY <1>1, <1>2 DEF Accepting
  <2>2. \A d : d \notin Client => endpoint'[d] = endpoint[d]
    BY <1>1 DEF IInv, TypeOK
  <2> QED
    BY <2>1, <2>2 DEF Accepting
<1>4. TypeOK'
  BY <1>1, <1>2 DEF IInv, TypeOK
<1>5. ConnectionInv'
  BY <1>1, <1>2, <1>3 DEF IInv, ConnectionInv
<1>6. DrainInv'
  BY <1>1, DrainKept DEF IInv
<1>7. FeedInv'
  BY <1>1, <1>3, FeedKept
<1> QED
  BY <1>4, <1>5, <1>6, <1>7 DEF IInv

(* A browser that registers during a broadcast is not in its snapshot. *)
LEMMA AcceptedInv == \A c \in Client : IInv /\ Accepted(c) => IInv'
<1> SUFFICES ASSUME NEW c \in Client, IInv, Accepted(c) PROVE IInv'
  OBVIOUS
<1>1. /\ UNCHANGED <<published, fetched, added, phase, targets, peer, log, received>>
      /\ endpoint[c] = "accepting"
      /\ endpoint' = [endpoint EXCEPT ![c] = "open"]
      /\ active_connections' = Append(active_connections, c)
      /\ joined' = [joined EXCEPT ![c] = Len(log)]
  BY DEF Accepted, drainVars
<1>2. /\ endpoint' \in [Client -> {"none", "accepting", "open", "ended"}]
      /\ endpoint[c]' = "open"
      /\ \A d \in Client : d # c => endpoint[d]' = endpoint[d]
  BY <1>1 DEF IInv, TypeOK
<1>3. /\ active_connections \in Seq(Client) /\ Distinct(active_connections)
      /\ log \in Seq(Message) /\ Len(log) \in Nat
      /\ targets \in [Broadcaster -> Seq(Client)]
      /\ "drain" \in Broadcaster
  BY LenProperties DEF IInv, TypeOK, ConnectionInv, Broadcaster
<1>4. /\ Accepting(c)
      /\ c \notin Range(active_connections)
      /\ \A b \in Broadcaster : c \notin Range(targets[b])
      /\ received[c] = <<>>
  BY <1>1 DEF IInv, ConnectionInv, FeedInv, Accepting
<1>5. /\ active_connections' \in Seq(Client)
      /\ Range(active_connections') = Range(active_connections) \cup {c}
      /\ Distinct(active_connections')
  BY <1>1, <1>3, <1>4, AppendDistinct, AppendProperties
<1>6. /\ joined' \in [Client -> Nat] /\ joined[c]' = Len(log)
      /\ \A d \in Client : d # c => joined[d]' = joined[d]
  BY <1>1, <1>3 DEF IInv, TypeOK
<1>7. /\ Range(active_connections) \subseteq Client
      /\ \A b \in Broadcaster : Range(targets[b]) \subseteq Client
  BY <1>3, RangeInSet
<1>8. \A d \in Client : Accepting(d)' <=> Accepting(d) /\ d # c
  BY <1>2 DEF Accepting
<1>9. TypeOK'
  BY <1>1, <1>2, <1>5, <1>6 DEF IInv, TypeOK
<1>10. ConnectionInv'
  <2>1. \A d \in Range(active_connections') : ~ Accepting(d)'
    BY <1>5, <1>7, <1>8 DEF IInv, ConnectionInv
  <2>2. \A b \in Broadcaster :
           /\ Distinct(targets[b]')
           /\ \A d \in Range(targets[b]') : ~ Accepting(d)'
    BY <1>1, <1>7, <1>8 DEF IInv, ConnectionInv
  <2>3. \A d \in Client :
           /\ endpoint[d]' = "open" /\ peer[d]' = "up" => d \in Range(active_connections')
           /\ endpoint[d]' = "ended" => peer[d]' = "gone"
    BY <1>1, <1>2, <1>5 DEF IInv, ConnectionInv
  <2> QED
    BY <1>5, <2>1, <2>2, <2>3 DEF ConnectionInv
<1>11. DrainInv'
  BY <1>1, DrainKept DEF IInv
<1>12. FeedInv'
  <2>1. \A d : Awaits(d)' <=> Awaits(d)
    BY <1>1 DEF Awaits
  <2>2. ~ Awaits(c)
    BY <1>3, <1>4 DEF Awaits
  <2>3. ASSUME NEW d \in Client
        PROVE  /\ joined[d]' <= Len(log')
               /\ Awaits(d)' => joined[d]' < Len(log')
               /\ Accepting(d)' => received[d]' = <<>>
    <3>1. CASE d = c
      BY <1>1, <1>3, <1>6, <1>8, <2>1, <2>2, <3>1
    <3>2. CASE d # c
      BY <1>1, <1>6, <1>8, <2>1, <3>2 DEF IInv, FeedInv
    <3> QED
      BY <3>1, <3>2
  <2>4. HasFeed(c)'
    <3>1. Len(received[c]') = 0
      BY <1>1, <1>4, NoConnections
    <3>2. Len(log) - Len(log) - 0 = 0
      BY <1>3
    <3>3. \A i : i \notin 1 .. 0
      OBVIOUS
    <3> QED
      BY <1>1, <1>6, <2>1, <2>2, <3>1, <3>2, <3>3 DEF HasFeed
  <2>5. ASSUME phase["drain"] # "cancelled", NEW d \in Range(active_connections'), peer[d] = "up"
        PROVE  HasFeed(d)'
    <3>1. CASE d = c
      BY <2>4, <3>1
    <3>2. CASE d # c
      <4>1. d \in Range(active_connections) /\ d \in Client
        BY <1>5, <1>7, <2>5, <3>2
      <4>2. HasFeed(d)
        BY <2>5, <4>1 DEF IInv, FeedInv
      <4> QED
        BY <1>1, <1>6, <2>1, <3>2, <4>1, <4>2 DEF HasFeed
    <3> QED
      BY <3>1, <3>2
  <2> QED
    BY <1>1, <2>3, <2>5 DEF FeedInv
<1> QED
  BY <1>9, <1>10, <1>11, <1>12 DEF IInv

(* The ends of a connection: accept fails, the browser goes, the endpoint  *)
(* removes it or crashes.  Nobody registers and nobody starts to accept.   *)
LEMMA EndingInv ==
    ASSUME IInv,
           UNCHANGED <<published, fetched, added, phase, targets, joined, log, received>>,
           endpoint' \in [Client -> {"none", "accepting", "open", "ended"}],
           peer' \in [Client -> {"up", "gone"}],
           active_connections' \in Seq(Client),
           Distinct(active_connections'),
           Range(active_connections') \subseteq Range(active_connections),
           \A d \in Client : /\ Accepting(d)' => Accepting(d)
                             /\ peer[d]' = "up" => peer[d] = "up"
                             /\ endpoint[d]' = "open" => endpoint[d] = "open"
                             /\ endpoint[d]' = "ended" => peer[d]' = "gone"
                             /\ endpoint[d]' = "open" /\ peer[d]' = "up" =>
                                   \/ d \notin Range(active_connections)
                                   \/ d \in Range(active_connections')
    PROVE  IInv'
<1>1. /\ Range(active_connections) \subseteq Client
      /\ \A b \in Broadcaster : Range(targets[b]) \subseteq Client
  <2>1. active_connections \in Seq(Client) /\ \A b \in Broadcaster : targets[b] \in Seq(Client)
    BY DEF IInv, TypeOK
  <2> QED
    BY <2>1, RangeInSet
<1>2. TypeOK'
  BY DEF IInv, TypeOK
<1>3. ConnectionInv'
  <2>1. \A d \in Range(active_connections') : ~ Accepting(d)'
    BY <1>1 DEF IInv, ConnectionInv
  <2>2. \A b \in Broadcaster :
           /\ Distinct(targets[b]')
           /\ \A d \in Range(targets[b]') : ~ Accepting(d)'
    BY <1>1 DEF IInv, ConnectionInv
  <2>3. \A d \in Client :
           /\ endpoint[d]' = "open" /\ peer[d]' = "up" => d \in Range(active_connections')
           /\ endpoint[d]' = "ended" => peer[d]' = "gone"
    BY DEF IInv, ConnectionInv
  <2> QED
    BY <2>1, <2>2, <2>3 DEF ConnectionInv
<1>4. DrainInv'
  BY DrainKept DEF IInv
<1>5. FeedInv'
  BY <1>1, FeedKept
<1> QED
  BY <1>2, <1>3, <1>4, <1>5 DEF IInv

LEMMA AcceptFailsInv == \A c \in Client : IInv /\ AcceptFails(c) => IInv'
<1> SUFFICES ASSUME NEW c \in Client, IInv, AcceptFails(c) PROVE IInv'
  OBVIOUS
<1>1. /\ UNCHANGED <<published, fetched, added, phase, targets, active_connections,
                     peer, joined, log, received>>
      /\ endpoint[c] = "accepting" /\ peer[c] = "gone"
      /\ endpoint' = [endpoint EXCEPT ![c] = "ended"]
  BY DEF AcceptFails, drainVars
<1>2. /\ endpoint' \in [Client -> {"none", "accepting", "open", "ended"}]
      /\ endpoint[c]' = "ended"
      /\ \A d \in Client : d # c => endpoint[d]' = endpoint[d]
  BY <1>1 DEF IInv, TypeOK
<1>3. /\ peer' \in [Client -> {"up", "gone"}] /\ active_connections' \in Seq(Client)
      /\ Distinct(active_connections')
  BY <1>1 DEF IInv, TypeOK, ConnectionInv
<1>4. \A d \in Client : /\ Accepting(d)' => Accepting(d)
                        /\ endpoint[d]' = "open" => endpoint[d] = "open"
                        /\ endpoint[d]' = "ended" => peer[d]' = "gone"
  BY <1>1, <1>2 DEF Accepting, IInv, ConnectionInv
<1> QED
  BY <1>1, <1>2, <1>3, <1>4, EndingInv

LEMMA PeerGoneInv == \A c \in Client : IInv /\ PeerGone(c) => IInv'
<1> SUFFICES ASSUME NEW c \in Client, IInv, PeerGone(c) PROVE IInv'
  OBVIOUS
<1>1. /\ UNCHANGED <<published, fetched, added, phase, targets, active_connections,
                     endpoint, joined, log, received>>
      /\ peer' = [peer EXCEPT ![c] = "gone"]
  BY DEF PeerGone, drainVars
<1>2. /\ peer' \in [Client -> {"up", "gone"}]
      /\ peer[c]' = "gone"
      /\ \A d \in Client : d # c => peer[d]' = peer[d]
  BY <1>1 DEF IInv, TypeOK
<1>3. /\ endpoint' \in [Client -> {"none", "accepting", "open", "ended"}]
      /\ active_connections' \in Seq(Client)
      /\ Distinct(active_connections')
  BY <1>1 DEF IInv, TypeOK, ConnectionInv
<1>4. \A d \in Client : /\ Accepting(d)' => Accepting(d)
                        /\ peer[d]' = "up" => peer[d] = "up"
                        /\ endpoint[d]' = "ended" => peer[d]' = "gone"
  BY <1>1, <1>2 DEF Accepting, IInv, ConnectionInv
<1> QED
  BY <1>1, <1>2, <1>3, <1>4, EndingInv

LEMMA EndpointDisconnectInv == \A c \in Client : IInv /\ EndpointDisconnect(c) => IInv'
<1> SUFFICES ASSUME NEW c \in Client, IInv, EndpointDisconnect(c) PROVE IInv'
  OBVIOUS
<1>1. /\ UNCHANGED <<published, fetched, added, phase, targets, peer, joined, log, received>>
      /\ endpoint[c] = "open" /\ peer[c] = "gone"
      /\ endpoint' = [endpoint EXCEPT ![c] = "ended"]
      /\ active_connections' = Disconnect(active_connections, c)
  BY DEF EndpointDisconnect, drainVars
<1>2. /\ endpoint' \in [Client -> {"none", "accepting", "open", "ended"}]
      /\ endpoint[c]' = "ended"
      /\ \A d \in Client : d # c => endpoint[d]' = endpoint[d]
  BY <1>1 DEF IInv, TypeOK
<1>3. /\ active_connections' \in Seq(Client)
      /\ Distinct(active_connections')
      /\ Range(active_connections') = Range(active_connections) \ {c}
  <2>1. active_connections \in Seq(Client) /\ Distinct(active_connections)
    BY DEF IInv, TypeOK, ConnectionInv
  <2> QED
    BY <1>1, <2>1, DisconnectRemoves
<1>4. /\ peer' \in [Client -> {"up", "gone"}]
      /\ \A d : peer'[d] = peer[d]
  BY <1>1 DEF IInv, TypeOK
<1>5. \A d \in Client : /\ Accepting(d)' => Accepting(d)
                        /\ endpoint[d]' = "open" => endpoint[d] = "open" /\ d # c
                        /\ endpoint[d]' = "ended" => peer[d]' = "gone"
  BY <1>1, <1>2 DEF Accepting, IInv, ConnectionInv
<1> QED
  BY <1>1, <1>2, <1>3, <1>4, <1>5, EndingInv

LEMMA EndpointCrashInv == \A c \in Client : IInv /\ EndpointCrash(c) => IInv'
<1> SUFFICES ASSUME NEW c \in Client, IInv, EndpointCrash(c) PROVE IInv'
  OBVIOUS
<1>1. /\ UNCHANGED <<published, fetched, added, phase, targets, active_connections,
                     joined, log, received>>
      /\ endpoint[c] = "open"
      /\ endpoint' = [endpoint EXCEPT ![c] = "ended"]
      /\ peer' = [peer EXCEPT ![c] = "gone"]
  BY DEF EndpointCrash, drainVars
<1>2. /\ endpoint' \in [Client -> {"none", "accepting", "open", "ended"}]
      /\ endpoint[c]' = "ended"
      /\ \A d \in Client : d # c => endpoint[d]' = endpoint[d]
  BY <1>1 DEF IInv, TypeOK
<1>3. /\ peer' \in [Client -> {"up", "gone"}]
      /\ peer[c]' = "gone"
      /\ \A d \in Client : d # c => peer[d]' = peer[d]
  BY <1>1 DEF IInv, TypeOK
<1>4. active_connections' \in Seq(Client) /\ Distinct(active_connections')
  BY <1>1 DEF IInv, TypeOK, ConnectionInv
<1>5. \A d \in Client : /\ Accepting(d)' => Accepting(d)
                        /\ peer[d]' = "up" => peer[d] = "up"
                        /\ endpoint[d]' = "open" => endpoint[d] = "open"
                        /\ endpoint[d]' = "ended" => peer[d]' = "gone"
  BY <1>1, <1>2, <1>3 DEF Accepting, IInv, ConnectionInv
<1> QED
  BY <1>1, <1>2, <1>3, <1>4, <1>5, EndingInv

-----------------------------------------------------------------------------
(* The results. *)

(* The invariant holds of every reachable state of the server's tasks. *)
THEOREM Invariance == Spec => []IInv
<1>1. IInv /\ [Next]_vars => IInv'
  <2> SUFFICES ASSUME IInv, [Next]_vars PROVE IInv'
    OBVIOUS
  <2>1. CASE UNCHANGED vars
    <3>1. UNCHANGED <<published, fetched, added, phase, targets, active_connections,
                      endpoint, peer, log, joined, received>>
      BY <2>1 DEF vars
    <3>2. TypeOK'
      BY <3>1 DEF IInv, TypeOK
    <3>3. ConnectionInv' /\ DrainInv'
      BY <3>1, ConnectionKept, DrainKept DEF IInv
    <3>4. FeedInv'
      BY <3>1, FeedKept DEF Accepting
    <3> QED
      BY <3>2, <3>3, <3>4 DEF IInv
  <2>2. CASE Next
    BY <2>2, PublishInv, DrainGetInv, DrainAddInv, DrainLoopInv, CancelInv, InjectInv,
       InjectReturnInv, SendOkInv, SendFailInv, ConnectInv, AcceptedInv, AcceptFailsInv,
       PeerGoneInv, EndpointDisconnectInv, EndpointCrashInv
       DEF Next
  <2> QED
    BY <2>1, <2>2
<1> QED
  BY <1>1, InitialInv, PTL DEF Spec

(* Type correctness of the dashboard's state. *)
THEOREM TypeCorrect == Spec => []TypeOK
<1>1. IInv => TypeOK
  BY DEF IInv
<1> QED
  BY <1>1, Invariance, PTL

(* EventBusManager.broadcast: every registered browser that is up has      *)
(* received exactly what was broadcast since it registered, whoever joined,*)
(* left or failed in the middle of a broadcast.                            *)
THEOREM FeedsExact == Spec => []FeedExact
<1>1. IInv => FeedExact
  <2> SUFFICES ASSUME IInv, NEW c \in Range(active_connections),
                      peer[c] = "up", phase["drain"] # "cancelled"
               PROVE  received[c] = SubSeq(log, joined[c] + 1, joined[c] + Due(c))
    BY DEF FeedExact
  <2>1. /\ active_connections \in Seq(Client)
        /\ log \in Seq(Message) /\ Len(log) \in Nat
        /\ joined \in [Client -> Nat] /\ received \in [Client -> Seq(Message)]
    BY LenProperties DEF IInv, TypeOK
  <2>2. c \in Client
    BY <2>1, RangeInSet
  <2>3. HasFeed(c) /\ joined[c] <= Len(log) /\ joined[c] \in Nat
    BY <2>1, <2>2 DEF IInv, FeedInv
  <2> DEFINE q == received[c]
             d == Due(c)
  <2>4. /\ q \in Seq(Message) /\ Len(q) \in Nat /\ Len(q) = d
        /\ \A i \in 1 .. Len(q) : q[i] = log[joined[c] + i]
    BY <2>1, <2>2, <2>3, LenProperties DEF HasFeed, Due, Awaits
  <2>5. joined[c] + d <= Len(log)
    BY <2>1, <2>3 DEF Due
  <2> HIDE DEF q, d
  <2>6. q = SubSeq(log, joined[c] + 1, joined[c] + Len(q))
    BY <2>1, <2>3, <2>4, <2>5, SliceOf
  <2> QED
    BY <2>4, <2>6 DEF q, d
<1> QED
  BY <1>1, Invariance, PTL

(* connect and disconnect: a browser that is up and whose endpoint serves  *)
(* it is in active_connections, exactly once.                              *)
THEOREM ServedRegistered == Spec => []ServedIsRegistered
<1>1. IInv => ServedIsRegistered
  <2> SUFFICES ASSUME IInv, NEW c \in Client, endpoint[c] = "open", peer[c] = "up"
               PROVE  Cardinality({i \in DOMAIN active_connections : active_connections[i] = c}) = 1
    BY DEF ServedIsRegistered
  <2>1. /\ active_connections \in Seq(Client)
        /\ DOMAIN active_connections = 1 .. Len(active_connections)
        /\ c \in Range(active_connections)
        /\ Distinct(active_connections)
    BY LenProperties DEF IInv, TypeOK, ConnectionInv
  <2>2. PICK k \in 1 .. Len(active_connections) : active_connections[k] = c
    BY <2>1, RangeIsElements
  <2>3. {i \in DOMAIN active_connections : active_connections[i] = c} = {k}
    BY <2>1, <2>2 DEF Distinct
  <2> QED
    BY <2>3, FS_Singleton
<1> QED
  BY <1>1, Invariance, PTL

(* drain_engine_to_dashboard: the correlator is given every event once and *)
(* in order, however the broadcasts around it go.                          *)
THEOREM CorrelatesInOrder == Spec => []CorrelatedInOrder
<1>1. IInv => CorrelatedInOrder
  <2> SUFFICES ASSUME IInv PROVE CorrelatedInOrder
    OBVIOUS
  <2>1. /\ DOMAIN added = 1 .. Len(added)
        /\ phase["drain"] \in {"idle", "event", "incident", "cancelled"}
        /\ Len(added) \in Nat /\ fetched \in Nat
    BY LenProperties DEF IInv, TypeOK
  <2>2. phase["drain"] \in {"idle", "incident"} => Len(added) = fetched
    BY DEF IInv, DrainInv
  <2>3. Len(added) = fetched => ~ (Len(added) < fetched)
    BY <2>1
  <2>4. Len(added) < fetched => phase["drain"] \in {"event", "cancelled"}
    BY <2>1, <2>2, <2>3, Zenon
  <2> QED
    BY <2>1, <2>4 DEF IInv, DrainInv, CorrelatedInOrder
<1> QED
  BY <1>1, Invariance, PTL
=============================================================================
