------------------------- MODULE StdioAgent_proofs -------------------------
(***************************************************************************)
(* Theorems about agents that run as child processes, for any set of       *)
(* connections and any number of lines.  The bytes a child writes are      *)
(* numbered; what is in the pipe, on the channel, kept early and pending   *)
(* are parts of them that follow each other, and what was delivered are    *)
(* the messages of one part (StreamInv).                                   *)
(***************************************************************************)
EXTENDS StdioAgent, WellFoundedInduction, SequenceTheorems, TLAPS

Byte == Nat \X {1, 2}
Event == {Exit} \cup {Chunk(bytes) : bytes \in Seq(Byte)}

\* The type invariant, and how far the page, the shell and the child are with
\* a connection.
Shape ==
    /\ TypeOK
    /\ DOMAIN said = Conn
    /\ pending \in [Conn -> Seq(Byte)]
    /\ early \in [Conn -> Seq(Event)] /\ channel \in [Conn -> Seq(Event)]
    /\ pipe \in [Conn -> Seq(Byte)]
    /\ delivered \in [Conn -> Seq(Nat)]
    /\ \A c \in Conn :
        /\ subscribed[c] <=> transport[c] \in Opened
        /\ transport[c] = "new" <=> command[c] = "none"
        /\ transport[c] \in Opened => command[c] = "done"
        /\ reader[c] # "none" <=> transport[c] \in Opened
        /\ ~subscribed[c] => pending[c] = <<>> /\ delivered[c] = <<>>
        /\ transport[c] \in Opened /\ proc[c] \in Alive =>
                /\ app # "running" => c \in armed
                /\ app # "gone"
-----------------------------------------------------------------------------
\* The bytes of the lines s, numbered from 1, and a part of them, after the
\* first a.
ByteOf(s, j) == <<s[(j + 1) \div 2], IF j % 2 = 1 THEN 1 ELSE 2>>
IsPart(s, a, bytes) ==
    /\ a \in Nat /\ a + Len(bytes) <= 2 * Len(s)
    /\ \A i \in 1 .. Len(bytes) : bytes[i] = ByteOf(s, a + i)

\* The messages whose bytes are among those after the first a, up to b; what
\* lists them all in order.
Messages(s, a, b) ==
    {l \in 1 .. Len(s) : s[l] # Noise /\ 2 * l - 1 > a /\ 2 * l <= b}
Lists(got, s, a, b) ==
    /\ \A i \in 1 .. Len(got) : got[i] \in Messages(s, a, b)
    /\ \A i, j \in 1 .. Len(got) : i < j => got[i] < got[j]
    /\ \A l \in Messages(s, a, b) : \E i \in 1 .. Len(got) : got[i] = l

Words(s) == s \in Seq(Nat) /\ \A l \in 1 .. Len(s) : s[l] = Noise \/ s[l] = l

\* The events, each of which takes the stream from one byte to a later one.
IsEvent(event, s, a, b) ==
    IF event = Exit
    THEN a = b
    ELSE /\ event = Chunk(event[2]) /\ event[2] \in Seq(Byte) /\ event[2] # <<>>
         /\ IsPart(s, a, event[2]) /\ b = a + Len(event[2])
Events(c) == early[c] \o channel[c]

\* at[i] bytes are what the first events up to the i-th are about; at[0] were
\* handled.
Follows(c, at) ==
    /\ \A i \in 1 .. Len(Events(c)) : IsEvent(Events(c)[i], said[c], at[i - 1], at[i])
    /\ IsPart(said[c], at[Len(Events(c))], pipe[c])
    /\ at[Len(Events(c))] + Len(pipe[c]) = 2 * Len(said[c])

\* What was handled up to byte k: the part still pending, and the messages
\* before it.
Handled(c, k) ==
    /\ ~subscribed[c] => k = 0
    /\ reader[c] = "open" =>
        \E r \in Nat, a \in Nat :
            /\ a <= r /\ r + Len(pending[c]) = k /\ IsPart(said[c], r, pending[c])
            /\ r % 2 = 0 \/ delivered[c] = <<>>
            /\ Lists(delivered[c], said[c], a, r)

Stream(c) ==
    /\ Words(said[c])
    /\ \E at \in [0 .. Len(Events(c)) -> 0 .. 2 * Len(said[c])] :
            Follows(c, at) /\ Handled(c, at[0])
    /\ \E a, b \in 0 .. 2 * Len(said[c]) : Lists(delivered[c], said[c], a, b)
StreamInv == \A c \in Conn : Stream(c)
-----------------------------------------------------------------------------
\* Induction over the numbers up to N, for a set: from the least of the numbers
\* it misses.
LessThan == {p \in Nat \X Nat : p[1] < p[2]}

LEMMA Induction ==
    ASSUME NEW N \in Nat, NEW P, 0 \in P,
           \A n \in 1 .. N : n - 1 \in P => n \in P
    PROVE  \A n \in 0 .. N : n \in P
<1> DEFINE S == {n \in 0 .. N : n \notin P}
<1>1. SUFFICES ASSUME S # {} PROVE FALSE
    OBVIOUS
<1>2. OpToRel(<, Nat) = LessThan
    BY DEF OpToRel, LessThan
<1>3. IsWellFoundedOn(LessThan, Nat)
    BY <1>2, NatLessThanWellFounded
<1>4. S \subseteq Nat
    OBVIOUS
<1>5. \E m \in S : \A k \in S : ~(<<k, m>> \in LessThan)
    BY <1>1, <1>3, <1>4, WFMin
<1>6. PICK m \in S : \A k \in S : ~(<<k, m>> \in LessThan)
    BY <1>5
<1>7. \A k \in S : ~(k < m)
    <2> HIDE DEF S
    <2> QED BY <1>4, <1>6 DEF LessThan
<1>8. m \in 1 .. N /\ m - 1 \notin S
    BY <1>7
<1> QED BY <1>8

\* What a recursive function over 0 .. N computes from the value before exists.
IsRule(rule, N, D) == rule \in [1 .. N -> [D -> D]]
Computes(f, rule, N, D, base) ==
    /\ f \in [0 .. N -> D]
    /\ f[0] = base /\ \A i \in 1 .. N : f[i] = rule[i][f[i - 1]]

LEMMA Recursion ==
    ASSUME NEW N \in Nat, NEW D, NEW base \in D, NEW rule, IsRule(rule, N, D)
    PROVE  \E f : Computes(f, rule, N, D, base)
<1> DEFINE IsUpTo(f, n) == f[0] = base /\ \A i \in 1 .. n : f[i] = rule[i][f[i - 1]]
           P == {n \in 0 .. N : \E f \in [0 .. n -> D] : IsUpTo(f, n)}
<1>1. 0 \in P
    <2> DEFINE f == [i \in 0 .. 0 |-> base]
    <2>1. f \in [0 .. 0 -> D] /\ IsUpTo(f, 0)
        OBVIOUS
    <2> HIDE DEF f, IsUpTo
    <2> QED BY <2>1
<1>2. ASSUME NEW n \in 1 .. N, n - 1 \in P PROVE n \in P
    <2>1. PICK f \in [0 .. n - 1 -> D] : IsUpTo(f, n - 1)
        BY <1>2
    <2> DEFINE g == [i \in 0 .. n |-> IF i = n THEN rule[n][f[n - 1]] ELSE f[i]]
    <2>2. rule[n][f[n - 1]] \in D
        BY DEF IsRule
    <2>3. g \in [0 .. n -> D]
        BY <2>2
    <2>4. g[0] = base /\ \A i \in 1 .. n : g[i] = rule[i][g[i - 1]]
        BY <2>1
    <2>5. n \in 0 .. N
        OBVIOUS
    <2> HIDE DEF g
    <2> QED BY <2>3, <2>4, <2>5
<1> HIDE DEF P
<1>3. N \in P
    <2>1. \A n \in 0 .. N : n \in P
        BY <1>1, <1>2, Induction
    <2> QED BY <2>1
<1> USE DEF P
<1> QED BY <1>3 DEF Computes

\* The messages bytes complete, one byte at a time.
LEMMA CompletedSteps ==
    ASSUME NEW bytes \in Seq(Byte)
    PROVE  \E f \in [0 .. Len(bytes) -> Seq(Nat)] :
                /\ Completed(bytes) = f[Len(bytes)] /\ f[0] = <<>>
                /\ \A i \in 1 .. Len(bytes) :
                    f[i] = IF EndsMessage(bytes, i) THEN Append(f[i - 1], bytes[i][1])
                                                    ELSE f[i - 1]
<1> DEFINE N == Len(bytes)
           Step(f, i) == IF i = 0 THEN <<>>
                         ELSE IF EndsMessage(bytes, i) THEN Append(f[i - 1], bytes[i][1])
                              ELSE f[i - 1]
           rule == [i \in 1 .. N |-> [x \in Seq(Nat) |->
                        IF EndsMessage(bytes, i) THEN Append(x, bytes[i][1]) ELSE x]]
<1>1. N \in Nat /\ \A i \in 1 .. N : bytes[i] \in Byte /\ bytes[i][1] \in Nat
    BY DEF Byte
<1>2. IsRule(rule, N, Seq(Nat))
    BY <1>1 DEF IsRule
<1>3. PICK f : Computes(f, rule, N, Seq(Nat), <<>>)
    <2>1. <<>> \in Seq(Nat)
        OBVIOUS
    <2> HIDE DEF rule, N
    <2> QED BY <1>1, <1>2, <2>1, Recursion
<1>4. \A i \in 0 .. N : f[i] = Step(f, i)
    <2>1. ASSUME NEW i \in 1 .. N PROVE f[i] = Step(f, i)
        <3>1. f[i - 1] \in Seq(Nat) /\ f[i] = rule[i][f[i - 1]]
            <4>1. i - 1 \in 0 .. N
                OBVIOUS
            <4> HIDE DEF rule, N
            <4> QED BY <1>3, <4>1 DEF Computes
        <3>2. \A x \in Seq(Nat) :
                rule[i][x] = IF EndsMessage(bytes, i) THEN Append(x, bytes[i][1]) ELSE x
            OBVIOUS
        <3>3. i # 0
            OBVIOUS
        <3> HIDE DEF rule
        <3> QED BY <3>1, <3>2, <3>3
    <2>2. f[0] = Step(f, 0)
        BY <1>3 DEF Computes
    <2> HIDE DEF Step
    <2> QED BY <1>1, <2>1, <2>2
<1>8. f = [i \in 0 .. N |-> Step(f, i)]
    <2>1. DOMAIN f = 0 .. N /\ f = [i \in 0 .. N |-> f[i]]
        BY <1>3 DEF Computes
    <2> HIDE DEF Step, N
    <2> QED BY <1>4, <2>1
<1> DEFINE u == CHOOSE g : g = [i \in 0 .. N |-> Step(g, i)]
<1>5. u = [i \in 0 .. N |-> Step(u, i)]
    BY <1>8
<1>6. Completed(bytes) = u[N]
    BY DEF Completed
<1> HIDE DEF u
<1>7. u = f
    <2> DEFINE P == {i \in 0 .. N : u[i] = f[i]}
    <2>1. 0 \in P
        <3>1. u[0] = Step(u, 0) /\ f[0] = Step(f, 0) /\ 0 \in 0 .. N
            <4> HIDE DEF Step, N
            <4> QED BY SMTT(30), <1>1, <1>4, <1>5
        <3> QED BY <3>1
    <2>2. ASSUME NEW i \in 1 .. N, i - 1 \in P PROVE i \in P
        <3>1. u[i] = Step(u, i)
            <4> HIDE DEF Step, N
            <4> QED BY <1>1, <1>5
        <3>2. f[i] = Step(f, i) /\ u[i - 1] = f[i - 1] /\ i \in 0 .. N
            <4>1. i \in 0 .. N
                OBVIOUS
            <4> HIDE DEF Step, N
            <4> QED BY <1>1, <1>4, <2>2, <4>1
        <3> QED BY <1>1, <3>1, <3>2
    <2>3. \A i \in 0 .. N : i \in P
        <3> HIDE DEF P
        <3> QED BY <1>1, <2>1, <2>2, Induction
    <2> HIDE DEF Step, N
    <2> QED BY <1>8, <1>5, <2>3
<1>9. \A i \in 1 .. N : f[i] = IF EndsMessage(bytes, i) THEN Append(f[i - 1], bytes[i][1])
                                                        ELSE f[i - 1]
    BY <1>1, <1>4
<1> QED BY <1>1, <1>3, <1>6, <1>7, <1>9 DEF Computes

\* The bytes kept early, one event at a time.
LEMMA EarlySteps ==
    ASSUME Shape, NEW c \in Conn
    PROVE  \E f \in [0 .. Len(early[c]) -> Seq(Byte)] :
                /\ EarlyBytes(c) = f[Len(early[c])] /\ f[0] = <<>>
                /\ \A i \in 1 .. Len(early[c]) :
                    f[i] = f[i - 1] \o (IF early[c][i] = Exit THEN <<>> ELSE early[c][i][2])
<1> DEFINE N == Len(early[c])
           More(i) == IF early[c][i] = Exit THEN <<>> ELSE early[c][i][2]
           Step(f, i) == IF i = 0 THEN <<>> ELSE f[i - 1] \o More(i)
           rule == [i \in 1 .. N |-> [x \in Seq(Byte) |-> x \o More(i)]]
<1>1. N \in Nat /\ \A i \in 1 .. N : More(i) \in Seq(Byte)
    <2>1. early[c] \in Seq(Event)
        BY DEF Shape
    <2>2. ASSUME NEW i \in 1 .. N PROVE More(i) \in Seq(Byte)
        <3>1. early[c][i] \in Event
            BY <2>1
        <3> QED BY <3>1 DEF Event, Chunk
    <2> QED BY <2>1, <2>2
<1> HIDE DEF More
<1>2. IsRule(rule, N, Seq(Byte))
    BY <1>1 DEF IsRule
<1>3. PICK f : Computes(f, rule, N, Seq(Byte), <<>>)
    <2>1. <<>> \in Seq(Byte)
        OBVIOUS
    <2> HIDE DEF rule, N
    <2> QED BY <1>1, <1>2, <2>1, Recursion
<1>4. \A i \in 0 .. N : f[i] = Step(f, i)
    <2>1. ASSUME NEW i \in 1 .. N PROVE f[i] = Step(f, i)
        <3>1. f[i - 1] \in Seq(Byte) /\ f[i] = rule[i][f[i - 1]]
            <4>1. i - 1 \in 0 .. N
                OBVIOUS
            <4> HIDE DEF rule, N
            <4> QED BY <1>3, <4>1 DEF Computes
        <3>2. \A x \in Seq(Byte) : rule[i][x] = x \o More(i)
            OBVIOUS
        <3>3. i # 0
            OBVIOUS
        <3> HIDE DEF rule
        <3> QED BY <3>1, <3>2, <3>3
    <2>2. f[0] = Step(f, 0)
        BY <1>3 DEF Computes
    <2> HIDE DEF Step
    <2> QED BY <1>1, <2>1, <2>2
<1>5. f = [i \in 0 .. N |-> Step(f, i)]
    <2>1. DOMAIN f = 0 .. N /\ f = [i \in 0 .. N |-> f[i]]
        BY <1>3 DEF Computes
    <2> HIDE DEF Step, N
    <2> QED BY <1>4, <2>1
<1> DEFINE u == CHOOSE g : g = [i \in 0 .. N |-> Step(g, i)]
<1>6. u = [i \in 0 .. N |-> Step(u, i)]
    BY <1>5
<1>7. EarlyBytes(c) = u[N]
    BY DEF EarlyBytes, More
<1> HIDE DEF u
<1>8. u = f
    <2> DEFINE P == {i \in 0 .. N : u[i] = f[i]}
    <2>1. 0 \in P
        <3>1. u[0] = Step(u, 0) /\ f[0] = Step(f, 0) /\ 0 \in 0 .. N
            <4> HIDE DEF Step, N
            <4> QED BY <1>1, <1>4, <1>6
        <3> QED BY <3>1
    <2>2. ASSUME NEW i \in 1 .. N, i - 1 \in P PROVE i \in P
        <3>1. u[i] = Step(u, i)
            <4> HIDE DEF Step, N
            <4> QED BY <1>1, <1>6
        <3>2. f[i] = Step(f, i) /\ u[i - 1] = f[i - 1] /\ i \in 0 .. N
            <4>1. i \in 0 .. N
                OBVIOUS
            <4> HIDE DEF Step, N
            <4> QED BY <1>1, <1>4, <2>2, <4>1
        <3> QED BY <1>1, <3>1, <3>2
    <2>3. \A i \in 0 .. N : i \in P
        <3> HIDE DEF P
        <3> QED BY <1>1, <2>1, <2>2, Induction
    <2> HIDE DEF Step, N
    <2> QED BY <1>5, <1>6, <2>3
<1>9. \A i \in 1 .. N : f[i] = f[i - 1] \o More(i)
    <2>1. \A i \in 1 .. N : i \in 0 .. N /\ i # 0
        BY <1>1
    <2> HIDE DEF N
    <2> QED BY <1>4, <2>1
<1> QED BY <1>1, <1>3, <1>7, <1>8, <1>9 DEF Computes, More
-----------------------------------------------------------------------------
\* Line l has the bytes 2l - 1 and 2l.
LEMMA BytesOfLine ==
    ASSUME NEW s, NEW l \in Nat, l > 0
    PROVE  ByteOf(s, 2 * l - 1) = <<s[l], 1>> /\ ByteOf(s, 2 * l) = <<s[l], 2>>
BY DEF ByteOf

LEMMA LineOfByte ==
    ASSUME NEW j \in Nat, j > 0
    PROVE  \E l \in Nat : l > 0 /\ (j = 2 * l - 1 \/ j = 2 * l)
<1>1. CASE j % 2 = 1
    <2>1. (j + 1) \div 2 \in Nat /\ (j + 1) \div 2 > 0 /\ j = 2 * ((j + 1) \div 2) - 1
        BY <1>1
    <2> QED BY <2>1
<1>2. CASE j % 2 = 0
    <2>1. j \div 2 \in Nat /\ j \div 2 > 0 /\ j = 2 * (j \div 2)
        BY <1>2
    <2> QED BY <2>1
<1>3. j % 2 = 0 \/ j % 2 = 1
    OBVIOUS
<1> QED BY <1>1, <1>2, <1>3

\* One message more.
LEMMA ListsOneMore ==
    ASSUME NEW s \in Seq(Nat), NEW got \in Seq(Nat), NEW a \in Nat, NEW l \in 1 .. Len(s),
           Lists(got, s, a, 2 * l - 1), s[l] # Noise, 2 * l - 1 > a
    PROVE  Lists(Append(got, l), s, a, 2 * l)
<1>1. Messages(s, a, 2 * l) = Messages(s, a, 2 * l - 1) \cup {l}
    BY DEF Messages
<1>2. \A k \in Messages(s, a, 2 * l - 1) : k < l
    BY DEF Messages
<1> DEFINE t == Append(got, l)
<1>3. /\ Len(t) = Len(got) + 1 /\ Len(got) \in Nat /\ t[Len(got) + 1] = l
      /\ \A i \in 1 .. Len(got) : t[i] = got[i]
    OBVIOUS
<1> HIDE DEF t
<1>7. /\ \A i \in 1 .. Len(got) : t[i] \in Messages(s, a, 2 * l - 1)
      /\ \A i, j \in 1 .. Len(got) : i < j => t[i] < t[j]
      /\ \A k \in Messages(s, a, 2 * l - 1) : \E i \in 1 .. Len(got) : t[i] = k
    BY <1>3 DEF Lists
<1>8. ASSUME NEW i \in 1 .. Len(t) PROVE i \in 1 .. Len(got) \/ (i = Len(t) /\ t[i] = l)
    <2>1. i \in 1 .. Len(got) \/ i = Len(got) + 1
        BY <1>3
    <2>2. i = Len(got) + 1 => i = Len(t)
        BY <1>3
    <2>3. i = Len(got) + 1 => t[i] = l
        BY <1>3, Zenon
    <2> QED BY <2>1, <2>2, <2>3
<1>4. \A i \in 1 .. Len(t) : t[i] \in Messages(s, a, 2 * l)
    BY <1>1, <1>7, <1>8
<1>5. ASSUME NEW i \in 1 .. Len(t), NEW j \in 1 .. Len(t), i < j PROVE t[i] < t[j]
    <2>1. i \in 1 .. Len(got)
        BY <1>3, <1>5
    <2>2. CASE j \in 1 .. Len(got)
        BY <1>5, <1>7, <2>1, <2>2
    <2>3. CASE t[j] = l
        BY <1>2, <1>7, <2>1, <2>3
    <2> QED BY <1>8, <2>2, <2>3
<1>6. \A k \in Messages(s, a, 2 * l) : \E i \in 1 .. Len(t) : t[i] = k
    <2>1. Len(t) \in 1 .. Len(t) /\ t[Len(t)] = l /\ \A i \in 1 .. Len(got) : i \in 1 .. Len(t)
        BY <1>3
    <2> QED BY <1>1, <1>7, <2>1
<1> USE DEF t
<1> QED BY <1>4, <1>5, <1>6 DEF Lists

\* The messages that a part of the bytes completes are those it contains.
LEMMA CompletedLists ==
    ASSUME NEW s, Words(s), NEW bytes \in Seq(Byte), NEW a \in Nat, IsPart(s, a, bytes)
    PROVE  Completed(bytes) \in Seq(Nat) /\ Lists(Completed(bytes), s, a, a + Len(bytes))
<1> DEFINE N == Len(bytes)
<1>1. PICK f \in [0 .. N -> Seq(Nat)] :
        /\ Completed(bytes) = f[N] /\ f[0] = <<>>
        /\ \A i \in 1 .. N : f[i] = IF EndsMessage(bytes, i) THEN Append(f[i - 1], bytes[i][1])
                                                             ELSE f[i - 1]
    BY CompletedSteps
<1>2. /\ N \in Nat /\ s \in Seq(Nat) /\ Len(s) \in Nat /\ a + N <= 2 * Len(s)
      /\ \A i \in 1 .. N : bytes[i] = ByteOf(s, a + i)
    BY DEF IsPart, Words
<1> HIDE DEF N
<1> DEFINE P == {i \in 0 .. N : Lists(f[i], s, a, a + i)}
<1>3. 0 \in P
    <2>1. Messages(s, a, a) = {}
        BY <1>2 DEF Messages
    <2>2. Len(<<>>) = 0 /\ a + 0 = a
        OBVIOUS
    <2>3. Lists(<<>>, s, a, a)
        BY <2>1, <2>2 DEF Lists
    <2> QED BY <1>1, <1>2, <2>2, <2>3
<1>4. ASSUME NEW i \in 1 .. N, i - 1 \in P PROVE i \in P
    <2>1. PICK l \in Nat : l > 0 /\ (a + i = 2 * l - 1 \/ a + i = 2 * l)
        <3>1. a + i \in Nat /\ a + i > 0
            BY <1>2
        <3> QED BY <3>1, LineOfByte
    <2>2. /\ i \in 0 .. N /\ i - 1 \in 0 .. N /\ f[i - 1] \in Seq(Nat)
          /\ Lists(f[i - 1], s, a, a + i - 1)
        <3>1. a + (i - 1) = a + i - 1
            BY <1>2
        <3> QED BY <1>1, <1>2, <1>4, <3>1
    <2>3. l \in 1 .. Len(s)
        BY <1>2, <2>1
    <2>4. CASE a + i = 2 * l - 1
        <3>1. bytes[i][2] = 1
            <4>1. bytes[i] = ByteOf(s, 2 * l - 1)
                BY <1>2, <2>4
            <4>2. ByteOf(s, 2 * l - 1) = <<s[l], 1>>
                BY <2>1, BytesOfLine
            <4> QED BY <4>1, <4>2
        <3>2. f[i] = f[i - 1]
            BY <1>1, <3>1 DEF EndsMessage
        <3>3. Messages(s, a, a + i) = Messages(s, a, a + i - 1)
            <4>1. Messages(s, a, 2 * l - 1) = Messages(s, a, 2 * l - 2)
                BY SMTT(30), <1>2, <2>1, <2>4 DEF Messages
            <4>2. a + i - 1 = 2 * l - 2
                BY <1>2, <2>1, <2>4
            <4> QED BY <2>4, <4>1, <4>2
        <3> QED BY <2>2, <3>2, <3>3 DEF Lists
    <2>5. CASE a + i = 2 * l
        <3>1. bytes[i] = <<s[l], 2>>
            BY ZenonT(30), <1>2, <2>1, <2>5, BytesOfLine
        <3>2. CASE i = 1 \/ s[l] = Noise
            <4>1. f[i] = f[i - 1]
                <5>1. ~EndsMessage(bytes, i)
                    BY <3>1, <3>2 DEF EndsMessage
                <5> QED BY <1>1, <5>1
            <4>2. Messages(s, a, a + i) = Messages(s, a, a + i - 1)
                <5>1. Messages(s, a, 2 * l) = Messages(s, a, 2 * l - 1)
                    <6>1. ASSUME NEW k \in 1 .. Len(s), 2 * k <= 2 * l, s[k] # Noise, 2 * k - 1 > a
                          PROVE  2 * k <= 2 * l - 1
                        <7>1. CASE k = l
                            BY <1>2, <2>1, <2>5, <3>2, <6>1, <7>1
                        <7>2. CASE k # l
                            BY <2>1, <6>1, <7>2
                        <7> QED BY <7>1, <7>2
                    <6>2. \A k \in 1 .. Len(s) : 2 * k <= 2 * l - 1 => 2 * k <= 2 * l
                        BY <2>1
                    <6> QED BY <6>1, <6>2 DEF Messages
                <5>2. a + i - 1 = 2 * l - 1
                    BY <1>2, <2>1, <2>5
                <5> QED BY <2>5, <5>1, <5>2
            <4> QED BY <2>2, <4>1, <4>2 DEF Lists
        <3>3. CASE i # 1 /\ s[l] # Noise
            <4>1. i - 1 \in 1 .. N /\ a + (i - 1) = 2 * l - 1 /\ a + i - 1 = 2 * l - 1
                BY <1>2, <2>1, <2>5, <3>3
            <4>2. bytes[i - 1] = <<s[l], 1>>
                BY <1>2, <2>1, <4>1, BytesOfLine
            <4>3. EndsMessage(bytes, i)
                BY <3>1, <3>3, <4>1, <4>2 DEF EndsMessage
            <4>4. s[l] = l
                BY <2>3, <3>3 DEF Words
            <4>5. f[i] = Append(f[i - 1], l)
                <5>1. bytes[i][1] = l
                    BY <3>1, <4>4
                <5> QED BY <1>1, <4>3, <5>1
            <4>6. 2 * l - 1 > a
                BY <1>2, <2>1, <4>1
            <4> QED BY <1>2, <2>2, <2>3, <2>5, <3>3, <4>1, <4>5, <4>6, ListsOneMore
        <3> QED BY <3>2, <3>3
    <2> QED BY <2>1, <2>4, <2>5
<1>5. N \in P
    <2> HIDE DEF P
    <2>1. \A i \in 0 .. N : i \in P
        BY <1>2, <1>3, <1>4, Induction
    <2> QED BY <1>2, <2>1
<1> USE DEF N
<1> QED BY <1>1, <1>2, <1>5

\* What one part contains and then the next is what both contain, when no line
\* crosses from one to the other.
LEMMA ListsBoth ==
    ASSUME NEW s \in Seq(Nat), NEW x \in Seq(Nat), NEW y \in Seq(Nat),
           NEW a \in Nat, NEW b \in Nat, NEW d \in Nat, a <= b, b <= d,
           b % 2 = 0, Lists(x, s, a, b), Lists(y, s, b, d)
    PROVE  Lists(x \o y, s, a, d)
<1>1. Messages(s, a, d) = Messages(s, a, b) \cup Messages(s, b, d)
    <2>1. PICK h \in Nat : b = 2 * h
        <3>1. b \div 2 \in Nat /\ b = 2 * (b \div 2)
            OBVIOUS
        <3> QED BY <3>1
    <2>2. ASSUME NEW l \in 1 .. Len(s)
          PROVE  2 * l - 1 > a /\ 2 * l <= d <=>
                    (2 * l - 1 > a /\ 2 * l <= b) \/ (2 * l - 1 > b /\ 2 * l <= d)
        BY <2>1
    <2> QED BY <2>2 DEF Messages
<1>2. \A k \in Messages(s, a, b), l \in Messages(s, b, d) : k < l
    BY DEF Messages
<1> DEFINE t == x \o y
<1>3. /\ Len(x) \in Nat /\ Len(y) \in Nat /\ Len(t) = Len(x) + Len(y)
      /\ \A i \in 1 .. Len(x) : t[i] = x[i]
      /\ \A i \in 1 .. Len(y) : t[i + Len(x)] = y[i]
      /\ \A i \in 1 .. Len(t) : i > Len(x) => i - Len(x) \in 1 .. Len(y) /\ t[i] = y[i - Len(x)]
    OBVIOUS
<1> HIDE DEF t
<1>7. /\ \A i \in 1 .. Len(x) : x[i] \in Messages(s, a, b)
      /\ \A i, j \in 1 .. Len(x) : i < j => x[i] < x[j]
      /\ \A i \in 1 .. Len(y) : y[i] \in Messages(s, b, d)
      /\ \A i, j \in 1 .. Len(y) : i < j => y[i] < y[j]
    BY DEF Lists
<1>8. ASSUME NEW i \in 1 .. Len(t)
      PROVE  \/ i \in 1 .. Len(x) /\ t[i] = x[i]
             \/ i > Len(x) /\ i - Len(x) \in 1 .. Len(y) /\ t[i] = y[i - Len(x)]
    <2>1. i \in 1 .. Len(x) \/ i > Len(x)
        BY <1>3
    <2> QED BY <1>3, <2>1
<1>4. \A i \in 1 .. Len(t) : t[i] \in Messages(s, a, d)
    BY <1>1, <1>7, <1>8
<1>5. ASSUME NEW i \in 1 .. Len(t), NEW j \in 1 .. Len(t), i < j PROVE t[i] < t[j]
    <2>1. CASE i > Len(x)
        <3>1. j > Len(x) /\ i - Len(x) < j - Len(x)
            BY <1>3, <1>5, <2>1
        <3>2. i - Len(x) \in 1 .. Len(y) /\ t[i] = y[i - Len(x)]
            BY <1>3, <1>8, <2>1
        <3>3. j - Len(x) \in 1 .. Len(y) /\ t[j] = y[j - Len(x)]
            BY <1>3, <1>8, <3>1
        <3> QED BY <1>7, <3>1, <3>2, <3>3
    <2>2. CASE ~(i > Len(x))
        BY <1>2, <1>3, <1>5, <1>7, <1>8, <2>2
    <2> QED BY <2>1, <2>2
<1>6. \A k \in Messages(s, a, d) : \E i \in 1 .. Len(t) : t[i] = k
    <2>1. ASSUME NEW k \in Messages(s, b, d) PROVE \E i \in 1 .. Len(t) : t[i] = k
        <3>1. PICK i \in 1 .. Len(y) : y[i] = k
            BY DEF Lists
        <3>2. i + Len(x) \in 1 .. Len(t) /\ t[i + Len(x)] = k
            BY <1>3, <3>1
        <3> QED BY <3>2
    <2>2. ASSUME NEW k \in Messages(s, a, b) PROVE \E i \in 1 .. Len(t) : t[i] = k
        <3>1. PICK i \in 1 .. Len(x) : x[i] = k
            BY DEF Lists
        <3> QED BY <1>3, <3>1
    <2> QED BY <1>1, <2>1, <2>2
<1> USE DEF t
<1> QED BY <1>4, <1>5, <1>6 DEF Lists
-----------------------------------------------------------------------------
\* Parts of the bytes, put together and taken apart.
LEMMA PartsJoin ==
    ASSUME NEW s, NEW a \in Nat, NEW x \in Seq(Byte), NEW y \in Seq(Byte),
           IsPart(s, a, x), IsPart(s, a + Len(x), y)
    PROVE  IsPart(s, a, x \o y) /\ Len(x \o y) = Len(x) + Len(y)
<1> DEFINE t == x \o y
<1>1. /\ Len(x) \in Nat /\ Len(y) \in Nat /\ Len(t) = Len(x) + Len(y)
      /\ \A i \in 1 .. Len(x) + Len(y) : t[i] = IF i <= Len(x) THEN x[i] ELSE y[i - Len(x)]
    BY ConcatProperties
<1> HIDE DEF t
<1>2. ASSUME NEW i \in 1 .. Len(t) PROVE t[i] = ByteOf(s, a + i)
    <2>1. CASE i <= Len(x)
        BY <1>1, <2>1 DEF IsPart
    <2>2. CASE ~(i <= Len(x))
        <3>1. i - Len(x) \in 1 .. Len(y) /\ a + Len(x) + (i - Len(x)) = a + i
            BY <1>1, <2>2
        <3>2. y[i - Len(x)] = ByteOf(s, a + Len(x) + (i - Len(x)))
            BY <3>1 DEF IsPart
        <3> QED BY <1>1, <2>2, <3>1, <3>2
    <2> QED BY <2>1, <2>2
<1>3. a + Len(t) <= 2 * Len(s)
    <2>1. a + Len(x) + Len(y) <= 2 * Len(s)
        BY DEF IsPart
    <2>2. a + (Len(x) + Len(y)) = a + Len(x) + Len(y)
        BY <1>1
    <2> QED BY <1>1, <2>1, <2>2
<1>4. IsPart(s, a, t) /\ Len(t) = Len(x) + Len(y)
    BY <1>1, <1>2, <1>3 DEF IsPart
<1> QED BY <1>4 DEF t

LEMMA PartsApart ==
    ASSUME NEW s \in Seq(Nat), NEW a \in Nat, NEW x \in Seq(Byte), IsPart(s, a, x), NEW n \in 1 .. Len(x)
    PROVE  /\ SubSeq(x, 1, n) \in Seq(Byte) /\ SubSeq(x, n + 1, Len(x)) \in Seq(Byte)
           /\ SubSeq(x, 1, n) # <<>>
           /\ Len(SubSeq(x, 1, n)) = n /\ Len(SubSeq(x, n + 1, Len(x))) = Len(x) - n
           /\ IsPart(s, a, SubSeq(x, 1, n)) /\ IsPart(s, a + n, SubSeq(x, n + 1, Len(x)))
<1> DEFINE y == SubSeq(x, 1, n)
           z == SubSeq(x, n + 1, Len(x))
<1>1. Len(x) \in Nat /\ \A i \in 1 .. Len(x) : x[i] \in Byte
    OBVIOUS
<1>2. y \in Seq(Byte) /\ Len(y) = n /\ \A i \in 1 .. n : y[i] = x[i]
    BY <1>1, SubSeqProperties
<1>3. z \in Seq(Byte) /\ Len(z) = Len(x) - n /\ \A i \in 1 .. Len(x) - n : z[i] = x[n + i]
    <2>1. CASE n = Len(x)
        <3>1. z = <<>>
            BY <2>1, SubSeqEmpty
        <3> QED BY <2>1, <3>1
    <2>2. CASE n # Len(x)
        <3>1. \A i \in n + 1 .. Len(x) : x[i] \in Byte
            BY <1>1
        <3>2. /\ z \in Seq(Byte) /\ Len(z) = Len(x) - (n + 1) + 1
              /\ \A i \in 1 .. Len(x) - (n + 1) + 1 : z[i] = x[n + 1 + i - 1]
            BY <2>2, <3>1, <1>1, SubSeqProperties
        <3>3. Len(x) - (n + 1) + 1 = Len(x) - n /\ \A i \in 1 .. Len(x) - n : n + 1 + i - 1 = n + i
            BY <1>1
        <3> HIDE DEF z
        <3> QED BY <3>2, <3>3
    <2> QED BY <2>1, <2>2
<1> HIDE DEF y, z
<1>4. a + Len(x) <= 2 * Len(s) /\ \A i \in 1 .. Len(x) : x[i] = ByteOf(s, a + i)
    BY DEF IsPart
<1>5. IsPart(s, a, y)
    BY <1>1, <1>2, <1>4 DEF IsPart
<1>6. IsPart(s, a + n, z)
    <2>1. \A i \in 1 .. Len(x) - n : n + i \in 1 .. Len(x) /\ a + (n + i) = a + n + i
        BY <1>1
    <2>2. a + n + (Len(x) - n) = a + Len(x) /\ a + n \in Nat
        BY <1>1
    <2> QED BY <1>3, <1>4, <2>1, <2>2 DEF IsPart
<1>7. y # <<>>
    BY <1>2
<1> USE DEF y, z
<1> QED BY <1>2, <1>3, <1>5, <1>6, <1>7

\* What stays of bytes of which there are some begins with a line.
LEMMA PartialIsPart ==
    ASSUME NEW s, Words(s), NEW a \in Nat, NEW bytes \in Seq(Byte), bytes # <<>>,
           IsPart(s, a, bytes)
    PROVE  \E r \in Nat :
            /\ r >= a /\ r + Len(Partial(bytes)) = a + Len(bytes) /\ r % 2 = 0
            /\ IsPart(s, r, Partial(bytes))
            /\ \A x \in Nat : Messages(s, x, r) = Messages(s, x, a + Len(bytes))
<1> DEFINE n == Len(bytes)
<1>1. /\ n \in Nat /\ n > 0 /\ bytes[n] = ByteOf(s, a + n) /\ a + n <= 2 * Len(s)
      /\ s \in Seq(Nat) /\ Len(s) \in Nat
    BY EmptySeq DEF IsPart, Words
<1> HIDE DEF n
<1>2. PICK l \in Nat : l > 0 /\ (a + n = 2 * l - 1 \/ a + n = 2 * l)
    <2>1. a + n \in Nat /\ a + n > 0
        BY <1>1
    <2> QED BY <2>1, LineOfByte
<1>3. ByteOf(s, 2 * l - 1) = <<s[l], 1>> /\ ByteOf(s, 2 * l) = <<s[l], 2>>
    BY <1>2, BytesOfLine
<1>4. CASE a + n = 2 * l
    <2>1. Partial(bytes) = <<>>
        BY <1>1, <1>3, <1>4 DEF Partial, n
    <2>2. Len(Partial(bytes)) = 0
        BY <2>1
    <2>3. IsPart(s, a + n, Partial(bytes))
        BY <1>1, <2>2 DEF IsPart
    <2>4. (a + n) % 2 = 0 /\ a + n \in Nat /\ a + n >= a /\ a + n + 0 = a + n
        BY <1>1, <1>4
    <2> QED BY <2>2, <2>3, <2>4 DEF n
<1>5. CASE a + n = 2 * l - 1
    <2>1. bytes[n] = <<s[l], 1>>
        BY <1>1, <1>3, <1>5
    <2>2. Partial(bytes) = <<bytes[n]>>
        BY <1>1, <2>1 DEF Partial, n
    <2>3. Len(Partial(bytes)) = 1 /\ Partial(bytes)[1] = ByteOf(s, a + n)
        BY <1>1, <2>2
    <2> DEFINE r == a + n - 1
    <2>4. r \in Nat /\ r >= a /\ r + 1 = a + n /\ r % 2 = 0 /\ r = 2 * l - 2
        BY <1>1, <1>5
    <2> HIDE DEF r
    <2>5. IsPart(s, r, Partial(bytes))
        <3>1. \A i \in 1 .. 1 : r + i = a + n /\ i = 1
            BY <2>4
        <3>2. \A i \in 1 .. 1 : Partial(bytes)[i] = ByteOf(s, r + i)
            BY <2>3, <3>1
        <3>3. r + 1 <= 2 * Len(s)
            BY <1>1, <2>4
        <3> QED BY <2>3, <2>4, <3>2, <3>3 DEF IsPart
    <2>6. ASSUME NEW x \in Nat PROVE Messages(s, x, r) = Messages(s, x, a + n)
        <3>1. \A k \in 1 .. Len(s) : 2 * k <= 2 * l - 2 <=> 2 * k <= 2 * l - 1
            BY <1>2
        <3> QED BY <1>5, <2>4, <3>1 DEF Messages
    <2> QED BY <2>3, <2>4, <2>5, <2>6 DEF n
<1> QED BY <1>2, <1>4, <1>5

\* Nothing lists the messages of no bytes.
LEMMA NothingListsNothing ==
    ASSUME NEW s \in Seq(Nat), NEW a \in Nat
    PROVE  Lists(<<>>, s, a, a)
<1>1. Messages(s, a, a) = {} /\ Len(<<>>) = 0
    BY DEF Messages
<1> QED BY <1>1 DEF Lists

\* One line more changes nothing of what is said of the bytes before.
LEMMA BytesStay ==
    ASSUME NEW s \in Seq(Nat), NEW line \in Nat, NEW j \in 1 .. 2 * Len(s)
    PROVE  ByteOf(Append(s, line), j) = ByteOf(s, j)
<1>1. PICK l \in Nat : l > 0 /\ (j = 2 * l - 1 \/ j = 2 * l)
    <2>1. j \in Nat /\ j > 0
        OBVIOUS
    <2> QED BY <2>1, LineOfByte
<1>2. l \in 1 .. Len(s) /\ Append(s, line)[l] = s[l]
    BY <1>1
<1> QED BY <1>1, <1>2, BytesOfLine

LEMMA PartsStay ==
    ASSUME NEW s \in Seq(Nat), NEW line \in Nat, NEW a, NEW bytes \in Seq(Byte), IsPart(s, a, bytes)
    PROVE  IsPart(Append(s, line), a, bytes)
<1>1. Len(Append(s, line)) = Len(s) + 1 /\ Len(s) \in Nat /\ Len(bytes) \in Nat
    OBVIOUS
<1>2. a \in Nat /\ a + Len(bytes) <= 2 * Len(s) /\ \A i \in 1 .. Len(bytes) : bytes[i] = ByteOf(s, a + i)
    BY DEF IsPart
<1>3. ASSUME NEW i \in 1 .. Len(bytes) PROVE bytes[i] = ByteOf(Append(s, line), a + i)
    <2>1. a + i \in 1 .. 2 * Len(s)
        BY <1>1, <1>2
    <2> QED BY <1>2, <2>1, BytesStay
<1>4. a + Len(bytes) <= 2 * (Len(s) + 1)
    BY <1>1, <1>2
<1> QED BY <1>1, <1>2, <1>3, <1>4 DEF IsPart

LEMMA ListsStay ==
    ASSUME NEW s \in Seq(Nat), NEW line \in Nat, NEW got, NEW a \in Nat, NEW b \in 0 .. 2 * Len(s),
           Lists(got, s, a, b)
    PROVE  Lists(got, Append(s, line), a, b)
<1>1. Messages(Append(s, line), a, b) = Messages(s, a, b)
    <2>1. \A l \in 1 .. Len(s) + 1 : 2 * l <= b => l \in 1 .. Len(s)
        OBVIOUS
    <2>2. Len(Append(s, line)) = Len(s) + 1 /\ \A l \in 1 .. Len(s) : Append(s, line)[l] = s[l]
        OBVIOUS
    <2> QED BY <2>1, <2>2 DEF Messages
<1> QED BY <1>1 DEF Lists
-----------------------------------------------------------------------------
LEMMA ShapeInit == Init => Shape
<1> SUFFICES ASSUME Init PROVE Shape
    OBVIOUS
<1> USE StdioAssumption DEF StdioAssumption
<1>1. TypeOK
    BY DEF Init, TypeOK, Alive, Opened
<1> QED BY <1>1 DEF Init, Shape, Alive, Opened

LEMMA ConnectShape ==
    ASSUME Shape, NEW c \in Conn, Connect(c) PROVE Shape'
BY DEF Shape, TypeOK, Connect, Live, childVars, Alive, Opened

LEMMA DropShape ==
    ASSUME Shape, NEW c \in Conn, Drop(c) PROVE Shape'
BY SMTT(30) DEF Shape, TypeOK, Drop, Disconnect, CloseReader, Live, shellVars, childVars, Alive, Opened

LEMMA SpawnShape ==
    ASSUME Shape, NEW c \in Conn, Spawn(c) PROVE Shape'
<1> USE DEF Shape, Alive, Opened, pageVars
<1>1. CASE command' = [command EXCEPT ![c] = "done"]
    <2>1. /\ table' = table \cup {c} /\ stdin' = [stdin EXCEPT ![c] = TRUE]
          /\ proc' = [proc EXCEPT ![c] = "running"] /\ command[c] = "asked"
        BY <1>1 DEF Spawn, TypeOK
    <2>2. TypeOK'
        BY SMTT(30), <1>1, <2>1 DEF Spawn, TypeOK
    <2> QED BY <1>1, <2>1, <2>2 DEF Spawn, TypeOK
<1>2. CASE command' = [command EXCEPT ![c] = "failed"] /\ UNCHANGED <<table, stdin, proc>>
    BY <1>2 DEF Spawn, TypeOK
<1> QED BY <1>1, <1>2 DEF Spawn

LEMMA SpawnFailedShape ==
    ASSUME Shape, NEW c \in Conn, SpawnFailed(c) PROVE Shape'
BY SMTT(30) DEF Shape, TypeOK, SpawnFailed, Live, shellVars, childVars, Alive, Opened

LEMMA GreetShape ==
    ASSUME Shape, NEW c \in Conn, Greet(c) \/ Write(c) PROVE Shape'
<1> USE DEF Shape, Alive, Opened, shellVars, childVars, Live, CloseReader
<1>1. CASE Greet(c) /\ ~Broken(c)
    BY <1>1 DEF Greet, TypeOK
<1>2. CASE Greet(c) /\ Broken(c)
    <2>1. TypeOK'
        <3>1. /\ transport' = [transport EXCEPT ![c] = "greeted"] /\ transport[c] = "open"
              /\ killing' = [killing EXCEPT ![c] = "asked"] /\ reader' = CloseReader(c)
              /\ settled' = [settled EXCEPT ![c] = IF @ = "no" THEN "error" ELSE @]
              /\ wanted' = [wanted EXCEPT ![c] = FALSE]
            BY <1>2 DEF Greet, WriteFails, Disconnect
        <3>2. UNCHANGED <<loaded, early, subscribed, pending, delivered, app, command, table,
                          armed, stdin, proc, said, pipe, channel>>
            BY <1>2 DEF Greet
        <3>3. \A d \in Conn : killing'[d] # "no" => transport'[d] \in Opened
            BY <3>1 DEF TypeOK
        <3>4. /\ killing' \in [Conn -> {"no", "asked", "resolved"}]
              /\ settled' \in [Conn -> {"no", "closed", "error"}]
              /\ reader' \in [Conn -> {"none", "open", "closed"}]
              /\ wanted' \in [Conn -> BOOLEAN]
              /\ transport' \in [Conn -> Opened \cup {"new", "spawning", "failed"}]
            BY <3>1 DEF TypeOK
        <3> QED BY <3>2, <3>3, <3>4 DEF TypeOK
    <2>2. /\ transport' = [transport EXCEPT ![c] = "greeted"] /\ transport[c] = "open"
          /\ reader' = [reader EXCEPT ![c] = IF @ = "open" THEN "closed" ELSE @]
        BY <1>2 DEF Greet, WriteFails, Disconnect
    <2> QED BY <1>2, <2>1, <2>2 DEF Greet, TypeOK
<1>3. CASE Write(c)
    BY SMTT(30), <1>3 DEF Write, TypeOK, WriteFails, Disconnect
<1> QED BY <1>1, <1>2, <1>3

LEMMA KillShape ==
    ASSUME Shape, NEW c \in Conn, Kill(c) PROVE Shape'
BY DEF Shape, TypeOK, Kill, Live, childVars, Alive, Opened

LEMMA SayShape ==
    ASSUME Shape, NEW c \in Conn, Say(c) PROVE Shape'
<1> USE DEF Shape, Alive, Opened, pageVars, shellVars
<1>1. PICK line \in {Noise, Len(said[c]) + 1} :
        /\ said' = [said EXCEPT ![c] = Append(@, line)]
        /\ pipe' = [pipe EXCEPT ![c] = @ \o Bytes(line)]
    BY DEF Say
<1>2. /\ said[c] \in Seq({Noise} \cup 1 .. MaxLines) /\ Len(said[c]) < MaxLines
      /\ line \in {Noise} \cup 1 .. MaxLines
    BY StdioAssumption DEF TypeOK, Say, StdioAssumption, Noise
<1>3. /\ Append(said[c], line) \in Seq({Noise} \cup 1 .. MaxLines)
      /\ Len(Append(said[c], line)) <= MaxLines
    BY <1>2, StdioAssumption DEF StdioAssumption
<1>4. Bytes(line) \in Seq(Byte)
    BY <1>2 DEF Bytes, Byte, Noise
<1>5. pipe' \in [Conn -> Seq(Byte)]
    BY <1>1, <1>4
<1>6. DOMAIN said' = Conn /\ said'[c] = Append(said[c], line)
      /\ \A d \in Conn \ {c} : said'[d] = said[d]
    BY <1>1
<1>7. TypeOK'
    <2>1. \A d \in Conn : said'[d] \in Seq({Noise} \cup 1 .. MaxLines) /\ Len(said'[d]) <= MaxLines
        BY ZenonT(30), <1>3, <1>6 DEF TypeOK
    <2> QED BY <2>1 DEF TypeOK, Say
<1> QED BY <1>5, <1>6, <1>7 DEF Say

LEMMA PumpShape ==
    ASSUME Shape, NEW c \in Conn, Pump(c) PROVE Shape'
<1> USE DEF Shape, Alive, Opened, pageVars, shellVars
<1>1. PICK n \in DOMAIN pipe[c] :
        /\ channel' = [channel EXCEPT ![c] = Append(@, Chunk(SubSeq(pipe[c], 1, n)))]
        /\ pipe' = [pipe EXCEPT ![c] = SubSeq(@, n + 1, Len(@))]
    BY DEF Pump
<1>2. pipe[c] \in Seq(Byte) /\ n \in 1 .. Len(pipe[c])
    OBVIOUS
<1>3. SubSeq(pipe[c], 1, n) \in Seq(Byte) /\ SubSeq(pipe[c], n + 1, Len(pipe[c])) \in Seq(Byte)
    BY <1>2, SubSeqProperties
<1>4. Append(channel[c], Chunk(SubSeq(pipe[c], 1, n))) \in Seq(Event)
    <2>1. Chunk(SubSeq(pipe[c], 1, n)) \in Event /\ channel[c] \in Seq(Event)
        BY <1>3 DEF Event
    <2> QED BY <2>1
<1>5. channel' \in [Conn -> Seq(Event)] /\ pipe' \in [Conn -> Seq(Byte)]
    BY <1>1, <1>3, <1>4
<1>6. TypeOK'
    BY DEF TypeOK, Pump
<1> QED BY <1>5, <1>6 DEF Pump

LEMMA EndShape ==
    ASSUME Shape, NEW c \in Conn, Terminate(c) \/ Die(c) \/ Killed(c) \/ Forget(c) PROVE Shape'
<1> USE DEF Shape, Alive, Opened, pageVars, shellVars, childVars
<1>1. CASE Terminate(c)
    BY <1>1 DEF Terminate, TypeOK
<1>2. CASE Die(c) \/ Killed(c)
    <2>1. proc[c] \in Alive /\ Reap(c)
        BY <1>2 DEF Die, Killed
    <2>2. channel' \in [Conn -> Seq(Event)]
        <3>1. Exit \in Event /\ channel[c] \in Seq(Event)
            BY DEF Event
        <3>2. Append(channel[c], Exit) \in Seq(Event)
            BY <3>1
        <3> QED BY <2>1, <3>2 DEF Reap
    <2>3. TypeOK'
        BY <2>1 DEF Reap, TypeOK
    <2> QED BY <2>1, <2>2, <2>3 DEF Reap, TypeOK
<1>3. CASE Forget(c)
    BY <1>3 DEF Forget, TypeOK
<1> QED BY <1>1, <1>2, <1>3

LEMMA LeaveShape ==
    ASSUME Shape, Reload \/ Quit \/ Leave PROVE Shape'
<1> USE DEF Shape, Alive, Opened, pageVars, childVars
<1>1. Sweep => armed' = armed \cup table /\ stdin' \in [Conn -> BOOLEAN]
    BY DEF Sweep, SweepOrphans, TypeOK
<1>2. CASE Reload
    BY <1>1, <1>2 DEF Reload, TypeOK
<1>3. CASE Quit
    BY <1>1, <1>3 DEF Quit, TypeOK
<1>4. CASE Leave
    <2>1. /\ app = "leaving" /\ app' = "gone" /\ Waited
          /\ UNCHANGED <<pageVars, command, table, armed, stdin, childVars, channel>>
        BY <1>4 DEF Leave
    <2>2. \A c \in Conn : transport[c] \in Opened => proc[c] \notin Alive
        BY <2>1 DEF Waited, TypeOK
    <2>3. TypeOK'
        BY <2>1 DEF TypeOK
    <2> QED BY <2>1, <2>2, <2>3
<1> QED BY <1>2, <1>3, <1>4

\* What stays of bytes is at most the first half of a line.
LEMMA PartialIsShort ==
    ASSUME NEW bytes \in Seq(Byte)
    PROVE  Partial(bytes) \in Seq(Byte) /\ Len(Partial(bytes)) <= 1
<1>1. CASE Len(bytes) = 0 \/ bytes[Len(bytes)][2] = 2
    BY <1>1 DEF Partial
<1>2. CASE ~(Len(bytes) = 0 \/ bytes[Len(bytes)][2] = 2)
    <2>1. Partial(bytes) = <<bytes[Len(bytes)]>>
        BY <1>2 DEF Partial
    <2>2. bytes[Len(bytes)] \in Byte
        BY <1>2
    <2> QED BY <2>1, <2>2
<1> QED BY <1>1, <1>2

LEMMA SpawnedShape ==
    ASSUME Shape, NEW c \in Conn, Spawned(c) PROVE Shape' /\ delivered' = delivered
<1>1. /\ reader[c] = "none" /\ transport[c] = "spawning" /\ delivered[c] \in Seq(Nat)
      /\ DOMAIN delivered = Conn
    BY DEF Spawned, Shape, Opened
<1>2. delivered' = delivered
    <2>1. delivered[c] \o <<>> = delivered[c]
        BY <1>1, ConcatEmptySeq
    <2>2. delivered' = [delivered EXCEPT ![c] = @ \o <<>>]
        BY <1>1 DEF Spawned, Handle, Enqueued
    <2> QED BY <2>1, <2>2 DEF Shape
<1>3. EarlyBytes(c) \in Seq(Byte)
    <2>1. PICK f \in [0 .. Len(early[c]) -> Seq(Byte)] : EarlyBytes(c) = f[Len(early[c])]
        BY EarlySteps
    <2>2. Len(early[c]) \in 0 .. Len(early[c])
        BY DEF Shape
    <2> QED BY <2>1, <2>2
<1>4. \E new \in Seq(Byte) : Len(new) <= 1 /\ pending' = [pending EXCEPT ![c] = new]
    <2>1. PICK new : new = (IF ExitedEarly(c) THEN <<>> ELSE Partial(EarlyBytes(c)))
        OBVIOUS
    <2>2. pending' = [pending EXCEPT ![c] = new]
        BY <2>1 DEF Spawned, Handle
    <2>3. new \in Seq(Byte) /\ Len(new) <= 1
        BY <1>3, <2>1, PartialIsShort
    <2> QED BY <2>2, <2>3
<1>5. settled' \in [Conn -> {"no", "closed", "error"}]
    BY DEF Spawned, Handle, Shape, TypeOK
<1>6. killing' \in [Conn -> {"no", "asked", "resolved"}]
      /\ \A d \in Conn \ {c} : killing'[d] = killing[d]
    BY DEF Spawned, DiscardSuperseded, Shape, TypeOK
<1>7. /\ transport' = [transport EXCEPT ![c] = "open"]
      /\ subscribed' = [subscribed EXCEPT ![c] = TRUE]
      /\ early' = [early EXCEPT ![c] = <<>>]
      /\ reader' = [reader EXCEPT ![c] = IF wanted[c] THEN "open" ELSE "closed"]
      /\ UNCHANGED <<loaded, wanted, app, command, table, armed, stdin, proc, said, pipe, channel>>
      /\ app = "running" /\ command[c] = "done"
    BY DEF Spawned, shellVars, childVars, Live
<1>8. TypeOK'
    BY <1>4, <1>5, <1>6, <1>7 DEF Shape, TypeOK, Opened, Alive
<1>9. /\ pending' \in [Conn -> Seq(Byte)] /\ early' \in [Conn -> Seq(Event)]
      /\ \A d \in Conn \ {c} : pending'[d] = pending[d]
    BY <1>4, <1>7 DEF Shape
<1> QED BY <1>2, <1>7, <1>8, <1>9 DEF Shape, TypeOK, Opened

LEMMA ReceiveShape ==
    ASSUME Shape, NEW c \in Conn, Receive(c) PROVE Shape'
<1> DEFINE event == Head(channel[c])
<1>1. /\ channel[c] \in Seq(Event) /\ channel[c] # <<>> /\ event \in Event
      /\ Tail(channel[c]) \in Seq(Event) /\ channel' = [channel EXCEPT ![c] = Tail(@)]
      /\ UNCHANGED <<loaded, wanted, transport, subscribed, killing, app, command, table, armed,
                     stdin, proc, said, pipe>>
    BY HeadTailProperties DEF Receive, Shape, shellVars, childVars
<1>2. channel' \in [Conn -> Seq(Event)]
    BY <1>1 DEF Shape
<1>3. CASE ~subscribed[c]
    <2>1. /\ early' = [early EXCEPT ![c] = Append(@, event)]
          /\ UNCHANGED <<pending, delivered, settled, reader>>
        BY <1>3 DEF Receive
    <2>2. early' \in [Conn -> Seq(Event)] /\ \A d \in Conn \ {c} : early'[d] = early[d]
        <3>1. Append(early[c], event) \in Seq(Event)
            BY <1>1 DEF Shape
        <3> HIDE DEF event
        <3> QED BY <2>1, <3>1 DEF Shape
    <2>3. TypeOK'
        BY <1>1, <1>3, <2>1, <2>2 DEF Shape, TypeOK
    <2> QED BY <1>1, <1>2, <2>1, <2>2, <2>3 DEF Shape
<1>4. CASE subscribed[c]
    <2>1. PICK bytes : bytes = (IF event = Exit THEN <<>> ELSE Pushed(c, event[2]))
        OBVIOUS
    <2>2. /\ Handle(c, bytes, event = Exit) /\ early' = early
          /\ reader' = IF event = Exit THEN CloseReader(c) ELSE reader
        BY <1>4, <2>1 DEF Receive
    <2>3. bytes \in Seq(Byte)
        <3>1. event # Exit => event[2] \in Seq(Byte)
            BY <1>1 DEF Event, Chunk
        <3>2. pending[c] \in Seq(Byte)
            BY DEF Shape
        <3> HIDE DEF event
        <3> QED BY <2>1, <3>1, <3>2 DEF Pushed
    <2>4. Enqueued(c, bytes) \in Seq(Nat)
        BY <2>3, CompletedSteps DEF Enqueued
    <2>5. delivered' \in [Conn -> Seq(Nat)] /\ \A d \in Conn \ {c} : delivered'[d] = delivered[d]
        BY <2>2, <2>4 DEF Handle, Shape
    <2>6. \E new \in Seq(Byte) : Len(new) <= 1 /\ pending' = [pending EXCEPT ![c] = new]
        <3>1. PICK new : new = (IF event = Exit THEN <<>> ELSE Partial(bytes))
            OBVIOUS
        <3>2. new \in Seq(Byte) /\ Len(new) <= 1
            BY <2>3, <3>1, PartialIsShort
        <3> QED BY <2>2, <3>1, <3>2 DEF Handle
    <2>7. /\ pending' \in [Conn -> Seq(Byte)] /\ Len(pending'[c]) <= 1
          /\ \A d \in Conn \ {c} : pending'[d] = pending[d]
        BY <2>6 DEF Shape
    <2>8. /\ settled' \in [Conn -> {"no", "closed", "error"}]
          /\ reader' \in [Conn -> {"none", "open", "closed"}]
          /\ \A d \in Conn : reader'[d] # "none" <=> reader[d] # "none"
        BY <2>2 DEF Handle, CloseReader, Shape, TypeOK
    <2>9. TypeOK'
        <3>1. TypeOK
            BY DEF Shape
        <3>2. \A d \in Conn : Len(pending'[d]) <= 1
            BY <2>7, <3>1 DEF TypeOK
        <3> HIDE DEF event
        <3> QED BY <1>1, <2>2, <2>8, <3>1, <3>2 DEF TypeOK
    <2> QED BY SMTT(30), <1>1, <1>2, <1>4, <2>2, <2>5, <2>7, <2>8, <2>9 DEF Shape
<1> QED BY <1>3, <1>4

LEMMA ShapeStep == Shape /\ [Next]_vars => Shape'
<1> SUFFICES ASSUME Shape, [Next]_vars PROVE Shape'
    OBVIOUS
<1>1. ASSUME NEW c \in Conn,
             \/ Connect(c) \/ Abandon(c) \/ Page(c) \/ Write(c)
             \/ Shell(c) \/ Die(c) \/ Pump(c) \/ Say(c)
      PROVE  Shape'
    BY <1>1, ConnectShape, DropShape, SpawnShape, SpawnedShape, SpawnFailedShape, ReceiveShape,
       KillShape, GreetShape, EndShape, PumpShape, SayShape
       DEF Abandon, Closed, Page, Shell
<1>2. CASE Reload \/ Quit \/ Leave
    BY <1>2, LeaveShape
<1>3. CASE UNCHANGED vars
    BY <1>3 DEF vars, pageVars, shellVars, childVars, Shape, TypeOK
<1> QED BY <1>1, <1>2, <1>3 DEF Next

\* The table keeps every child that lives, and the exit of the application,
\* which waits for the children it swept, leaves none a page had a transport for
\* (RunEvent::Exit, sweep_orphans).
THEOREM TableIsKept == Spec => []TableKept
<1>1. Shape => TableKept
    BY DEF TableKept, ExitLeavesNone, Shape
<1> QED BY <1>1, ShapeInit, ShapeStep, PTL DEF Spec
-----------------------------------------------------------------------------
LEMMA StreamInit == Init => StreamInv
<1> SUFFICES ASSUME Init, NEW c \in Conn PROVE Stream(c)
    BY DEF StreamInv
<1>1. /\ said[c] = <<>> /\ early[c] = <<>> /\ channel[c] = <<>> /\ pipe[c] = <<>>
      /\ delivered[c] = <<>> /\ reader[c] = "none"
    BY DEF Init
<1>2. Events(c) = <<>> /\ Len(<<>>) = 0 /\ <<>> \in Seq(Nat)
    BY <1>1 DEF Events
<1> DEFINE at == [i \in 0 .. 0 |-> 0]
<1>3. at \in [0 .. Len(Events(c)) -> 0 .. 2 * Len(said[c])] /\ at[0] = 0
    BY <1>1, <1>2
<1> HIDE DEF at
<1>4. Follows(c, at)
    BY <1>1, <1>2, <1>3 DEF Follows, IsPart
<1>5. Handled(c, at[0])
    BY <1>1, <1>3 DEF Handled
<1>6. Words(said[c])
    BY <1>1, <1>2 DEF Words
<1>7. Lists(delivered[c], said[c], 0, 0)
    BY <1>1, <1>2, NothingListsNothing
<1> QED BY <1>1, <1>2, <1>3, <1>4, <1>5, <1>6, <1>7 DEF Stream

\* What leaves a connection's stream alone, or closes its reader.
Alone(c) ==
    /\ UNCHANGED <<said[c], early[c], channel[c], pipe[c], subscribed[c], pending[c], delivered[c]>>
    /\ reader'[c] = reader[c] \/ reader'[c] = "closed"

LEMMA AloneKeeps ==
    ASSUME NEW c \in Conn, Stream(c), Alone(c) PROVE Stream(c)'
<1>1. Events(c)' = Events(c)
    BY DEF Alone, Events
<1>2. \A at : Follows(c, at) => Follows(c, at)'
    BY <1>1 DEF Alone, Follows
<1>3. \A k : Handled(c, k) => Handled(c, k)'
    BY DEF Alone, Handled
<1> QED BY <1>1, <1>2, <1>3 DEF Stream, Alone

LEMMA AppendAtEnd ==
    ASSUME NEW S, NEW x \in Seq(S), NEW y \in Seq(S), NEW e \in S
    PROVE  x \o Append(y, e) = Append(x \o y, e)
<1>1. x \o Append(y, e) \in Seq(S) /\ Append(x \o y, e) \in Seq(S)
    OBVIOUS
<1>2. Len(x \o Append(y, e)) = Len(Append(x \o y, e))
    OBVIOUS
<1>3. ASSUME NEW i \in 1 .. Len(x \o Append(y, e))
      PROVE  (x \o Append(y, e))[i] = Append(x \o y, e)[i]
    OBVIOUS
<1> QED BY <1>1, <1>2, <1>3, SeqEqual

\* One event more on its way, about the next bytes of the pipe.
LEMMA EventComes ==
    ASSUME Shape, NEW c \in Conn, NEW at \in [0 .. Len(Events(c)) -> 0 .. 2 * Len(said[c])],
           Follows(c, at), NEW event \in Event, NEW m \in 0 .. 2 * Len(said[c]),
           channel' = [channel EXCEPT ![c] = Append(@, event)],
           UNCHANGED <<said[c], early[c]>>,
           IsEvent(event, said[c], at[Len(Events(c))], m),
           IsPart(said[c], m, pipe'[c]), m + Len(pipe'[c]) = 2 * Len(said[c])
    PROVE  \E new \in [0 .. Len(Events(c)') -> 0 .. 2 * Len(said[c])] :
                Follows(c, new)' /\ new[0] = at[0]
<1>0. PICK N : N = Len(Events(c))
    OBVIOUS
<1> DEFINE new == [i \in 0 .. N + 1 |-> IF i <= N THEN at[i] ELSE m]
<1>1. Events(c) \in Seq(Event) /\ Events(c)' = Append(Events(c), event)
    <2>1. early[c] \in Seq(Event) /\ channel[c] \in Seq(Event)
        BY DEF Shape
    <2>2. channel'[c] = Append(channel[c], event)
        BY DEF Shape
    <2>3. Events(c)' = early[c] \o Append(channel[c], event)
        BY <2>2 DEF Events
    <2>5. early[c] \o channel[c] \in Seq(Event)
        BY <2>1
    <2>4. early[c] \o Append(channel[c], event) = Append(early[c] \o channel[c], event)
        BY <2>1, AppendAtEnd
    <2> QED BY <2>3, <2>4, <2>5 DEF Events
<1>2. /\ N \in Nat /\ Len(Events(c)') = N + 1 /\ Events(c)'[N + 1] = event
      /\ \A i \in 1 .. N : Events(c)'[i] = Events(c)[i]
    BY <1>0, <1>1
<1>3. /\ new \in [0 .. N + 1 -> 0 .. 2 * Len(said[c])] /\ new[N + 1] = m
      /\ \A i \in 0 .. N : new[i] = at[i]
    BY <1>0, <1>2
<1> HIDE DEF new
<1>4. \A i \in 1 .. N : IsEvent(Events(c)[i], said[c], at[i - 1], at[i])
    BY <1>0 DEF Follows
<1>5. ASSUME NEW i \in 1 .. N + 1 PROVE IsEvent(Events(c)'[i], said[c], new[i - 1], new[i])
    <2>1. CASE i \in 1 .. N
        <3>1. i \in 0 .. N /\ i - 1 \in 0 .. N
            BY <1>2, <2>1
        <3> QED BY <1>2, <1>3, <1>4, <2>1, <3>1
    <2>2. CASE i = N + 1
        <3>1. i - 1 = N /\ N \in 0 .. N
            <4>1. N \in Nat
                BY <1>2
            <4> QED BY <2>2, <4>1
        <3>2. Events(c)'[i] = event /\ new[i] = m /\ new[i - 1] = at[N]
            BY <1>2, <1>3, <2>2, <3>1
        <3> QED BY <1>0, <3>2
    <2> QED BY <1>2, <2>1, <2>2
<1>6. Follows(c, new)'
    <2>1. said'[c] = said[c] /\ IsPart(said[c], new[N + 1], pipe'[c])
          /\ new[N + 1] + Len(pipe'[c]) = 2 * Len(said[c])
        BY <1>3
    <2> QED BY <1>2, <1>5, <2>1 DEF Follows
<1>7. new[0] = at[0]
    BY <1>2, <1>3
<1> QED BY <1>2, <1>3, <1>6, <1>7

LEMMA PumpStream ==
    ASSUME Shape, StreamInv, NEW c \in Conn, Pump(c) PROVE Stream(c)'
<1>1. PICK n \in DOMAIN pipe[c] :
        /\ channel' = [channel EXCEPT ![c] = Append(@, Chunk(SubSeq(pipe[c], 1, n)))]
        /\ pipe' = [pipe EXCEPT ![c] = SubSeq(@, n + 1, Len(@))]
    BY DEF Pump
<1>2. UNCHANGED <<said[c], early[c], subscribed[c], pending[c], delivered[c], reader[c]>>
    BY DEF Pump, pageVars
<1> DEFINE N == Len(Events(c))
           x == SubSeq(pipe[c], 1, n)
           y == SubSeq(pipe[c], n + 1, Len(pipe[c]))
<1>3. PICK at \in [0 .. N -> 0 .. 2 * Len(said[c])] : Follows(c, at) /\ Handled(c, at[0])
    BY DEF StreamInv, Stream
<1>4. pipe[c] \in Seq(Byte) /\ n \in 1 .. Len(pipe[c]) /\ Words(said[c]) /\ said[c] \in Seq(Nat)
    BY DEF Shape, StreamInv, Stream, Words
<1>5. /\ N \in Nat /\ at[N] \in Nat /\ IsPart(said[c], at[N], pipe[c])
      /\ at[N] + Len(pipe[c]) = 2 * Len(said[c]) /\ Len(said[c]) \in Nat /\ Len(pipe[c]) \in Nat
    <2>1. N \in Nat
        BY DEF Shape, Events
    <2>2. Len(said[c]) \in Nat /\ Len(pipe[c]) \in Nat
        BY <1>4
    <2>3. at[N] \in 0 .. 2 * Len(said[c])
        BY <1>3, <2>1
    <2>4. IsPart(said[c], at[N], pipe[c]) /\ at[N] + Len(pipe[c]) = 2 * Len(said[c])
        BY <1>3 DEF Follows
    <2> QED BY <2>1, <2>2, <2>3, <2>4
<1>6. /\ x \in Seq(Byte) /\ y \in Seq(Byte) /\ x # <<>> /\ Len(x) = n /\ Len(y) = Len(pipe[c]) - n
      /\ IsPart(said[c], at[N], x) /\ IsPart(said[c], at[N] + n, y)
    <2>1. PICK k, b, s : k = at[N] /\ b = pipe[c] /\ s = said[c]
        OBVIOUS
    <2>2. k \in Nat /\ b \in Seq(Byte) /\ s \in Seq(Nat) /\ n \in 1 .. Len(b) /\ IsPart(s, k, b)
        BY <1>4, <1>5, <2>1
    <2>3. /\ SubSeq(b, 1, n) \in Seq(Byte) /\ SubSeq(b, n + 1, Len(b)) \in Seq(Byte)
          /\ SubSeq(b, 1, n) # <<>>
          /\ Len(SubSeq(b, 1, n)) = n /\ Len(SubSeq(b, n + 1, Len(b))) = Len(b) - n
          /\ IsPart(s, k, SubSeq(b, 1, n)) /\ IsPart(s, k + n, SubSeq(b, n + 1, Len(b)))
        BY <2>2, PartsApart
    <2> QED BY <2>1, <2>3
<1> HIDE DEF x, y, N
<1>7. pipe'[c] = y
    BY <1>1 DEF Shape, y
<1>8. Chunk(x) \in Event /\ IsEvent(Chunk(x), said[c], at[N], at[N] + n)
    <2>1. Chunk(x) # Exit /\ Chunk(x)[2] = x
        BY DEF Chunk, Exit
    <2> QED BY <1>6, <2>1 DEF Event, IsEvent
<1>9. at[N] + n \in 0 .. 2 * Len(said[c]) /\ at[N] + n + Len(y) = 2 * Len(said[c])
    <2>1. PICK k, p, q : k = at[N] /\ p = Len(pipe[c]) /\ q = Len(said[c])
        OBVIOUS
    <2>2. k \in Nat /\ p \in Nat /\ q \in Nat /\ k + p = 2 * q
        BY <1>5, <2>1
    <2>3. n \in 1 .. p /\ Len(y) = p - n
        BY <1>4, <1>6, <2>1
    <2>4. k + n \in 0 .. 2 * q /\ k + n + (p - n) = 2 * q
        BY <2>2, <2>3
    <2> QED BY <2>1, <2>3, <2>4
<1>10. \E new \in [0 .. Len(Events(c)') -> 0 .. 2 * Len(said[c])] :
            Follows(c, new)' /\ new[0] = at[0]
    BY <1>1, <1>2, <1>3, <1>6, <1>7, <1>8, <1>9, EventComes DEF x, N
<1>11. \A k : Handled(c, k) => Handled(c, k)'
    BY <1>2 DEF Handled
<1> QED BY <1>2, <1>3, <1>10, <1>11 DEF Stream, StreamInv

LEMMA ReapStream ==
    ASSUME Shape, StreamInv, NEW c \in Conn, Reap(c) PROVE Stream(c)'
<1>1. channel' = [channel EXCEPT ![c] = Append(@, Exit)]
    BY DEF Reap
<1>2. UNCHANGED <<said[c], early[c], subscribed[c], pending[c], delivered[c], reader[c], pipe[c]>>
    BY DEF Reap, pageVars
<1> DEFINE N == Len(Events(c))
<1>3. PICK at \in [0 .. N -> 0 .. 2 * Len(said[c])] : Follows(c, at) /\ Handled(c, at[0])
    BY DEF StreamInv, Stream
<1>4. N \in 0 .. N /\ at[N] \in 0 .. 2 * Len(said[c])
    <2>1. N \in Nat
        BY DEF Shape, Events
    <2> QED BY <2>1, <1>3
<1>5. IsPart(said[c], at[N], pipe[c]) /\ at[N] + Len(pipe[c]) = 2 * Len(said[c])
    BY <1>3 DEF Follows
<1>6. Exit \in Event /\ IsEvent(Exit, said[c], at[N], at[N])
    BY DEF Event, IsEvent
<1>10. \E new \in [0 .. Len(Events(c)') -> 0 .. 2 * Len(said[c])] :
            Follows(c, new)' /\ new[0] = at[0]
    BY <1>1, <1>2, <1>3, <1>4, <1>5, <1>6, EventComes
<1>11. \A k : Handled(c, k) => Handled(c, k)'
    BY <1>2 DEF Handled
<1> QED BY <1>2, <1>3, <1>10, <1>11 DEF Stream, StreamInv

\* The child writes a line: two bytes more at the end.
LEMMA SayStream ==
    ASSUME Shape, StreamInv, NEW c \in Conn, Say(c) PROVE Stream(c)'
<1>1. PICK line \in {Noise, Len(said[c]) + 1} :
        /\ said' = [said EXCEPT ![c] = Append(@, line)]
        /\ pipe' = [pipe EXCEPT ![c] = @ \o Bytes(line)]
    BY DEF Say
<1>2. UNCHANGED <<early[c], channel[c], subscribed[c], pending[c], delivered[c], reader[c]>>
    BY DEF Say, pageVars
<1>3. PICK s, N : s = said[c] /\ N = Len(Events(c))
    OBVIOUS
<1>4. /\ s \in Seq(Nat) /\ Words(s) /\ Len(s) \in Nat /\ line \in Nat /\ pipe[c] \in Seq(Byte)
      /\ pending[c] \in Seq(Byte) /\ N \in Nat
    <2>1. Words(s)
        BY <1>3 DEF StreamInv, Stream
    <2>2. s \in Seq(Nat) /\ Len(s) \in Nat
        BY <2>1 DEF Words
    <2>3. line \in Nat
        BY <1>3, <2>2 DEF Noise
    <2>4. early[c] \o channel[c] \in Seq(Event)
        BY DEF Shape
    <2> QED BY <1>3, <2>1, <2>2, <2>3, <2>4 DEF Shape, Events
<1>5. /\ said'[c] = Append(s, line) /\ pipe'[c] = pipe[c] \o Bytes(line) /\ Events(c)' = Events(c)
      /\ Len(Append(s, line)) = Len(s) + 1
    BY <1>1, <1>2, <1>3, <1>4 DEF Shape, Events
<1>6. Words(Append(s, line))
    <2>1. line = Noise \/ line = Len(s) + 1
        BY <1>3
    <2>2. ASSUME NEW l \in 1 .. Len(s) + 1 PROVE Append(s, line)[l] = Noise \/ Append(s, line)[l] = l
        BY <1>4, <2>1 DEF Words
    <2> QED BY <1>4, <1>5, <2>2 DEF Words
<1>7. PICK at \in [0 .. N -> 0 .. 2 * Len(s)] : Follows(c, at) /\ Handled(c, at[0])
    BY <1>3 DEF StreamInv, Stream
<1>8. at \in [0 .. N -> 0 .. 2 * (Len(s) + 1)] /\ \A i \in 0 .. N : at[i] \in Nat
    BY <1>4, <1>7
<1>9. ASSUME NEW i \in 1 .. N PROVE IsEvent(Events(c)[i], Append(s, line), at[i - 1], at[i])
    <2>1. IsEvent(Events(c)[i], s, at[i - 1], at[i])
        BY <1>3, <1>7 DEF Follows
    <2> QED BY <1>4, <2>1, PartsStay DEF IsEvent
<1>10. /\ IsPart(Append(s, line), at[N], pipe[c] \o Bytes(line))
       /\ at[N] + Len(pipe[c] \o Bytes(line)) = 2 * (Len(s) + 1)
    <2>1. IsPart(s, at[N], pipe[c]) /\ at[N] + Len(pipe[c]) = 2 * Len(s) /\ at[N] \in Nat
          /\ Len(pipe[c]) \in Nat
        BY <1>3, <1>4, <1>7, <1>8 DEF Follows
    <2>2. IsPart(Append(s, line), at[N], pipe[c])
        BY <1>4, <2>1, PartsStay
    <2>3. Bytes(line) \in Seq(Byte) /\ Len(Bytes(line)) = 2
        BY <1>4 DEF Bytes, Byte
    <2>4. IsPart(Append(s, line), 2 * Len(s), Bytes(line))
        <3> DEFINE t == Append(s, line)
                   l == Len(s) + 1
        <3>1. t[l] = line /\ l \in Nat /\ l > 0 /\ 2 * l - 1 = 2 * Len(s) + 1 /\ 2 * l = 2 * Len(s) + 2
            BY <1>4
        <3> HIDE DEF t
        <3>2. ByteOf(t, 2 * l - 1) = <<t[l], 1>> /\ ByteOf(t, 2 * l) = <<t[l], 2>>
            BY <3>1, BytesOfLine
        <3> HIDE DEF l
        <3>3. Bytes(line)[1] = ByteOf(t, 2 * Len(s) + 1) /\ Bytes(line)[2] = ByteOf(t, 2 * Len(s) + 2)
            BY <3>1, <3>2 DEF Bytes
        <3>4. \A i \in 1 .. 2 : i = 1 \/ i = 2
            OBVIOUS
        <3> USE DEF t
        <3> QED BY <1>4, <1>5, <2>3, <3>3, <3>4 DEF IsPart
    <2>5. IsPart(Append(s, line), at[N] + Len(pipe[c]), Bytes(line))
        BY <2>1, <2>4
    <2>6. /\ IsPart(Append(s, line), at[N], pipe[c] \o Bytes(line))
          /\ Len(pipe[c] \o Bytes(line)) = Len(pipe[c]) + 2
        <3>1. PICK k, x, y, t : k = at[N] /\ x = pipe[c] /\ y = Bytes(line) /\ t = Append(s, line)
            OBVIOUS
        <3>2. /\ k \in Nat /\ x \in Seq(Byte) /\ y \in Seq(Byte)
              /\ IsPart(t, k, x) /\ IsPart(t, k + Len(x), y)
            BY <1>4, <2>1, <2>2, <2>3, <2>5, <3>1
        <3>3. IsPart(t, k, x \o y) /\ Len(x \o y) = Len(x) + Len(y)
            BY <3>2, PartsJoin
        <3> QED BY <2>3, <3>1, <3>3
    <2>7. \A k, x, y \in Nat : k + x = 2 * y => k + (x + 2) = 2 * (y + 1)
        OBVIOUS
    <2>8. at[N] + (Len(pipe[c]) + 2) = 2 * (Len(s) + 1)
        BY <1>4, <2>1, <2>7
    <2> QED BY <2>6, <2>8
<1>11. Follows(c, at)'
    BY <1>3, <1>5, <1>9, <1>10 DEF Follows
<1>12. Handled(c, at[0])'
    <2>1. ASSUME reader[c] = "open"
          PROVE  \E r \in Nat, a \in Nat :
                    /\ a <= r /\ r + Len(pending[c]) = at[0]
                    /\ IsPart(Append(s, line), r, pending[c])
                    /\ r % 2 = 0 \/ delivered[c] = <<>>
                    /\ Lists(delivered[c], Append(s, line), a, r)
        <3>1. PICK r \in Nat, a \in Nat :
                /\ a <= r /\ r + Len(pending[c]) = at[0] /\ IsPart(s, r, pending[c])
                /\ r % 2 = 0 \/ delivered[c] = <<>>
                /\ Lists(delivered[c], s, a, r)
            BY <1>3, <1>7, <2>1 DEF Handled
        <3>2. r \in 0 .. 2 * Len(s)
            BY <1>4, <3>1 DEF IsPart
        <3> QED BY <1>4, <3>1, <3>2, PartsStay, ListsStay
    <2> QED BY <1>2, <1>5, <1>7, <2>1 DEF Handled
<1>13. \E a, b \in 0 .. 2 * (Len(s) + 1) : Lists(delivered[c], Append(s, line), a, b)
    <2>1. PICK a, b \in 0 .. 2 * Len(s) : Lists(delivered[c], s, a, b)
        BY <1>3 DEF StreamInv, Stream
    <2>2. a \in Nat /\ a \in 0 .. 2 * (Len(s) + 1) /\ b \in 0 .. 2 * (Len(s) + 1)
        BY <1>4
    <2> QED BY <1>4, <2>1, <2>2, ListsStay
<1> QED BY <1>2, <1>3, <1>5, <1>6, <1>8, <1>11, <1>12, <1>13 DEF Stream

\* Before the page listens an event is only moved from the channel to those kept.
LEMMA KeepStream ==
    ASSUME Shape, StreamInv, NEW c \in Conn, Receive(c), ~subscribed[c] PROVE Stream(c)'
<1>1. PICK x, y, e : x = early[c] /\ y = channel[c] /\ e = Head(channel[c])
    OBVIOUS
<1>2. x \in Seq(Event) /\ y \in Seq(Event) /\ y # <<>>
    BY <1>1 DEF Receive, Shape
<1>3. /\ early'[c] = Append(x, e) /\ channel'[c] = Tail(y)
      /\ UNCHANGED <<said[c], pipe[c], subscribed[c], pending[c], delivered[c], reader[c]>>
    BY <1>1 DEF Receive, Shape, childVars
<1>4. Append(x, e) \o Tail(y) = x \o y
    <2>1. /\ e \in Event /\ Tail(y) \in Seq(Event) /\ Len(Tail(y)) = Len(y) - 1
          /\ \A i \in 1 .. Len(Tail(y)) : Tail(y)[i] = y[i + 1]
          /\ e = y[1] /\ Len(y) \in Nat \ {0}
        BY <1>1, <1>2, HeadTailProperties, EmptySeq
    <2> DEFINE z == Tail(y)
               u == Append(x, e)
    <2>2. /\ u \in Seq(Event) /\ Len(u) = Len(x) + 1 /\ u[Len(x) + 1] = e
          /\ \A i \in 1 .. Len(x) : u[i] = x[i]
        BY <1>2, <2>1, AppendProperties
    <2>3. z \in Seq(Event) /\ Len(z) = Len(y) - 1 /\ \A i \in 1 .. Len(z) : z[i] = y[i + 1]
        BY <2>1
    <2> HIDE DEF z, u
    <2>8. PICK k, l : k = Len(x) /\ l = Len(y)
        OBVIOUS
    <2>9. k \in Nat /\ l \in Nat /\ l > 0 /\ Len(u) = k + 1 /\ Len(z) = l - 1
        BY <1>2, <2>1, <2>2, <2>3, <2>8
    <2>10. /\ u \o z \in Seq(Event) /\ Len(u \o z) = k + l
           /\ \A i \in 1 .. k + l :
                (u \o z)[i] = IF i <= k + 1 THEN u[i] ELSE z[i - (k + 1)]
        <3>1. Len(u) + Len(z) = k + l
            BY <2>9
        <3>2. /\ u \o z \in Seq(Event) /\ Len(u \o z) = Len(u) + Len(z)
              /\ \A i \in 1 .. Len(u) + Len(z) :
                    (u \o z)[i] = IF i <= Len(u) THEN u[i] ELSE z[i - Len(u)]
            BY <2>2, <2>3, ConcatProperties
        <3>3. Len(u) = k + 1
            BY <2>9
        <3> HIDE DEF u
        <3> QED BY <3>1, <3>2, <3>3, Zenon
    <2>11. /\ x \o y \in Seq(Event) /\ Len(x \o y) = k + l
           /\ \A i \in 1 .. k + l : (x \o y)[i] = IF i <= k THEN x[i] ELSE y[i - k]
        BY <1>2, <2>8, ConcatProperties
    <2>4. u \o z \in Seq(Event) /\ x \o y \in Seq(Event)
        BY <2>10, <2>11
    <2>5. Len(u \o z) = Len(x \o y)
        BY <2>10, <2>11
    <2>6. ASSUME NEW i \in 1 .. Len(u \o z) PROVE (u \o z)[i] = (x \o y)[i]
        <3>1. i \in 1 .. k + l
            BY <2>10
        <3>2. CASE i <= k
            BY <2>2, <2>8, <2>9, <2>10, <2>11, <3>1, <3>2
        <3>3. CASE i = k + 1
            <4>1. u[i] = e /\ i - k = 1 /\ ~(i <= k) /\ i <= k + 1
                BY <2>2, <2>8, <2>9, <3>3
            <4>2. (u \o z)[i] = u[i] /\ (x \o y)[i] = y[i - k]
                BY <2>10, <2>11, <3>1, <4>1, Zenon
            <4> QED BY <2>1, <4>1, <4>2
        <3>4. CASE i > k + 1
            <4>1. /\ i - (k + 1) \in 1 .. l - 1 /\ i - (k + 1) + 1 = i - k
                  /\ ~(i <= k) /\ ~(i <= k + 1)
                BY <2>9, <3>1, <3>4
            <4>2. z[i - (k + 1)] = y[i - k]
                BY <2>3, <2>9, <4>1
            <4>3. (u \o z)[i] = z[i - (k + 1)] /\ (x \o y)[i] = y[i - k]
                BY <2>10, <2>11, <3>1, <4>1, Zenon
            <4> QED BY <4>2, <4>3
        <3>5. i <= k \/ i = k + 1 \/ i > k + 1
            BY <2>9, <3>1
        <3> QED BY <3>2, <3>3, <3>4, <3>5
    <2>7. u \o z = x \o y
        BY <2>4, <2>5, <2>6, SeqEqual
    <2> QED BY <2>7 DEF u, z
<1>5. Events(c)' = Events(c)
    BY <1>1, <1>3, <1>4 DEF Events
<1>6. \A at : Follows(c, at) => Follows(c, at)'
    BY <1>3, <1>5 DEF Follows
<1>7. \A k : Handled(c, k) => Handled(c, k)'
    BY <1>3 DEF Handled
<1> QED BY <1>3, <1>5, <1>6, <1>7 DEF Stream, StreamInv

\* The first events are handled: what is left of the numbers.
LEMMA EventsGo ==
    ASSUME NEW c \in Conn, NEW N \in Nat, NEW m \in 0 .. N,
           NEW at \in [0 .. N -> 0 .. 2 * Len(said[c])], N = Len(Events(c)), Follows(c, at),
           UNCHANGED <<said[c], pipe[c]>>,
           Len(Events(c)') = N - m,
           \A i \in 1 .. N - m : Events(c)'[i] = Events(c)[i + m]
    PROVE  \E new \in [0 .. N - m -> 0 .. 2 * Len(said[c])] : Follows(c, new)' /\ new[0] = at[m]
<1> DEFINE new == [i \in 0 .. N - m |-> at[i + m]]
<1>1. /\ new \in [0 .. N - m -> 0 .. 2 * Len(said[c])]
      /\ new[0] = at[m] /\ new[N - m] = at[N]
      /\ \A i \in 0 .. N - m : new[i] = at[i + m]
    OBVIOUS
<1> HIDE DEF new
<1>2. ASSUME NEW i \in 1 .. N - m PROVE IsEvent(Events(c)'[i], said[c], new[i - 1], new[i])
    <2>1. i + m \in 1 .. N /\ i \in 0 .. N - m /\ i - 1 \in 0 .. N - m /\ i - 1 + m = i + m - 1
        OBVIOUS
    <2>3. PICK j : j = i + m
        OBVIOUS
    <2>4. j \in 1 .. N /\ j \in 1 .. Len(Events(c))
        BY <2>1, <2>3
    <2>5. IsEvent(Events(c)[j], said[c], at[j - 1], at[j])
        BY <2>4 DEF Follows
    <2>2. IsEvent(Events(c)[i + m], said[c], at[i + m - 1], at[i + m])
        BY <2>3, <2>5
    <2> QED BY <1>1, <2>1, <2>2
<1>3. IsPart(said[c], new[N - m], pipe[c]) /\ new[N - m] + Len(pipe[c]) = 2 * Len(said[c])
    BY <1>1 DEF Follows
<1>4. Follows(c, new)'
    BY <1>2, <1>3 DEF Follows
<1> QED BY <1>1, <1>4

\* An event at the handlers: the messages it completes are delivered, what stays
\* of its last line is pending.
LEMMA HandleStream ==
    ASSUME Shape, StreamInv, NEW c \in Conn, Receive(c), subscribed[c] PROVE Stream(c)'
<1>1. PICK y, e, s, p, d : /\ y = channel[c] /\ e = Head(channel[c]) /\ s = said[c]
                           /\ p = pending[c] /\ d = delivered[c]
    OBVIOUS
<1>2. /\ y \in Seq(Event) /\ y # <<>> /\ early[c] = <<>> /\ p \in Seq(Byte) /\ d \in Seq(Nat)
    BY <1>1 DEF Receive, Shape, TypeOK
<1>3. /\ early'[c] = early[c] /\ channel'[c] = Tail(y)
      /\ UNCHANGED <<said[c], pipe[c], subscribed[c]>>
      /\ Handle(c, IF e = Exit THEN <<>> ELSE Pushed(c, e[2]), e = Exit)
      /\ reader' = IF e = Exit THEN CloseReader(c) ELSE reader
    BY <1>1 DEF Receive, Shape, childVars
<1>4. /\ e \in Event /\ Tail(y) \in Seq(Event) /\ Len(Tail(y)) = Len(y) - 1
      /\ \A i \in 1 .. Len(Tail(y)) : Tail(y)[i] = y[i + 1]
      /\ e = y[1] /\ Len(y) \in Nat /\ Len(y) >= 1
    BY <1>1, <1>2, HeadTailProperties, EmptySeq
<1>5. Events(c) = y /\ Events(c)' = Tail(y)
    <2>1. <<>> \o y = y /\ <<>> \o Tail(y) = Tail(y)
        BY <1>2, <1>4, ConcatEmptySeq
    <2> QED BY <1>1, <1>2, <1>3, <2>1 DEF Events
<1>6. Words(s) /\ s \in Seq(Nat) /\ Len(s) \in Nat
    BY <1>1 DEF StreamInv, Stream, Words
<1>7. PICK at \in [0 .. Len(y) -> 0 .. 2 * Len(s)] : Follows(c, at) /\ Handled(c, at[0])
    BY <1>1, <1>5 DEF StreamInv, Stream
<1>8. \E new \in [0 .. Len(Events(c)') -> 0 .. 2 * Len(s)] : Follows(c, new)' /\ new[0] = at[1]
    <2>1. /\ Len(y) \in Nat /\ 1 \in 0 .. Len(y) /\ at \in [0 .. Len(y) -> 0 .. 2 * Len(said[c])]
          /\ Len(y) = Len(Events(c)) /\ Len(Events(c)') = Len(y) - 1
          /\ \A i \in 1 .. Len(y) - 1 : Events(c)'[i] = Events(c)[i + 1]
        BY <1>1, <1>4, <1>5, <1>7
    <2>2. PICK k : k = Len(y)
        OBVIOUS
    <2>3. \E new \in [0 .. k - 1 -> 0 .. 2 * Len(said[c])] : Follows(c, new)' /\ new[0] = at[1]
        BY ZenonT(30), <1>3, <1>7, <2>1, <2>2, EventsGo
    <2> QED BY <1>1, <2>1, <2>2, <2>3
<1>9. IsEvent(e, s, at[0], at[1]) /\ at[0] \in 0 .. 2 * Len(s) /\ at[1] \in 0 .. 2 * Len(s)
    <2>1. /\ 1 \in 1 .. Len(y) /\ 1 - 1 = 0 /\ 1 \in 1 .. Len(Events(c))
          /\ 0 \in 0 .. Len(y) /\ 1 \in 0 .. Len(y)
        BY <1>4, <1>5
    <2>2. IsEvent(Events(c)[1], said[c], at[1 - 1], at[1])
        BY <1>7, <2>1 DEF Follows
    <2>3. IsEvent(e, s, at[0], at[1])
        BY <1>1, <1>4, <1>5, <2>1, <2>2
    <2> QED BY <1>7, <2>1, <2>3
<1>10. /\ Handled(c, at[1])'
       /\ \E a, b \in 0 .. 2 * Len(s) : Lists(delivered'[c], s, a, b)
    <2>1. CASE reader[c] # "open"
        <3>1. reader'[c] # "open"
            BY <1>3, <2>1 DEF CloseReader, Shape, TypeOK
        <3>2. delivered'[c] = d
            <4>1. delivered'[c] = d \o <<>>
                BY <1>1, <1>3, <2>1 DEF Handle, Enqueued, Shape
            <4> QED BY <1>2, <4>1, ConcatEmptySeq
        <3> QED BY <1>1, <1>3, <3>1, <3>2 DEF Handled, StreamInv, Stream
    <2>2. CASE reader[c] = "open" /\ e = Exit
        <3>1. reader'[c] # "open"
            BY <1>3, <2>2 DEF CloseReader, Shape, TypeOK
        <3>2. Completed(<<>>) = <<>>
            <4>1. <<>> \in Seq(Byte) /\ Len(<<>>) = 0
                OBVIOUS
            <4> QED BY <4>1, CompletedSteps
        <3>3. delivered'[c] = d
            <4>1. delivered'[c] = d \o <<>>
                BY <1>1, <1>3, <2>2, <3>2 DEF Handle, Enqueued, Shape
            <4> QED BY <1>2, <4>1, ConcatEmptySeq
        <3> QED BY <1>1, <1>3, <3>1, <3>3 DEF Handled, StreamInv, Stream
    <2>3. CASE reader[c] = "open" /\ e # Exit
        <3>1. PICK b : b = e[2]
            OBVIOUS
        <3>2. /\ b \in Seq(Byte) /\ b # <<>> /\ IsPart(s, at[0], b) /\ at[1] = at[0] + Len(b)
            BY <1>9, <2>3, <3>1 DEF IsEvent
        <3>3. PICK r \in Nat, a \in Nat :
                /\ a <= r /\ r + Len(p) = at[0] /\ IsPart(s, r, p)
                /\ r % 2 = 0 \/ d = <<>>
                /\ Lists(d, s, a, r)
            BY <1>1, <1>7, <2>3 DEF Handled
        <3>4. PICK q : q = p \o b
            OBVIOUS
        <3>5. /\ q \in Seq(Byte) /\ q # <<>> /\ IsPart(s, r, q) /\ r + Len(q) = at[1]
            <4>1. IsPart(s, r, p \o b) /\ Len(p \o b) = Len(p) + Len(b)
                BY <1>2, <3>2, <3>3, PartsJoin
            <4>2. q \in Seq(Byte) /\ q # <<>>
                BY <1>2, <3>2, <3>4, ConcatEqualIffEmpty
            <4>3. at[0] + Len(b) = r + Len(p) + Len(b) /\ Len(p) \in Nat /\ Len(b) \in Nat
                BY <1>2, <3>2, <3>3
            <4>4. r + (Len(p) + Len(b)) = r + Len(p) + Len(b)
                BY <4>3
            <4> QED BY <3>2, <3>4, <4>1, <4>2, <4>3, <4>4
        <3>6. delivered'[c] = d \o Completed(q) /\ pending'[c] = Partial(q)
            BY <1>1, <1>3, <2>3, <3>1, <3>4 DEF Handle, Enqueued, Pushed, Shape
        <3>7. Completed(q) \in Seq(Nat) /\ Lists(Completed(q), s, r, at[1])
            BY <1>6, <3>5, CompletedLists
        <3>8. \E x \in Nat : x <= at[1] /\ Lists(delivered'[c], s, x, at[1])
            <4>1. CASE r % 2 = 0
                <5>1. at[1] \in Nat /\ r <= at[1] /\ a <= at[1]
                    BY <1>9, <3>3, <3>5
                <5>2. Lists(d \o Completed(q), s, a, at[1])
                    BY <1>2, <1>6, <3>3, <3>7, <4>1, <5>1, ListsBoth
                <5> QED BY <3>6, <5>1, <5>2
            <4>2. CASE d = <<>>
                <5>1. d \o Completed(q) = Completed(q)
                    BY <3>7, <4>2, ConcatEmptySeq
                <5>2. r <= at[1]
                    BY <1>9, <3>5
                <5> QED BY <3>6, <3>7, <5>1, <5>2
            <4> QED BY <3>3, <4>1, <4>2
        <3>9. PICK x \in Nat : x <= at[1] /\ Lists(delivered'[c], s, x, at[1])
            BY <3>8
        <3>10. PICK z \in Nat :
                /\ z >= r /\ z + Len(Partial(q)) = r + Len(q) /\ z % 2 = 0
                /\ IsPart(s, z, Partial(q))
                /\ \A u \in Nat : Messages(s, u, z) = Messages(s, u, r + Len(q))
            <4>1. PICK k : k = r
                OBVIOUS
            <4>2. k \in Nat /\ IsPart(s, k, q)
                BY <3>3, <3>5, <4>1
            <4>3. \E z \in Nat :
                    /\ z >= k /\ z + Len(Partial(q)) = k + Len(q) /\ z % 2 = 0
                    /\ IsPart(s, z, Partial(q))
                    /\ \A u \in Nat : Messages(s, u, z) = Messages(s, u, k + Len(q))
                <5> HIDE DEF IsPart
                <5>1. Words(s) /\ k \in Nat /\ q \in Seq(Byte) /\ q # <<>> /\ IsPart(s, k, q)
                    BY <1>6, <3>5, <4>2
                <5> QED BY ZenonT(30), <5>1, PartialIsPart
            <4> QED BY <4>1, <4>3
        <3>11. \E u \in Nat : u <= z /\ Lists(delivered'[c], s, u, z)
            <4>1. CASE x <= z
                BY <3>5, <3>9, <3>10, <4>1 DEF Lists
            <4>2. CASE ~(x <= z)
                <5>1. Messages(s, x, at[1]) = Messages(s, x, z) /\ Messages(s, x, z) = {}
                      /\ Messages(s, z, z) = {}
                    <6>1. Messages(s, x, at[1]) = Messages(s, x, z)
                        BY <3>5, <3>10
                    <6>2. Messages(s, x, z) = {} /\ Messages(s, z, z) = {}
                        BY <1>6, <4>2 DEF Messages
                    <6> QED BY <6>1, <6>2
                <5> QED BY <3>9, <5>1 DEF Lists
            <4> QED BY <4>1, <4>2
        <3>12. Handled(c, at[1])'
            BY <1>1, <1>3, <3>5, <3>6, <3>10, <3>11 DEF Handled
        <3>13. x \in 0 .. 2 * Len(s)
            BY <1>6, <1>9, <3>9
        <3> QED BY <1>9, <3>9, <3>12, <3>13
    <2> QED BY <2>1, <2>2, <2>3
<1> QED BY <1>1, <1>3, <1>6, <1>8, <1>10 DEF Stream

\* What was kept early are the first bytes.
LEMMA EarlyIsPart ==
    ASSUME Shape, NEW c \in Conn, NEW at \in [0 .. Len(Events(c)) -> 0 .. 2 * Len(said[c])],
           Follows(c, at), at[0] = 0
    PROVE  /\ EarlyBytes(c) \in Seq(Byte) /\ IsPart(said[c], 0, EarlyBytes(c))
           /\ Len(EarlyBytes(c)) = at[Len(early[c])]
<1>1. PICK s, x, M : s = said[c] /\ x = early[c] /\ M = Len(early[c])
    OBVIOUS
<1>2. PICK f \in [0 .. M -> Seq(Byte)] :
        /\ EarlyBytes(c) = f[M] /\ f[0] = <<>>
        /\ \A i \in 1 .. M : f[i] = f[i - 1] \o (IF x[i] = Exit THEN <<>> ELSE x[i][2])
    BY <1>1, EarlySteps
<1>3. /\ M \in Nat /\ Len(s) \in Nat /\ x \in Seq(Event) /\ channel[c] \in Seq(Event)
      /\ \A i \in 0 .. M : at[i] \in Nat
      /\ \A i \in 1 .. M : i \in 1 .. Len(Events(c)) /\ Events(c)[i] = x[i]
    <2>1. M \in Nat /\ Len(s) \in Nat /\ x \in Seq(Event) /\ channel[c] \in Seq(Event)
        BY <1>1 DEF Shape, TypeOK
    <2>2. PICK y, L, K : y = channel[c] /\ L = Len(channel[c]) /\ K = Len(Events(c))
        OBVIOUS
    <2>3. /\ K = M + L /\ L \in Nat
          /\ \A i \in 1 .. M + L : Events(c)[i] = IF i <= M THEN x[i] ELSE y[i - M]
        <3>1. /\ Len(x \o y) = Len(x) + Len(y)
              /\ \A i \in 1 .. Len(x) + Len(y) :
                    (x \o y)[i] = IF i <= Len(x) THEN x[i] ELSE y[i - Len(x)]
            BY <1>1, <2>1, <2>2, ConcatProperties
        <3>2. Events(c) = x \o y /\ M = Len(x) /\ L = Len(y) /\ K = Len(x \o y)
            BY <1>1, <2>2 DEF Events
        <3>3. L \in Nat
            BY <2>1, <2>2
        <3> QED BY <3>1, <3>2, <3>3, Zenon
    <2>4. /\ \A i \in 0 .. M : i \in 0 .. K
          /\ \A i \in 1 .. M : i \in 1 .. K /\ i \in 1 .. M + L /\ i <= M
        BY <2>1, <2>3
    <2>5. \A i \in 0 .. K : at[i] \in Nat
        BY <1>1, <2>1, <2>2
    <2> QED BY <2>1, <2>2, <2>3, <2>4, <2>5
<1> DEFINE P == {i \in 0 .. M : IsPart(s, 0, f[i]) /\ Len(f[i]) = at[i]}
<1>4. 0 \in P
    BY <1>2, <1>3 DEF IsPart
<1>5. ASSUME NEW i \in 1 .. M, i - 1 \in P PROVE i \in P
    <2>1. /\ i \in 0 .. M /\ i - 1 \in 0 .. M /\ at[i] \in Nat /\ at[i - 1] \in Nat
          /\ IsPart(s, 0, f[i - 1]) /\ Len(f[i - 1]) = at[i - 1]
        BY <1>3, <1>5
    <2>2. IsEvent(x[i], s, at[i - 1], at[i])
        <3>1. i \in 1 .. Len(Events(c)) /\ Events(c)[i] = x[i]
            BY <1>3
        <3>2. IsEvent(Events(c)[i], said[c], at[i - 1], at[i])
            BY <3>1 DEF Follows
        <3> QED BY <1>1, <3>1, <3>2
    <2>3. PICK g, h, j, k : g = f[i - 1] /\ h = f[i] /\ j = at[i - 1] /\ k = at[i]
        OBVIOUS
    <2>4. g \in Seq(Byte) /\ j \in Nat /\ k \in Nat /\ Len(g) = j /\ IsPart(s, 0, g)
        BY <2>1, <2>3
    <2>5. CASE x[i] = Exit
        <3>1. j = k
            BY <2>2, <2>3, <2>5 DEF IsEvent
        <3>2. h = g \o <<>>
            BY <1>2, <2>3, <2>5
        <3>3. h = g
            BY <2>4, <3>2, ConcatEmptySeq
        <3> QED BY <2>1, <2>3, <2>4, <3>1, <3>3
    <2>6. CASE x[i] # Exit
        <3>1. PICK b : b = x[i][2]
            OBVIOUS
        <3>2. b \in Seq(Byte) /\ IsPart(s, j, b) /\ k = j + Len(b)
            BY <2>2, <2>3, <2>6, <3>1 DEF IsEvent
        <3>3. h = g \o b
            BY <1>2, <2>3, <2>6, <3>1
        <3>4. PICK a : a = 0
            OBVIOUS
        <3>6. a \in Nat /\ IsPart(s, a, g) /\ IsPart(s, a + Len(g), b)
            BY <2>4, <3>2, <3>4
        <3>5. IsPart(s, 0, g \o b) /\ Len(g \o b) = Len(g) + Len(b)
            BY <2>4, <3>2, <3>4, <3>6, PartsJoin
        <3> QED BY <2>1, <2>3, <2>4, <3>2, <3>3, <3>5
    <2> QED BY <2>5, <2>6
<1>6. M \in P
    <2> HIDE DEF P
    <2>1. \A i \in 0 .. M : i \in P
        BY <1>3, <1>4, <1>5, Induction
    <2> QED BY <1>3, <2>1
<1> QED BY <1>1, <1>2, <1>3, <1>6

\* The transport starts to listen: what was kept early is handled at once, and
\* its messages are dropped with no reader there.
LEMMA SpawnedStream ==
    ASSUME Shape, StreamInv, NEW c \in Conn, Spawned(c) PROVE Stream(c)'
<1>1. PICK x, y, s, B : x = early[c] /\ y = channel[c] /\ s = said[c] /\ B = EarlyBytes(c)
    OBVIOUS
<1>2. /\ x \in Seq(Event) /\ y \in Seq(Event) /\ Words(s) /\ s \in Seq(Nat) /\ Len(s) \in Nat
      /\ ~subscribed[c] /\ delivered[c] = <<>>
    <2>1. Words(s)
        BY <1>1 DEF StreamInv, Stream
    <2>2. s \in Seq(Nat) /\ Len(s) \in Nat
        BY <2>1 DEF Words
    <2>3. ~subscribed[c]
        BY DEF Spawned, Shape, Opened
    <2>4. delivered[c] = <<>>
        BY <2>3 DEF Shape
    <2> QED BY <1>1, <2>1, <2>2, <2>3, <2>4 DEF Shape
<1>3. /\ early'[c] = <<>> /\ channel'[c] = y /\ subscribed'[c] /\ delivered'[c] = <<>>
      /\ UNCHANGED <<said[c], pipe[c]>>
      /\ pending'[c] = IF ExitedEarly(c) THEN <<>> ELSE Partial(B)
    <2>1. delivered' = delivered
        BY SpawnedShape
    <2> QED BY <1>1, <1>2, <2>1 DEF Spawned, Handle, Shape, TypeOK, childVars
<1>4. PICK N, m : N = Len(Events(c)) /\ m = Len(x)
    OBVIOUS
<1>5. /\ N \in Nat /\ m \in 0 .. N /\ Len(Events(c)') = N - m
      /\ \A i \in 1 .. N - m : Events(c)'[i] = Events(c)[i + m]
    <2>1. <<>> \o y = y
        BY <1>2, ConcatEmptySeq
    <2>2. Events(c) = x \o y /\ Events(c)' = y
        BY <1>1, <1>3, <2>1 DEF Events
    <2>3. PICK L : L = Len(y)
        OBVIOUS
    <2>4. /\ L \in Nat /\ m \in Nat /\ N = m + L
          /\ \A i \in 1 .. m + L : (x \o y)[i] = IF i <= m THEN x[i] ELSE y[i - m]
        BY <1>2, <1>4, <2>2, <2>3, ConcatProperties
    <2>5. ASSUME NEW i \in 1 .. N - m PROVE y[i] = (x \o y)[i + m]
        <3>1. L \in Nat /\ m \in Nat /\ N = m + L /\ i \in 1 .. L
            BY <2>4
        <3>2. i + m \in 1 .. m + L /\ ~(i + m <= m) /\ i + m - m = i
            BY <3>1
        <3>3. (x \o y)[i + m] = y[i]
            <4>1. \A j \in 1 .. m + L : (x \o y)[j] = IF j <= m THEN x[j] ELSE y[j - m]
                BY <2>4
            <4>2. PICK j : j = i + m
                OBVIOUS
            <4>3. j \in 1 .. m + L /\ ~(j <= m)
                BY <3>2, <4>2
            <4>4. (x \o y)[j] = y[j - m]
                BY <4>1, <4>3
            <4>5. j - m = i
                BY <3>1, <4>2
            <4>6. (x \o y)[j] = y[i]
                BY <4>4, <4>5
            <4> QED BY <4>2, <4>6
        <3> QED BY <3>3
    <2>6. N \in Nat /\ m \in 0 .. N /\ L = N - m
        BY <2>4
    <2>7. \A i \in 1 .. N - m : Events(c)'[i] = Events(c)[i + m]
        BY <2>2, <2>5, Zenon
    <2>8. Len(Events(c)') = N - m
        BY <2>2, <2>3, <2>6
    <2> QED BY <2>6, <2>7, <2>8
<1>6. PICK at \in [0 .. N -> 0 .. 2 * Len(s)] : Follows(c, at) /\ at[0] = 0
    BY <1>1, <1>2, <1>4 DEF StreamInv, Stream, Handled
<1>7. \E new \in [0 .. N - m -> 0 .. 2 * Len(s)] : Follows(c, new)' /\ new[0] = at[m]
    <2>1. /\ at \in [0 .. N -> 0 .. 2 * Len(said[c])] /\ N = Len(Events(c))
          /\ Follows(c, at) /\ UNCHANGED <<said[c], pipe[c]>>
        BY <1>1, <1>3, <1>4, <1>6
    <2>2. \E new \in [0 .. N - m -> 0 .. 2 * Len(said[c])] : Follows(c, new)' /\ new[0] = at[m]
        BY <1>5, <2>1, EventsGo
    <2> QED BY <1>1, <2>2
<1>8. B \in Seq(Byte) /\ IsPart(s, 0, B) /\ Len(B) = at[m] /\ at[m] \in 0 .. 2 * Len(s)
    <2>1. B \in Seq(Byte) /\ IsPart(s, 0, B) /\ Len(B) = at[m]
        BY <1>1, <1>4, <1>6, EarlyIsPart
    <2> QED BY <1>5, <1>6, <2>1
<1>9. \E r \in Nat :
        r + Len(pending'[c]) = at[m] /\ IsPart(s, r, pending'[c])
    <2>1. CASE pending'[c] = <<>>
        <3>1. at[m] \in Nat /\ at[m] + Len(<<>>) = at[m] /\ IsPart(s, at[m], <<>>)
            BY <1>2, <1>8 DEF IsPart
        <3> QED BY <2>1, <3>1
    <2>2. CASE pending'[c] # <<>>
        <3>1. pending'[c] = Partial(B) /\ B # <<>>
            BY <1>3, <2>2 DEF Partial
        <3>2. PICK r \in Nat : r + Len(Partial(B)) = 0 + Len(B) /\ IsPart(s, r, Partial(B))
            <4>1. 0 \in Nat
                OBVIOUS
            <4> QED BY <1>2, <1>8, <3>1, <4>1, PartialIsPart
        <3>3. 0 + Len(B) = at[m]
            BY <1>8
        <3> QED BY <3>1, <3>2, <3>3
    <2> QED BY <2>1, <2>2
<1>10. Handled(c, at[m])'
    <2>1. PICK r \in Nat : r + Len(pending'[c]) = at[m] /\ IsPart(s, r, pending'[c])
        BY <1>9
    <2>2. Lists(<<>>, s, r, r) /\ r <= r
        BY <1>2, NothingListsNothing
    <2> QED BY <1>1, <1>3, <2>1, <2>2 DEF Handled
<1>11. \E a, b \in 0 .. 2 * Len(s) : Lists(<<>>, s, a, b)
    <2>1. 0 \in 0 .. 2 * Len(s) /\ Lists(<<>>, s, 0, 0)
        BY <1>2, NothingListsNothing
    <2> QED BY <2>1
<1> QED BY <1>1, <1>2, <1>3, <1>5, <1>7, <1>10, <1>11 DEF Stream

\* Every other step leaves the stream of every connection alone; a step of one
\* connection leaves those of the others alone.
LEMMA StreamStep == Shape /\ StreamInv /\ [Next]_vars => StreamInv'
<1> SUFFICES ASSUME Shape, StreamInv, [Next]_vars, NEW d \in Conn PROVE Stream(d)'
    BY DEF StreamInv
<1>0. Stream(d)
    BY DEF StreamInv
<1>1. CASE Reload \/ Quit \/ Leave \/ UNCHANGED vars
    <2>1. Alone(d)
        BY <1>1 DEF Alone, Reload, Quit, Leave, vars, pageVars, childVars
    <2> QED BY <1>0, <2>1, AloneKeeps
<1>2. ASSUME NEW c \in Conn, Connect(c) \/ Drop(c) \/ Spawn(c) \/ SpawnFailed(c) \/ Greet(c)
                             \/ Write(c) \/ Kill(c) \/ Terminate(c) \/ Forget(c)
      PROVE  Stream(d)'
    <2>1. /\ UNCHANGED <<said, early, channel, pipe, subscribed, pending, delivered>>
          /\ reader' = reader \/ reader' = CloseReader(c)
        BY <1>2 DEF Connect, Drop, Disconnect, Spawn, SpawnFailed, Greet, Write, WriteFails, Kill,
                    Terminate, Forget, pageVars, childVars
    <2>2. reader'[d] = reader[d] \/ reader'[d] = "closed"
        BY <2>1 DEF CloseReader, Shape, TypeOK
    <2>3. Alone(d)
        BY <2>1, <2>2 DEF Alone
    <2> QED BY <1>0, <2>3, AloneKeeps
<1>3. ASSUME NEW c \in Conn, Spawned(c) \/ Receive(c) \/ Pump(c) \/ Reap(c) \/ Say(c), c # d
      PROVE  Stream(d)'
    <2>1. CASE Spawned(c)
        <3>1. UNCHANGED <<said, pipe, channel>>
            BY <2>1 DEF Spawned, childVars
        <3>2. Alone(d)
            BY <1>3, <2>1, <3>1 DEF Alone, Shape, TypeOK, Spawned, Handle
        <3> QED BY <1>0, <3>2, AloneKeeps
    <2>2. CASE Receive(c)
        <3>1. UNCHANGED <<said, pipe, subscribed>> /\ channel'[d] = channel[d]
            BY <1>3, <2>2 DEF Receive, Shape, childVars
        <3>2. UNCHANGED <<early[d], pending[d], delivered[d], reader[d]>>
            BY SMTT(30), <1>3, <2>2 DEF Receive, Handle, CloseReader, Shape, TypeOK
        <3>3. Alone(d)
            BY <3>1, <3>2 DEF Alone
        <3> QED BY <1>0, <3>3, AloneKeeps
    <2>3. CASE Pump(c) \/ Reap(c) \/ Say(c)
        <3>1. Alone(d)
            BY <1>3, <2>3 DEF Alone, Shape, Pump, Reap, Say, pageVars
        <3> QED BY <1>0, <3>1, AloneKeeps
    <2> QED BY <1>3, <2>1, <2>2, <2>3
<1>4. ASSUME Spawned(d) \/ Receive(d) \/ Pump(d) \/ Reap(d) \/ Say(d) PROVE Stream(d)'
    BY <1>4, SpawnedStream, KeepStream, HandleStream, PumpStream, ReapStream, SayStream
<1> QED BY <1>1, <1>2, <1>3, <1>4 DEF Next, Page, Shell, Abandon, Closed, Die, Killed

\* The messages of a part are a run: nothing but noise lies between two that
\* follow each other, or after the last.
LEMMA ListsRun ==
    ASSUME NEW s, Words(s), NEW got \in Seq(Nat), NEW a \in Nat, NEW b \in Nat,
           Lists(got, s, a, b), NEW i \in 1 .. Len(got), NEW next \in Nat,
           \/ i < Len(got) /\ next = got[i + 1]
           \/ i = Len(got) /\ next = Len(s) + 1 /\ b = 2 * Len(s)
    PROVE  got[i] < next /\ \A l \in got[i] + 1 .. next - 1 : s[l] = Noise
<1>1. s \in Seq(Nat) /\ Len(s) \in Nat /\ Len(got) \in Nat
    BY DEF Words
<1>2. got[i] \in 1 .. Len(s) /\ 2 * got[i] - 1 > a
    BY DEF Lists, Messages
<1>3. got[i] < next /\ next <= Len(s) + 1 /\ 2 * (next - 1) <= b
    <2>1. CASE i < Len(got) /\ next = got[i + 1]
        <3>1. i + 1 \in 1 .. Len(got) /\ i < i + 1
            BY <1>1, <2>1
        <3>2. got[i] < next /\ next \in Messages(s, a, b)
            BY <2>1, <3>1 DEF Lists
        <3> QED BY <1>1, <3>2 DEF Messages
    <2>2. CASE i = Len(got) /\ next = Len(s) + 1 /\ b = 2 * Len(s)
        BY <1>1, <1>2, <2>2
    <2> QED BY <2>1, <2>2
<1>4. ASSUME NEW l \in got[i] + 1 .. next - 1, s[l] # Noise PROVE FALSE
    <2>1. l \in Nat /\ got[i] < l /\ l < next
        BY <1>2
    <2>8. l \in 1 .. Len(s) /\ 2 * l - 1 > a /\ 2 * l <= b
        <3>1. PICK g, n : g = got[i] /\ n = Len(s)
            OBVIOUS
        <3>2. g \in 1 .. n /\ n \in Nat /\ 2 * g - 1 > a /\ next <= n + 1 /\ 2 * (next - 1) <= b
            BY <1>1, <1>2, <1>3, <3>1
        <3>3. l \in Nat /\ g < l /\ l < next
            BY <2>1, <3>1
        <3>4. l \in 1 .. n /\ 2 * l - 1 > a /\ 2 * l <= b
            BY <3>2, <3>3
        <3> QED BY <3>1, <3>4
    <2>2. l \in Messages(s, a, b)
        BY <1>4, <2>8 DEF Messages
    <2>3. PICK j \in 1 .. Len(got) : got[j] = l
        BY <2>2 DEF Lists
    <2>4. ~(j < i) /\ j # i
        <3>1. j < i => got[j] < got[i]
            BY DEF Lists
        <3> QED BY <1>2, <2>1, <2>3, <3>1
    <2>5. i < Len(got) /\ next = got[i + 1] /\ i + 1 \in 1 .. Len(got)
        BY <1>1, <2>4
    <2>6. i + 1 < j => got[i + 1] < got[j]
        BY <2>5 DEF Lists
    <2>7. j = i + 1 \/ i + 1 < j
        BY <2>4
    <2> QED BY <2>1, <2>3, <2>5, <2>6, <2>7
<1> QED BY <1>3, <1>4

\* With nothing under way all bytes were handled, and none is pending.
LEMMA AllHandled ==
    ASSUME Shape, NEW c \in Conn, Stream(c), reader[c] = "open",
           early[c] \o pending[c] \o channel[c] \o pipe[c] = <<>>
    PROVE  \E a \in Nat : Lists(delivered[c], said[c], a, 2 * Len(said[c]))
<1>1. PICK w, x, y, z, s : /\ w = early[c] /\ x = pending[c] /\ y = channel[c] /\ z = pipe[c]
                           /\ s = said[c]
    OBVIOUS
<1>2. /\ w = <<>> /\ x = <<>> /\ y = <<>> /\ z = <<>>
    <2> DEFINE D == Event \cup Byte
    <2>1. w \in Seq(D) /\ x \in Seq(D) /\ y \in Seq(D) /\ z \in Seq(D)
        BY <1>1 DEF Shape
    <2> HIDE DEF D
    <2>2. w \o x \in Seq(D) /\ w \o x \o y \in Seq(D)
        BY <2>1
    <2>3. w \o x \o y = <<>> /\ z = <<>>
        BY <1>1, <2>1, <2>2, ConcatEqualIffEmpty
    <2>4. w \o x = <<>> /\ y = <<>>
        BY <2>1, <2>2, <2>3, ConcatEqualIffEmpty
    <2> QED BY <2>1, <2>3, <2>4, ConcatEqualIffEmpty
<1>3. Len(Events(c)) = 0
    BY <1>1, <1>2 DEF Events
<1>4. PICK at : Follows(c, at) /\ Handled(c, at[0])
    BY DEF Stream
<1>5. at[0] + 0 = 2 * Len(s) /\ at[0] \in Nat
    BY <1>1, <1>2, <1>3, <1>4 DEF Follows, IsPart
<1>6. PICK r \in Nat, a \in Nat : r + Len(pending[c]) = at[0] /\ Lists(delivered[c], s, a, r)
    BY <1>1, <1>4 DEF Handled
<1>7. r = 2 * Len(s)
    BY <1>1, <1>2, <1>5, <1>6
<1> QED BY <1>1, <1>6, <1>7

LEMMA StreamHasNoHoles == Shape /\ StreamInv => NoHoles
<1> SUFFICES ASSUME Shape, NEW c \in Conn, Stream(c), NEW i \in DOMAIN delivered[c]
    PROVE  LET got == delivered[c]
               After(k) == IF k < Len(got) THEN got[k + 1] ELSE Len(said[c]) + 1
               AtRest == /\ reader[c] = "open"
                         /\ early[c] \o pending[c] \o channel[c] \o pipe[c] = <<>>
           IN  /\ said[c][got[i]] = got[i]
               /\ i < Len(got) \/ AtRest =>
                    /\ got[i] < After(i)
                    /\ \A l \in got[i] + 1 .. After(i) - 1 : said[c][l] = Noise
    BY DEF NoHoles, StreamInv
<1>1. PICK s, got : s = said[c] /\ got = delivered[c]
    OBVIOUS
<1>2. /\ Words(s) /\ s \in Seq(Nat) /\ Len(s) \in Nat /\ got \in Seq(Nat) /\ i \in 1 .. Len(got)
      /\ Len(got) \in Nat
    BY <1>1 DEF Stream, Words, Shape
<1>3. PICK a \in Nat, b \in Nat : Lists(got, s, a, b)
    <2>1. PICK a, b \in 0 .. 2 * Len(s) : Lists(got, s, a, b)
        BY <1>1 DEF Stream
    <2>2. a \in Nat /\ b \in Nat
        BY <1>2
    <2> QED BY <2>1, <2>2
<1>4. s[got[i]] = got[i]
    BY <1>2, <1>3 DEF Lists, Messages, Words
<1>5. ASSUME i < Len(got)
      PROVE  got[i] < got[i + 1] /\ \A l \in got[i] + 1 .. got[i + 1] - 1 : s[l] = Noise
    <2>1. got[i + 1] \in Nat
        BY <1>2, <1>5
    <2> QED BY <1>2, <1>3, <1>5, <2>1, ListsRun
<1>6. ASSUME ~(i < Len(got)), reader[c] = "open",
             early[c] \o pending[c] \o channel[c] \o pipe[c] = <<>>
      PROVE  got[i] < Len(s) + 1 /\ \A l \in got[i] + 1 .. Len(s) + 1 - 1 : s[l] = Noise
    <2>1. PICK k \in Nat : Lists(got, s, k, 2 * Len(s))
        BY <1>1, <1>6, AllHandled
    <2>2. i = Len(got) /\ Len(s) + 1 \in Nat /\ 2 * Len(s) \in Nat
        BY <1>2, <1>6
    <2> QED BY <1>2, <2>1, <2>2, ListsRun
<1> QED BY <1>1, <1>4, <1>5, <1>6

\* However the pipe is cut into chunks, however many of them come before the page
\* listens, and wherever the stream is closed, a connection reads a run of the
\* messages its agent wrote, whole and in order (LineAssembler.push, earlyChunks,
\* enqueueLine); while it is open it has read up to the last.
THEOREM NothingIsLostBetween == Spec => []NoHoles
<1>1. Init => Shape /\ StreamInv
    BY ShapeInit, StreamInit
<1>2. Shape /\ StreamInv /\ [Next]_vars => (Shape /\ StreamInv)'
    BY ShapeStep, StreamStep
<1> QED BY <1>1, <1>2, StreamHasNoHoles, PTL DEF Spec
=============================================================================
