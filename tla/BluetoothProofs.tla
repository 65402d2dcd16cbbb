-------------------------- MODULE BluetoothProofs --------------------------
(***************************************************************************)
(* The Bluetooth driver, the remote control and the watched items for      *)
(* every set of peers, every table and queues of any length.               *)
(*                                                                         *)
(* What the driver does not know yet is in the lines that wait, so the     *)
(* invariant is about their order: greetings and partings alternate, and   *)
(* the last word agrees with the link.  Every command of the firmware is a *)
(* relation (Commanded) between the states before and after it; the lemmas *)
(* on the module, on checkOK and on each command compose to it, and it     *)
(* keeps the invariant.  BT::task reads one line (TaskRel), and waitEvent  *)
(* calls it inside a query; Told says what the rest of the firmware has    *)
(* been told of the driver's state, or will be.                            *)
(*                                                                         *)
(* A second invariant, WatchInv, is relative to the first and is about the *)
(* watches of a paired unit: which answers and packets may wait where, and *)
(* when the driver may be in data mode.                                    *)
(***************************************************************************)
EXTENDS Bluetooth, SequenceTheorems, FiniteSetTheorems, WellFoundedInduction, TLAPS

\* The line that ends a connection, the answer of a peer that may send, the lines that
\* complete a peer's greeting, and the lines of a greeting.
Parting == <<"DISCONNECT">>
Bid == <<"BRSP1">>
Answers == {Bid, <<"BRSP0">>}
Greetings == {<<"CONNECT">>} \cup Answers

\* A queue holds a parting; it holds a line of G that no parting follows; it
\* holds a greeting that no parting precedes; between the answer that ends one
\* peer's greeting and the next greeting there is a parting.
Parts(q) == \E i \in DOMAIN q : q[i] = Parting
Lasting(q, G) == \E i \in DOMAIN q : q[i] \in G /\ \A j \in DOMAIN q : j > i => q[j] # Parting
Leading(q) == \E i \in DOMAIN q : q[i] \in Greetings /\ \A j \in DOMAIN q : j < i => q[j] # Parting
Clear(q) == \A i, j \in DOMAIN q :
                (i < j /\ q[i] \in Answers /\ q[j] \in Greetings) =>
                    \E k \in DOMAIN q : i < k /\ k < j /\ q[k] = Parting

\* No parting is a greeting.
LEMMA PartingIsNone ==
  Parting \notin Greetings /\ Answers \subseteq Greetings /\ Parting \notin {Bid}
  BY DEF Parting, Greetings, Answers, Bid

\* A line at the end of a queue.
LEMMA Appended ==
  ASSUME NEW q \in Seq(Lines), NEW x \in Lines, NEW r, r = Append(q, x),
         NEW G, G = Answers \/ G = Greetings \/ G = {Bid}
  PROVE  /\ r \in Seq(Lines)
         /\ Parts(r) <=> (Parts(q) \/ x = Parting)
         /\ Lasting(r, G) <=> (x \in G \/ (Lasting(q, G) /\ x # Parting))
         /\ Leading(r) <=> (Leading(q) \/ (x \in Greetings /\ ~Parts(q)))
         /\ Clear(r) <=> (Clear(q) /\ (x \in Greetings => ~Lasting(q, Answers)))
  <1> DEFINE n == Len(q)
  <1>1. /\ n \in Nat /\ r \in Seq(Lines) /\ DOMAIN q = 1 .. n /\ DOMAIN r = 1 .. (n + 1)
        /\ r[n + 1] = x /\ \A i \in 1 .. n : r[i] = q[i]
    OBVIOUS
  <1>2. Parting \notin G /\ Answers \subseteq Greetings
    BY PartingIsNone
  <1> HIDE DEF n
  <1>3. Parts(r) <=> (Parts(q) \/ x = Parting)
    BY <1>1 DEF Parts
  <1>4. Lasting(r, G) <=> (x \in G \/ (Lasting(q, G) /\ x # Parting))
    <2>1. Lasting(r, G) => (x \in G \/ (Lasting(q, G) /\ x # Parting))
      BY <1>1 DEF Lasting
    <2>2. x \in G => Lasting(r, G)
      BY <1>1 DEF Lasting
    <2>3. Lasting(q, G) /\ x # Parting => Lasting(r, G)
      BY <1>1 DEF Lasting
    <2> QED BY <2>1, <2>2, <2>3
  <1>5. Leading(r) <=> (Leading(q) \/ (x \in Greetings /\ ~Parts(q)))
    <2>1. Leading(r) => (Leading(q) \/ (x \in Greetings /\ ~Parts(q)))
      BY <1>1 DEF Leading, Parts
    <2>2. Leading(q) => Leading(r)
      BY <1>1 DEF Leading, Parts
    <2>3. x \in Greetings /\ ~Parts(q) => Leading(r)
      BY <1>1 DEF Leading, Parts
    <2> QED BY <2>1, <2>2, <2>3
  <1>6. Clear(r) <=> (Clear(q) /\ (x \in Greetings => ~Lasting(q, Answers)))
    <2>1. Clear(r) => Clear(q)
      BY <1>1 DEF Clear
    <2>2. Clear(r) /\ x \in Greetings => ~Lasting(q, Answers)
      BY <1>1 DEF Clear, Lasting
    <2>3. ASSUME Clear(q), x \in Greetings => ~Lasting(q, Answers),
                 NEW i \in 1 .. n + 1, NEW j \in 1 .. n + 1, i < j, r[i] \in Answers, r[j] \in Greetings
          PROVE \E k \in 1 .. n + 1 : i < k /\ k < j /\ r[k] = Parting
      <3>1. i \in 1 .. n BY <2>3, <1>1
      <3>2. CASE j = n + 1
        <4>1. ~Lasting(q, Answers) /\ q[i] \in Answers BY <3>2, <2>3, <1>1, <3>1
        <4>2. PICK k \in 1 .. n : k > i /\ q[k] = Parting BY <4>1, <3>1, <1>1 DEF Lasting
        <4> QED BY <4>2, <1>1, <3>2
      <3>3. CASE j # n + 1
        <4>1. j \in 1 .. n /\ q[i] \in Answers /\ q[j] \in Greetings BY <3>3, <2>3, <1>1, <3>1
        <4>2. PICK k \in 1 .. n : i < k /\ k < j /\ q[k] = Parting BY <4>1, <3>1, <2>3, <1>1 DEF Clear
        <4> QED BY <4>2, <1>1
      <3> QED BY <3>2, <3>3
    <2>4. Clear(q) /\ (x \in Greetings => ~Lasting(q, Answers)) => Clear(r)
      BY <2>3, <1>1 DEF Clear
    <2> QED BY <2>1, <2>2, <2>4
  <1> QED BY <1>1, <1>3, <1>4, <1>5, <1>6

\* What taking the lines gone from the head of q, which leaves r, does to the order.
Took(q, r, gone) ==
    /\ r \in Seq(Lines)
    /\ Parts(r) => Parts(q)
    /\ Parts(q) => (Parts(r) \/ Parting \in gone)
    /\ \A G \in {Answers, Greetings, {Bid}} :
         /\ Lasting(r, G) => Lasting(q, G)
         /\ Lasting(q, G) => (Lasting(r, G) \/ (gone \cap G # {} /\ ~Parts(r)))
    /\ Leading(r) => (Leading(q) \/ Parting \in gone)
    /\ Clear(q) => Clear(r)

\* Taking any number of lines from the head.
LEMMA Taken ==
  ASSUME NEW q \in Seq(Lines), NEW n \in 0 .. Len(q)
  PROVE  Took(q, SubSeq(q, n + 1, Len(q)), {q[i] : i \in 1 .. n})
  <1> DEFINE r == SubSeq(q, n + 1, Len(q))
             gone == {q[i] : i \in 1 .. n}
  <1> DEFINE m == Len(q) - n
  <1>1. /\ m \in Nat /\ n \in Nat /\ r \in Seq(Lines) /\ DOMAIN q = 1 .. (m + n) /\ DOMAIN r = 1 .. m
        /\ \A i \in 1 .. m : r[i] = q[i + n]
    OBVIOUS
  <1>2. \A i \in 1 .. m : i + n \in 1 .. (m + n)
    BY <1>1
  <1>3. \A i \in 1 .. (m + n) : i \in 1 .. n \/ (i - n \in 1 .. m /\ r[i - n] = q[i])
    BY <1>1
  <1>4. \A i \in 1 .. n : q[i] \in gone
    OBVIOUS
  <1> HIDE DEF m, r, gone
  <1>5. Parts(r) => Parts(q)
    BY <1>1, <1>2 DEF Parts
  <1>6. Parts(q) => (Parts(r) \/ Parting \in gone)
    BY <1>1, <1>3, <1>4 DEF Parts
  <1>7. ASSUME NEW G, Lasting(r, G) PROVE Lasting(q, G)
    <2>1. PICK i \in 1 .. m : r[i] \in G /\ \A j \in 1 .. m : j > i => r[j] # Parting
      BY <1>7, <1>1 DEF Lasting
    <2>2. ASSUME NEW j \in 1 .. (m + n), j > i + n PROVE q[j] # Parting
      <3>1. j - n \in 1 .. m /\ r[j - n] = q[j] BY <2>2, <1>1, <1>3
      <3>2. j - n > i BY <2>2, <1>1
      <3> QED BY <3>1, <3>2, <2>1
    <2> QED BY <2>1, <2>2, <1>1, <1>2 DEF Lasting
  <1>8. ASSUME NEW G, Lasting(q, G) PROVE Lasting(r, G) \/ (gone \cap G # {} /\ ~Parts(r))
    <2>1. PICK i \in 1 .. (m + n) : q[i] \in G /\ \A j \in 1 .. (m + n) : j > i => q[j] # Parting
      BY <1>8, <1>1 DEF Lasting
    <2>2. CASE i \in 1 .. n
      BY <2>1, <2>2, <1>1, <1>2, <1>4 DEF Parts
    <2>3. CASE i - n \in 1 .. m /\ r[i - n] = q[i]
      <3>1. \A j \in 1 .. m : j > i - n => r[j] # Parting
        BY <2>1, <2>3, <1>1, <1>2
      <3> QED BY <3>1, <2>1, <2>3, <1>1 DEF Lasting
    <2> QED BY <2>2, <2>3, <1>3
  <1>9. ASSUME Leading(r) PROVE Leading(q) \/ Parting \in gone
    <2>1. PICK i \in 1 .. m : r[i] \in Greetings /\ \A j \in 1 .. m : j < i => r[j] # Parting
      BY <1>9, <1>1 DEF Leading
    <2>2. ASSUME NEW j \in 1 .. (m + n), j < i + n PROVE q[j] # Parting \/ Parting \in gone
      <3>1. CASE j \in 1 .. n BY <3>1, <1>4
      <3>2. CASE j - n \in 1 .. m /\ r[j - n] = q[j]
        <4>1. j - n < i BY <2>2, <1>1
        <4> QED BY <3>2, <4>1, <2>1
      <3> QED BY <3>1, <3>2, <1>3
    <2> QED BY <2>1, <2>2, <1>1, <1>2 DEF Leading
  <1>10. ASSUME Clear(q) PROVE Clear(r)
    <2> SUFFICES ASSUME NEW i \in DOMAIN r, NEW j \in DOMAIN r, i < j, r[i] \in Answers,
                        r[j] \in Greetings
                 PROVE \E k \in DOMAIN r : i < k /\ k < j /\ r[k] = Parting
      BY DEF Clear
    <2>0. i \in 1 .. m /\ j \in 1 .. m /\ i \in Nat /\ j \in Nat
      BY <1>1
    <2>1. i + n \in DOMAIN q /\ j + n \in DOMAIN q /\ i + n < j + n
      BY <2>0, <1>1, <1>2
    <2>2. q[i + n] \in Answers /\ q[j + n] \in Greetings
      BY <1>1
    <2>3. PICK k \in DOMAIN q : i + n < k /\ k < j + n /\ q[k] = Parting
      BY <2>1, <2>2, <1>10 DEF Clear
    <2>4. k - n \in 1 .. m /\ r[k - n] = q[k]
      BY <2>3, <1>1, <1>3
    <2>5. i < k - n /\ k - n < j
      BY <2>3, <1>1
    <2> QED BY <2>3, <2>4, <2>5, <1>1
  <1>11. Took(q, r, gone)
    BY <1>1, <1>5, <1>6, <1>7, <1>8, <1>9, <1>10 DEF Took
  <1> QED BY <1>11 DEF r, gone

\* Taking one line, exactly.
LEMMA TailOf ==
  ASSUME NEW q \in Seq(Lines), q # <<>>, NEW r, r = Tail(q), NEW x, x = Head(q),
         NEW G, G = Answers \/ G = Greetings \/ G = {Bid}
  PROVE  /\ r \in Seq(Lines) /\ x \in Lines
         /\ Parts(q) <=> (x = Parting \/ Parts(r))
         /\ Lasting(q, G) <=> (Lasting(r, G) \/ (x \in G /\ ~Parts(r)))
         /\ Leading(q) <=> (x \in Greetings \/ (x # Parting /\ Leading(r)))
         /\ Clear(q) <=> (Clear(r) /\ (x \in Answers => ~Leading(r)))
  <1> DEFINE m == Len(r)
  <1>1. /\ m \in Nat /\ r \in Seq(Lines) /\ DOMAIN r = 1 .. m /\ DOMAIN q = 1 .. (m + 1) /\ q[1] = x
        /\ x \in Lines /\ \A i \in 1 .. m : r[i] = q[i + 1]
    OBVIOUS
  <1>2. \A i \in 1 .. (m + 1) : i = 1 \/ (i - 1 \in 1 .. m /\ r[i - 1] = q[i])
    BY <1>1
  <1>3. \A i \in 1 .. m : i + 1 \in 1 .. (m + 1)
    BY <1>1
  <1>4. 1 \in 1 .. (m + 1) /\ Parting \notin Greetings /\ Parting \notin G /\ Answers \subseteq Greetings
    BY <1>1, PartingIsNone
  <1> HIDE DEF m
  <1>5. Parts(q) <=> (x = Parting \/ Parts(r))
    BY <1>1, <1>2, <1>3, <1>4, ZenonT(60) DEF Parts
  <1>6. ASSUME Lasting(q, G) PROVE Lasting(r, G) \/ (x \in G /\ ~Parts(r))
    <2>1. PICK i \in 1 .. (m + 1) : q[i] \in G /\ \A j \in 1 .. (m + 1) : j > i => q[j] # Parting
      BY <1>6, <1>1 DEF Lasting
    <2>2. CASE i = 1
      <3>1. \A j \in 1 .. m : j + 1 > 1 /\ r[j] # Parting
        BY <2>1, <2>2, <1>1, <1>3
      <3> QED BY <3>1, <2>1, <2>2, <1>1 DEF Parts
    <2>3. CASE i - 1 \in 1 .. m /\ r[i - 1] = q[i]
      <3>1. \A j \in 1 .. m : j > i - 1 => r[j] # Parting
        BY <2>1, <2>3, <1>1, <1>3
      <3> QED BY <3>1, <2>1, <2>3, <1>1 DEF Lasting
    <2> QED BY <2>2, <2>3, <1>2
  <1>7. ASSUME Lasting(r, G) PROVE Lasting(q, G)
    <2>1. PICK i \in 1 .. m : r[i] \in G /\ \A j \in 1 .. m : j > i => r[j] # Parting
      BY <1>7, <1>1 DEF Lasting
    <2>2. \A j \in 1 .. (m + 1) : j > i + 1 => q[j] # Parting
      BY <2>1, <1>1, <1>2
    <2> QED BY <2>1, <2>2, <1>1, <1>3 DEF Lasting
  <1>8. ASSUME x \in G, ~Parts(r) PROVE Lasting(q, G)
    <2>1. ASSUME NEW j \in 1 .. (m + 1), j > 1 PROVE q[j] # Parting
      <3>1. j - 1 \in 1 .. m /\ r[j - 1] = q[j] BY <2>1, <1>1, <1>2
      <3> QED BY <3>1, <1>8, <1>1 DEF Parts
    <2> QED BY <2>1, <1>8, <1>1, <1>4 DEF Lasting
  <1>9. ASSUME Leading(q) PROVE x \in Greetings \/ (x # Parting /\ Leading(r))
    <2>1. PICK i \in 1 .. (m + 1) : q[i] \in Greetings /\ \A j \in 1 .. (m + 1) : j < i => q[j] # Parting
      BY <1>9, <1>1 DEF Leading
    <2>2. CASE i = 1
      BY <2>1, <2>2, <1>1
    <2>3. CASE i - 1 \in 1 .. m /\ r[i - 1] = q[i]
      <3>1. \A j \in 1 .. m : j < i - 1 => r[j] # Parting
        BY <2>1, <2>3, <1>1, <1>3
      <3>2. x # Parting
        BY <2>1, <2>3, <1>1, <1>4
      <3> QED BY <3>1, <3>2, <2>1, <2>3, <1>1 DEF Leading
    <2> QED BY <2>2, <2>3, <1>2
  <1>10. ASSUME x \in Greetings PROVE Leading(q)
    BY <1>10, <1>1, <1>4 DEF Leading
  <1>11. ASSUME x # Parting, Leading(r) PROVE Leading(q)
    <2>1. PICK i \in 1 .. m : r[i] \in Greetings /\ \A j \in 1 .. m : j < i => r[j] # Parting
      BY <1>11, <1>1 DEF Leading
    <2>2. \A j \in 1 .. (m + 1) : j < i + 1 => q[j] # Parting
      BY <2>1, <1>1, <1>2, <1>11, SMTT(30)
    <2> QED BY <2>1, <2>2, <1>1, <1>3 DEF Leading
  <1>12. ASSUME Clear(q) PROVE Clear(r)
    <2> SUFFICES ASSUME NEW i \in DOMAIN r, NEW j \in DOMAIN r, i < j, r[i] \in Answers,
                        r[j] \in Greetings
                 PROVE \E k \in DOMAIN r : i < k /\ k < j /\ r[k] = Parting
      BY DEF Clear
    <2>1. i + 1 \in DOMAIN q /\ j + 1 \in DOMAIN q /\ i + 1 < j + 1
      BY <1>1, <1>3
    <2>2. q[i + 1] \in Answers /\ q[j + 1] \in Greetings
      BY <1>1
    <2>3. PICK k \in DOMAIN q : i + 1 < k /\ k < j + 1 /\ q[k] = Parting
      BY <2>1, <2>2, <1>12 DEF Clear
    <2>4. k - 1 \in 1 .. m /\ r[k - 1] = q[k]
      BY <2>3, <1>1, <1>2
    <2>5. i < k - 1 /\ k - 1 < j
      BY <2>3, <1>1
    <2> QED BY <2>3, <2>4, <2>5, <1>1
  <1>13. ASSUME Clear(q), x \in Answers PROVE ~Leading(r)
    <2> SUFFICES ASSUME NEW i \in 1 .. m, r[i] \in Greetings, \A j \in 1 .. m : j < i => r[j] # Parting
                 PROVE FALSE
      BY <1>1 DEF Leading
    <2>1. 1 \in DOMAIN q /\ i + 1 \in DOMAIN q /\ 1 < i + 1 /\ q[1] \in Answers
            /\ q[i + 1] \in Greetings
      BY <1>13, <1>1, <1>3, <1>4
    <2>2. PICK k \in DOMAIN q : 1 < k /\ k < i + 1 /\ q[k] = Parting
      BY <1>13, <2>1 DEF Clear
    <2>3. k - 1 \in 1 .. m /\ r[k - 1] = q[k] /\ k - 1 < i
      BY <2>2, <1>1, <1>2
    <2> QED BY <2>2, <2>3
  <1>14. ASSUME Clear(r), x \in Answers => ~Leading(r) PROVE Clear(q)
    <2> SUFFICES ASSUME NEW i \in DOMAIN q, NEW j \in DOMAIN q, i < j,
                        q[i] \in Answers, q[j] \in Greetings
                 PROVE \E k \in DOMAIN q : i < k /\ k < j /\ q[k] = Parting
      BY DEF Clear
    <2>1. j - 1 \in 1 .. m /\ r[j - 1] = q[j]
      BY <1>1, <1>2
    <2>2. CASE i = 1
      <3>1. PICK k \in 1 .. m : k < j - 1 /\ r[k] = Parting
        BY <2>1, <2>2, <1>1, <1>14 DEF Leading
      <3> QED BY <3>1, <2>2, <1>1, <1>3
    <2>3. CASE i - 1 \in 1 .. m /\ r[i - 1] = q[i]
      <3>0. i - 1 \in DOMAIN r /\ j - 1 \in DOMAIN r /\ i - 1 < j - 1 /\ r[i - 1] \in Answers
              /\ r[j - 1] \in Greetings
        BY <2>1, <2>3, <1>1
      <3>1. PICK k \in DOMAIN r : i - 1 < k /\ k < j - 1 /\ r[k] = Parting
        BY <3>0, <1>14 DEF Clear
      <3>2. k + 1 \in DOMAIN q /\ q[k + 1] = Parting /\ i < k + 1 /\ k + 1 < j
        BY <3>1, <2>1, <2>3, <1>1, <1>3
      <3> QED BY <3>2
    <2> QED BY <2>2, <2>3, <1>1, <1>2
  <1> QED BY <1>1, <1>5, <1>6, <1>7, <1>8, <1>9, <1>10, <1>11, <1>12, <1>13, <1>14

-----------------------------------------------------------------------------

\* The packets of a peer, the answers to commands, and the line that begins a greeting.
Packets == {<<"DATA", a, i>> : a \in Asks, i \in Ids}
Replies == {<<"OK">>, <<"ERROR">>, <<"VERSION">>}
Call == <<"CONNECT">>
Marks == {Parting, Bid}

\* A queue holds a parting or a bid; it holds a packet that neither precedes; between a
\* parting and a packet there is a bid.
Marked(q) == \E i \in DOMAIN q : q[i] \in Marks
Stray(q) == \E i \in DOMAIN q : q[i] \in Packets /\ \A j \in DOMAIN q : j < i => q[j] \notin Marks
Bidden(q) == \A i, j \in DOMAIN q :
                (i < j /\ q[i] = Parting /\ q[j] \in Packets) =>
                    \E k \in DOMAIN q : i < k /\ k < j /\ q[k] = Bid

\* A queue holds only answers to commands; its first other line is a peer's answer; it
\* ends with a call that waits for one; every other call in it has its answer.
Mute(q) == \A i \in DOMAIN q : q[i] \in Replies
Met(q) == \E i \in DOMAIN q : q[i] \in Answers /\ \A j \in DOMAIN q : j < i => q[j] \in Replies
Hanging(q) == \E i \in DOMAIN q : q[i] = Call /\ \A j \in DOMAIN q : j > i => q[j] \in Replies
Tied(q) == \A i \in DOMAIN q : q[i] = Call =>
              \/ \A j \in DOMAIN q : j > i => q[j] \in Replies
              \/ \E k \in DOMAIN q : /\ k > i /\ q[k] \in Answers
                                     /\ \A j \in DOMAIN q : (i < j /\ j < k) => q[j] \in Replies

\* The kinds of lines are different.
LEMMA Kinds ==
  /\ Bid \in Answers /\ Bid # Parting /\ Call \in Greetings /\ Call \notin Answers /\ Call # Parting
  /\ Call # Bid /\ Marks \cap Packets = {} /\ Marks \cap Replies = {} /\ Greetings \cap Packets = {}
  /\ Greetings \cap Replies = {} /\ Packets \cap Replies = {}
  /\ \A x : x \in Marks <=> (x = Parting \/ x = Bid)
  /\ \A x : x \in Greetings <=> (x = Call \/ x \in Answers)
  /\ \A x : x \in {Bid} <=> x = Bid
  /\ Packets \subseteq Lines /\ Replies \subseteq Lines /\ Bid \in Lines /\ Call \in Lines
  BY DEF Bid, Packets, Replies, Call, Marks, Parting, Greetings, Answers, Lines

\* A line at the end of a queue.
LEMMA AppendedTo ==
  ASSUME NEW q \in Seq(Lines), NEW x \in Lines, NEW r, r = Append(q, x)
  PROVE  /\ Marked(r) <=> (Marked(q) \/ x \in Marks)
         /\ Stray(r) <=> (Stray(q) \/ (x \in Packets /\ ~Marked(q)))
         /\ (Bidden(q) /\ (x \in Packets => (Lasting(q, {Bid}) \/ ~Parts(q)))) => Bidden(r)
         /\ Mute(r) <=> (Mute(q) /\ x \in Replies)
         /\ Met(r) <=> (Met(q) \/ (Mute(q) /\ x \in Answers))
         /\ Hanging(r) <=> ((Hanging(q) /\ x \in Replies) \/ x = Call)
         /\ (Tied(q) /\ (Hanging(q) => (x \in Replies \/ x \in Answers))) => Tied(r)
  <1> DEFINE n == Len(q)
  <1>1. /\ n \in Nat /\ r \in Seq(Lines) /\ DOMAIN q = 1 .. n /\ DOMAIN r = 1 .. (n + 1)
        /\ r[n + 1] = x /\ \A i \in 1 .. n : r[i] = q[i]
    OBVIOUS
  <1>2. \A i \in 1 .. (n + 1) : i = n + 1 \/ i \in 1 .. n BY <1>1
  <1>3. n + 1 \in 1 .. (n + 1) /\ \A i \in 1 .. n : i \in 1 .. (n + 1) /\ i < n + 1 BY <1>1
  <1> HIDE DEF n
  <1>4. Marked(r) <=> (Marked(q) \/ x \in Marks)
    BY <1>1, <1>2, <1>3 DEF Marked
  <1>5. Stray(r) => (Stray(q) \/ (x \in Packets /\ ~Marked(q)))
    BY <1>1, <1>3 DEF Stray, Marked
  <1>6. (Stray(q) => Stray(r)) /\ (x \in Packets /\ ~Marked(q) => Stray(r))
    <2>1. Stray(q) => Stray(r) BY <1>1, <1>3 DEF Stray
    <2>2. x \in Packets /\ ~Marked(q) => Stray(r) BY <1>1, <1>3 DEF Stray, Marked
    <2> QED BY <2>1, <2>2
  <1>7. ASSUME Bidden(q), x \in Packets => (Lasting(q, {Bid}) \/ ~Parts(q)),
               NEW i \in 1 .. (n + 1), NEW j \in 1 .. (n + 1), i < j, r[i] = Parting, r[j] \in Packets
        PROVE  \E k \in 1 .. (n + 1) : i < k /\ k < j /\ r[k] = Bid
    <2>1. i \in 1 .. n /\ q[i] = Parting BY <1>1, <1>7
    <2>2. CASE j = n + 1
      <3>1. Parts(q) BY <2>1, <1>1 DEF Parts
      <3>2. Lasting(q, {Bid}) BY <3>1, <2>2, <1>1, <1>7
      <3>3. PICK k \in 1 .. n : q[k] = Bid /\ \A l \in 1 .. n : l > k => q[l] # Parting
        BY <3>2, <1>1 DEF Lasting
      <3>4. k # i BY <3>3, <2>1, Kinds
      <3>5. i < k BY <3>3, <3>4, <2>1
      <3> QED BY <3>3, <3>5, <2>2, <1>1, <1>3
    <2>3. CASE j \in 1 .. n
      <3>1. PICK k \in 1 .. n : i < k /\ k < j /\ q[k] = Bid
        BY <2>1, <2>3, <1>1, <1>7 DEF Bidden
      <3> QED BY <3>1, <1>1, <1>3
    <2> QED BY <2>2, <2>3, <1>2
  <1>8. (Bidden(q) /\ (x \in Packets => (Lasting(q, {Bid}) \/ ~Parts(q)))) => Bidden(r)
    BY <1>1, <1>7 DEF Bidden
  <1>9. Mute(r) <=> (Mute(q) /\ x \in Replies)
    BY <1>1, <1>2, <1>3 DEF Mute
  <1>10. Met(r) => (Met(q) \/ (Mute(q) /\ x \in Answers))
    BY <1>1, <1>3 DEF Met, Mute
  <1>11. (Met(q) => Met(r)) /\ (Mute(q) /\ x \in Answers => Met(r))
    <2>1. Met(q) => Met(r) BY <1>1, <1>3 DEF Met
    <2>2. Mute(q) /\ x \in Answers => Met(r) BY <1>1, <1>3 DEF Met, Mute
    <2> QED BY <2>1, <2>2
  <1>12. Hanging(r) => ((Hanging(q) /\ x \in Replies) \/ x = Call)
    BY <1>1, <1>3 DEF Hanging
  <1>13. (Hanging(q) /\ x \in Replies => Hanging(r)) /\ (x = Call => Hanging(r))
    <2>1. Hanging(q) /\ x \in Replies => Hanging(r) BY <1>1, <1>2, <1>3 DEF Hanging
    <2>2. x = Call => Hanging(r) BY <1>1, <1>2, <1>3 DEF Hanging
    <2> QED BY <2>1, <2>2
  <1>14. ASSUME Tied(q), Hanging(q) => (x \in Replies \/ x \in Answers),
                NEW i \in 1 .. (n + 1), r[i] = Call
         PROVE  \/ \A j \in 1 .. (n + 1) : j > i => r[j] \in Replies
                \/ \E k \in 1 .. (n + 1) :
                     /\ k > i /\ r[k] \in Answers
                     /\ \A j \in 1 .. (n + 1) : (i < j /\ j < k) => r[j] \in Replies
    <2>1. CASE i = n + 1 BY <2>1, <1>1
    <2>2. CASE i \in 1 .. n
      <3>1. q[i] = Call BY <2>2, <1>1, <1>14
      <3>2. CASE \A j \in 1 .. n : j > i => q[j] \in Replies
        <4>1. Hanging(q) BY <3>1, <3>2, <2>2, <1>1 DEF Hanging
        <4>2. CASE x \in Replies BY <4>2, <3>2, <1>1, <1>2
        <4>3. CASE x \in Answers
          <5>1. n + 1 > i /\ r[n + 1] \in Answers BY <4>3, <2>2, <1>1
          <5>2. \A j \in 1 .. (n + 1) : (i < j /\ j < n + 1) => r[j] \in Replies BY <3>2, <1>1
          <5> QED BY <5>1, <5>2, <1>3
        <4> QED BY <4>1, <4>2, <4>3, <1>14
      <3>3. CASE \E k \in 1 .. n : /\ k > i /\ q[k] \in Answers
                                   /\ \A j \in 1 .. n : (i < j /\ j < k) => q[j] \in Replies
        <4>1. PICK k \in 1 .. n : /\ k > i /\ q[k] \in Answers
                                  /\ \A j \in 1 .. n : (i < j /\ j < k) => q[j] \in Replies
          BY <3>3
        <4>2. r[k] \in Answers /\ \A j \in 1 .. (n + 1) : (i < j /\ j < k) => r[j] \in Replies
          BY <4>1, <1>1
        <4> QED BY <4>1, <4>2, <1>3
      <3> QED BY <3>1, <3>2, <3>3, <2>2, <1>1, <1>14 DEF Tied
    <2> QED BY <2>1, <2>2, <1>2
  <1>15. (Tied(q) /\ (Hanging(q) => (x \in Replies \/ x \in Answers))) => Tied(r)
    BY <1>1, <1>14 DEF Tied
  <1> QED BY <1>4, <1>5, <1>6, <1>8, <1>9, <1>10, <1>11, <1>12, <1>13, <1>15

\* Taking one line from the head.
LEMMA TailLeft ==
  ASSUME NEW q \in Seq(Lines), q # <<>>, NEW r, r = Tail(q), NEW x, x = Head(q)
  PROVE  /\ Marked(q) <=> (x \in Marks \/ Marked(r))
         /\ Stray(q) <=> (x \in Packets \/ (x \notin Marks /\ Stray(r)))
         /\ Bidden(q) => (Bidden(r) /\ (x = Parting => ~Stray(r)))
         /\ Mute(q) <=> (x \in Replies /\ Mute(r))
         /\ Met(q) <=> (x \in Answers \/ (x \in Replies /\ Met(r)))
         /\ Hanging(q) <=> (Hanging(r) \/ (x = Call /\ Mute(r)))
         /\ Tied(q) => (Tied(r) /\ (x = Call => (Met(r) \/ Mute(r))))
  <1> DEFINE m == Len(r)
  <1>1. /\ m \in Nat /\ r \in Seq(Lines) /\ DOMAIN r = 1 .. m /\ DOMAIN q = 1 .. (m + 1) /\ q[1] = x
        /\ x \in Lines /\ \A i \in 1 .. m : r[i] = q[i + 1]
    OBVIOUS
  <1>2. \A i \in 1 .. (m + 1) : i = 1 \/ (i - 1 \in 1 .. m /\ r[i - 1] = q[i])
    BY <1>1
  <1>3. 1 \in 1 .. (m + 1) /\ \A i \in 1 .. m : i + 1 \in 1 .. (m + 1) /\ 1 < i + 1
    BY <1>1
  <1> HIDE DEF m
  <1>4. Marked(q) <=> (x \in Marks \/ Marked(r))
    <2>1. Marked(q) => (x \in Marks \/ Marked(r)) BY <1>1, <1>2 DEF Marked
    <2>2. Marked(r) => Marked(q) BY <1>1, <1>3 DEF Marked
    <2>3. x \in Marks => Marked(q) BY <1>1, <1>3 DEF Marked
    <2> QED BY <2>1, <2>2, <2>3
  <1>5. ASSUME Stray(q) PROVE x \in Packets \/ (x \notin Marks /\ Stray(r))
    <2>1. PICK i \in 1 .. (m + 1) : q[i] \in Packets /\ \A j \in 1 .. (m + 1) : j < i => q[j] \notin Marks
      BY <1>1, <1>5 DEF Stray
    <2>2. CASE i = 1 BY <2>1, <2>2, <1>1
    <2>3. CASE i - 1 \in 1 .. m /\ r[i - 1] = q[i]
      <3>1. \A j \in 1 .. m : j < i - 1 => r[j] \notin Marks BY <2>1, <2>3, <1>1, <1>3
      <3>2. x \notin Marks BY <2>1, <2>3, <1>1, <1>3
      <3> QED BY <3>1, <3>2, <2>1, <2>3, <1>1 DEF Stray
    <2> QED BY <2>2, <2>3, <1>2
  <1>6. x \in Packets => Stray(q) BY <1>1, <1>3 DEF Stray
  <1>7. ASSUME x \notin Marks, Stray(r) PROVE Stray(q)
    <2>1. PICK i \in 1 .. m : r[i] \in Packets /\ \A j \in 1 .. m : j < i => r[j] \notin Marks
      BY <1>1, <1>7 DEF Stray
    <2>2. \A j \in 1 .. (m + 1) : j < i + 1 => q[j] \notin Marks
      BY <2>1, <1>1, <1>2, <1>7
    <2> QED BY <2>1, <2>2, <1>1, <1>3 DEF Stray
  <1>8. ASSUME Bidden(q) PROVE Bidden(r)
    <2> SUFFICES ASSUME NEW i \in DOMAIN r, NEW j \in DOMAIN r, i < j, r[i] = Parting,
                        r[j] \in Packets
                 PROVE \E k \in DOMAIN r : i < k /\ k < j /\ r[k] = Bid
      BY DEF Bidden
    <2>1. i + 1 \in DOMAIN q /\ j + 1 \in DOMAIN q /\ i + 1 < j + 1 BY <1>1, <1>3
    <2>2. q[i + 1] = Parting /\ q[j + 1] \in Packets BY <1>1
    <2>3. PICK k \in DOMAIN q : i + 1 < k /\ k < j + 1 /\ q[k] = Bid
      BY <2>1, <2>2, <1>8 DEF Bidden
    <2>4. k - 1 \in 1 .. m /\ r[k - 1] = q[k] BY <2>3, <1>1, <1>2
    <2>5. i < k - 1 /\ k - 1 < j BY <2>3, <1>1
    <2> QED BY <2>3, <2>4, <2>5, <1>1
  <1>9. ASSUME Bidden(q), x = Parting PROVE ~Stray(r)
    <2> SUFFICES ASSUME NEW i \in 1 .. m, r[i] \in Packets, \A j \in 1 .. m : j < i => r[j] \notin Marks
                 PROVE FALSE
      BY <1>1 DEF Stray
    <2>1. 1 \in DOMAIN q /\ i + 1 \in DOMAIN q /\ 1 < i + 1 /\ q[1] = Parting /\ q[i + 1] \in Packets
      BY <1>1, <1>3, <1>9
    <2>2. PICK k \in DOMAIN q : 1 < k /\ k < i + 1 /\ q[k] = Bid BY <2>1, <1>9 DEF Bidden
    <2>3. k - 1 \in 1 .. m /\ r[k - 1] = Bid /\ k - 1 < i BY <2>2, <1>1, <1>2
    <2> QED BY <2>3, Kinds
  <1>10. Mute(q) <=> (x \in Replies /\ Mute(r))
    <2>1. Mute(q) => (x \in Replies /\ Mute(r)) BY <1>1, <1>3 DEF Mute
    <2>2. (x \in Replies /\ Mute(r)) => Mute(q) BY <1>1, <1>2 DEF Mute
    <2> QED BY <2>1, <2>2
  <1>11. ASSUME Met(q) PROVE x \in Answers \/ (x \in Replies /\ Met(r))
    <2>1. PICK i \in 1 .. (m + 1) : q[i] \in Answers /\ \A j \in 1 .. (m + 1) : j < i => q[j] \in Replies
      BY <1>1, <1>11 DEF Met
    <2>2. CASE i = 1 BY <2>1, <2>2, <1>1
    <2>3. CASE i - 1 \in 1 .. m /\ r[i - 1] = q[i]
      <3>1. \A j \in 1 .. m : j < i - 1 => r[j] \in Replies BY <2>1, <2>3, <1>1, <1>3
      <3>2. x \in Replies BY <2>1, <2>3, <1>1, <1>3
      <3> QED BY <3>1, <3>2, <2>1, <2>3, <1>1 DEF Met
    <2> QED BY <2>2, <2>3, <1>2
  <1>12. x \in Answers => Met(q) BY <1>1, <1>3 DEF Met
  <1>13. ASSUME x \in Replies, Met(r) PROVE Met(q)
    <2>1. PICK i \in 1 .. m : r[i] \in Answers /\ \A j \in 1 .. m : j < i => r[j] \in Replies
      BY <1>1, <1>13 DEF Met
    <2>2. \A j \in 1 .. (m + 1) : j < i + 1 => q[j] \in Replies
      BY <2>1, <1>1, <1>2, <1>13
    <2> QED BY <2>1, <2>2, <1>1, <1>3 DEF Met
  <1>14. ASSUME Hanging(q) PROVE Hanging(r) \/ (x = Call /\ Mute(r))
    <2>1. PICK i \in 1 .. (m + 1) : q[i] = Call /\ \A j \in 1 .. (m + 1) : j > i => q[j] \in Replies
      BY <1>1, <1>14 DEF Hanging
    <2>2. CASE i = 1
      <3>1. \A j \in 1 .. m : r[j] \in Replies BY <2>1, <2>2, <1>1, <1>3
      <3> QED BY <3>1, <2>1, <2>2, <1>1 DEF Mute
    <2>3. CASE i - 1 \in 1 .. m /\ r[i - 1] = q[i]
      <3>1. \A j \in 1 .. m : j > i - 1 => r[j] \in Replies BY <2>1, <2>3, <1>1, <1>3
      <3> QED BY <3>1, <2>1, <2>3, <1>1 DEF Hanging
    <2> QED BY <2>2, <2>3, <1>2
  <1>15. ASSUME Hanging(r) PROVE Hanging(q)
    <2>1. PICK i \in 1 .. m : r[i] = Call /\ \A j \in 1 .. m : j > i => r[j] \in Replies
      BY <1>1, <1>15 DEF Hanging
    <2>2. \A j \in 1 .. (m + 1) : j > i + 1 => q[j] \in Replies BY <2>1, <1>1, <1>2
    <2> QED BY <2>1, <2>2, <1>1, <1>3 DEF Hanging
  <1>16. ASSUME x = Call, Mute(r) PROVE Hanging(q)
    <2>1. ASSUME NEW j \in 1 .. (m + 1), j > 1 PROVE q[j] \in Replies
      <3>1. j - 1 \in 1 .. m /\ r[j - 1] = q[j] BY <2>1, <1>1, <1>2
      <3> QED BY <3>1, <1>16, <1>1 DEF Mute
    <2> QED BY <2>1, <1>16, <1>1, <1>3 DEF Hanging
  <1>17. ASSUME Tied(q) PROVE Tied(r)
    <2> SUFFICES ASSUME NEW i \in DOMAIN r, r[i] = Call
                 PROVE  \/ \A j \in DOMAIN r : j > i => r[j] \in Replies
                        \/ \E k \in DOMAIN r :
                             /\ k > i /\ r[k] \in Answers
                             /\ \A j \in DOMAIN r : (i < j /\ j < k) => r[j] \in Replies
      BY Zenon DEF Tied
    <2>0. DOMAIN r = 1 .. m /\ i \in 1 .. m BY <1>1
    <2>1. i + 1 \in 1 .. (m + 1) /\ q[i + 1] = Call BY <2>0, <1>1, <1>3
    <2>2. CASE \A j \in 1 .. (m + 1) : j > i + 1 => q[j] \in Replies BY <2>0, <2>2, <1>1, <1>3
    <2>3. ASSUME NEW k \in 1 .. (m + 1), k > i + 1, q[k] \in Answers,
                 \A j \in 1 .. (m + 1) : (i + 1 < j /\ j < k) => q[j] \in Replies
          PROVE  \E l \in 1 .. m : /\ l > i /\ r[l] \in Answers
                                   /\ \A j \in 1 .. m : (i < j /\ j < l) => r[j] \in Replies
      <3>1. k - 1 \in 1 .. m /\ r[k - 1] \in Answers /\ k - 1 > i BY <2>3, <1>1, <1>2
      <3>2. \A j \in 1 .. m : (i < j /\ j < k - 1) => r[j] \in Replies BY <2>3, <1>1, <1>3
      <3> QED BY <3>1, <3>2
    <2> QED BY <2>0, <2>1, <2>2, <2>3, <1>1, <1>17 DEF Tied
  <1>18. ASSUME Tied(q), x = Call PROVE Met(r) \/ Mute(r)
    <2>1. CASE \A j \in 1 .. (m + 1) : j > 1 => q[j] \in Replies BY <2>1, <1>1, <1>3 DEF Mute
    <2>2. ASSUME NEW k \in 1 .. (m + 1), k > 1, q[k] \in Answers,
                 \A j \in 1 .. (m + 1) : (1 < j /\ j < k) => q[j] \in Replies
          PROVE  Met(r)
      <3>1. k - 1 \in 1 .. m /\ r[k - 1] \in Answers BY <2>2, <1>1, <1>2
      <3>2. \A j \in 1 .. m : j < k - 1 => r[j] \in Replies BY <2>2, <1>1, <1>3
      <3> QED BY <3>1, <3>2, <1>1 DEF Met
    <2> QED BY <2>1, <2>2, <1>1, <1>3, <1>18 DEF Tied
  <1> QED BY <1>4, <1>5, <1>6, <1>7, <1>8, <1>9, <1>10, <1>11, <1>12, <1>13, <1>14, <1>15, <1>16,
             <1>17, <1>18

\* What taking the lines gone from the head of q, which leaves r, does to them.
Left(q, r, gone) ==
    /\ Marked(r) => Marked(q)
    /\ Marked(q) => (Marked(r) \/ gone \cap Marks # {})
    /\ Stray(r) => (Stray(q) \/ gone \cap Marks # {})
    /\ Bidden(q) => Bidden(r)
    /\ Mute(q) => Mute(r)
    /\ Met(q) => (Met(r) \/ gone \cap Answers # {})
    /\ Hanging(r) => Hanging(q)
    /\ Tied(q) => Tied(r)

\* Taking any number of lines from the head.
LEMMA TakenLeft ==
  ASSUME NEW q \in Seq(Lines), NEW n \in 0 .. Len(q)
  PROVE  Left(q, SubSeq(q, n + 1, Len(q)), {q[i] : i \in 1 .. n})
  <1> DEFINE r == SubSeq(q, n + 1, Len(q))
             gone == {q[i] : i \in 1 .. n}
  <1> DEFINE m == Len(q) - n
  <1>1. /\ m \in Nat /\ n \in Nat /\ r \in Seq(Lines) /\ DOMAIN q = 1 .. (m + n) /\ DOMAIN r = 1 .. m
        /\ \A i \in 1 .. m : r[i] = q[i + n]
    OBVIOUS
  <1>2. \A i \in 1 .. m : i + n \in 1 .. (m + n)
    BY <1>1
  <1>3. \A i \in 1 .. (m + n) : i \in 1 .. n \/ (i - n \in 1 .. m /\ r[i - n] = q[i])
    BY <1>1
  <1>4. \A i \in 1 .. n : q[i] \in gone
    OBVIOUS
  <1> HIDE DEF m, r, gone
  <1>5. Marked(r) => Marked(q) BY <1>1, <1>2 DEF Marked
  <1>6. Marked(q) => (Marked(r) \/ gone \cap Marks # {}) BY <1>1, <1>3, <1>4 DEF Marked
  <1>7. ASSUME Stray(r) PROVE Stray(q) \/ gone \cap Marks # {}
    <2>1. PICK i \in 1 .. m : r[i] \in Packets /\ \A j \in 1 .. m : j < i => r[j] \notin Marks
      BY <1>7, <1>1 DEF Stray
    <2>2. ASSUME NEW j \in 1 .. (m + n), j < i + n PROVE q[j] \notin Marks \/ gone \cap Marks # {}
      <3>1. CASE j \in 1 .. n BY <3>1, <1>4
      <3>2. CASE j - n \in 1 .. m /\ r[j - n] = q[j]
        <4>1. j - n < i BY <2>2, <1>1
        <4> QED BY <3>2, <4>1, <2>1
      <3> QED BY <3>1, <3>2, <1>3
    <2> QED BY <2>1, <2>2, <1>1, <1>2 DEF Stray
  <1>8. ASSUME Bidden(q) PROVE Bidden(r)
    <2> SUFFICES ASSUME NEW i \in DOMAIN r, NEW j \in DOMAIN r, i < j, r[i] = Parting,
                        r[j] \in Packets
                 PROVE \E k \in DOMAIN r : i < k /\ k < j /\ r[k] = Bid
      BY DEF Bidden
    <2>0. i \in 1 .. m /\ j \in 1 .. m /\ i \in Nat /\ j \in Nat BY <1>1
    <2>1. i + n \in DOMAIN q /\ j + n \in DOMAIN q /\ i + n < j + n BY <2>0, <1>1, <1>2
    <2>2. q[i + n] = Parting /\ q[j + n] \in Packets BY <1>1
    <2>3. PICK k \in DOMAIN q : i + n < k /\ k < j + n /\ q[k] = Bid
      BY <2>1, <2>2, <1>8 DEF Bidden
    <2>4. k - n \in 1 .. m /\ r[k - n] = q[k] BY <2>3, <1>1, <1>3
    <2>5. i < k - n /\ k - n < j BY <2>3, <1>1
    <2> QED BY <2>3, <2>4, <2>5, <1>1
  <1>9. Mute(q) => Mute(r) BY <1>1, <1>2 DEF Mute
  <1>10. ASSUME Met(q) PROVE Met(r) \/ gone \cap Answers # {}
    <2>1. PICK i \in 1 .. (m + n) : q[i] \in Answers /\ \A j \in 1 .. (m + n) : j < i => q[j] \in Replies
      BY <1>10, <1>1 DEF Met
    <2>2. CASE i \in 1 .. n BY <2>1, <2>2, <1>4
    <2>3. CASE i - n \in 1 .. m /\ r[i - n] = q[i]
      <3>1. \A j \in 1 .. m : j < i - n => r[j] \in Replies BY <2>1, <2>3, <1>1, <1>2
      <3> QED BY <3>1, <2>1, <2>3, <1>1 DEF Met
    <2> QED BY <2>2, <2>3, <1>3
  <1>11. ASSUME Hanging(r) PROVE Hanging(q)
    <2>1. PICK i \in 1 .. m : r[i] = Call /\ \A j \in 1 .. m : j > i => r[j] \in Replies
      BY <1>11, <1>1 DEF Hanging
    <2>2. ASSUME NEW j \in 1 .. (m + n), j > i + n PROVE q[j] \in Replies
      <3>1. j - n \in 1 .. m /\ r[j - n] = q[j] BY <2>2, <1>1, <1>3
      <3>2. j - n > i BY <2>2, <1>1
      <3> QED BY <3>1, <3>2, <2>1
    <2> QED BY <2>1, <2>2, <1>1, <1>2 DEF Hanging
  <1>12. ASSUME Tied(q) PROVE Tied(r)
    <2> SUFFICES ASSUME NEW i \in DOMAIN r, r[i] = Call
                 PROVE  \/ \A j \in DOMAIN r : j > i => r[j] \in Replies
                        \/ \E k \in DOMAIN r :
                             /\ k > i /\ r[k] \in Answers
                             /\ \A j \in DOMAIN r : (i < j /\ j < k) => r[j] \in Replies
      BY Zenon DEF Tied
    <2>0. DOMAIN r = 1 .. m /\ i \in 1 .. m BY <1>1
    <2>1. i + n \in 1 .. (m + n) /\ q[i + n] = Call BY <2>0, <1>1, <1>2
    <2>2. CASE \A j \in 1 .. (m + n) : j > i + n => q[j] \in Replies BY <2>0, <2>2, <1>1, <1>2
    <2>3. ASSUME NEW k \in 1 .. (m + n), k > i + n, q[k] \in Answers,
                 \A j \in 1 .. (m + n) : (i + n < j /\ j < k) => q[j] \in Replies
          PROVE  \E l \in 1 .. m : /\ l > i /\ r[l] \in Answers
                                   /\ \A j \in 1 .. m : (i < j /\ j < l) => r[j] \in Replies
      <3>1. k - n \in 1 .. m /\ r[k - n] \in Answers /\ k - n > i BY <2>3, <1>1, <1>3
      <3>2. ASSUME NEW j \in 1 .. m, i < j, j < k - n PROVE r[j] \in Replies
        <4>1. j + n \in 1 .. (m + n) /\ i + n < j + n /\ j + n < k /\ r[j] = q[j + n]
          BY <3>2, <1>1, <1>2
        <4> QED BY <4>1, <2>3
      <3> QED BY <3>1, <3>2
    <2> QED BY <2>0, <2>1, <2>2, <2>3, <1>1, <1>12 DEF Tied
  <1>13. Left(q, r, gone)
    BY <1>5, <1>6, <1>7, <1>8, <1>9, <1>10, <1>11, <1>12 DEF Left
  <1> QED BY <1>13 DEF r, gone

-----------------------------------------------------------------------------

\* The types of the parts of the state the commands work on.
Mods == [link : Peers \cup {"none"}, dial : Peers \cup {"none"}, adv : BOOLEAN,
         scan : BOOLEAN, data : BOOLEAN, asleep : BOOLEAN, say : Seq(Lines)]
Bts == [state : States, mode : {"CMD", "DATA"}, event : Events, eventBuf : Events,
        tmp : Events, data : {<<"NULL">>} \cup (Asks \X Ids)]
Hists == [eaten : BOOLEAN, dropped : BOOLEAN, refused : BOOLEAN, skipped : BOOLEAN]
Airs == [rx : Seq(Lines), mod : Mods, bt : Bts, hist : Hists, ok : BOOLEAN]

\* Lines that say nothing of a connection made or lost; the ones of them that are no
\* packets.
Plain == {x \in Lines : x # Parting /\ x \notin Greetings}
Dry == {x \in Plain : x \notin Packets}

\* The two queues as one, rx before mod.say: a parting waits; a greeting is the last
\* word on the connection; a greeting is the first word on it.
Parted(s) == Parts(s.rx) \/ Parts(s.mod.say)
Last(s) == Lasting(s.mod.say, Greetings) \/ (Lasting(s.rx, Greetings) /\ ~Parts(s.mod.say))
First(s) == Leading(s.rx) \/ (~Parts(s.rx) /\ Leading(s.mod.say))
\* Greetings and partings alternate, and without a link no greeting has the last word.
Ordered(s) ==
    /\ Clear(s.rx) /\ Clear(s.mod.say)
    /\ Lasting(s.rx, Answers) => ~Leading(s.mod.say)
    /\ s.mod.link = "none" => ~Last(s)

\* t follows s by steps that only take lines, or append plain lines or a hang-up: the
\* order is kept, and what is lost of it is in hist.eaten.
Flow(s, t) ==
    /\ Ordered(s) => Ordered(t)
    /\ t.mod.link = s.mod.link \/ t.mod.link = "none"
    /\ t.mod.link # s.mod.link => (Parted(t) \/ t.hist.eaten)
    /\ Parted(s) => (Parted(t) \/ t.hist.eaten)
    /\ t.mod.link # "none" => (Parted(t) => Parted(s))
    /\ t.mod.link # "none" => (Last(s) => (Last(t) \/ (~Parted(t) /\ t.hist.eaten)))
    /\ First(t) => (First(s) \/ t.hist.eaten)
    /\ s.hist.eaten => t.hist.eaten

\* The two queues as one again: the last word on the connection is a bid; a packet waits
\* that no bid asked for; a greeting is read by half.
Bound(s) == Lasting(s.mod.say, {Bid}) \/ (Lasting(s.rx, {Bid}) /\ ~Parts(s.mod.say))
Unbidden(s) == Stray(s.rx) \/ (~Marked(s.rx) /\ Stray(s.mod.say))
Half(s) == Met(s.rx) \/ (Mute(s.rx) /\ Met(s.mod.say))
\* After a parting there is a bid before the next packet; a call is followed by its
\* answer; a parting from before a link that may send is followed by its bid.
Sound(s) ==
    /\ Bidden(s.rx) /\ Bidden(s.mod.say)
    /\ (Parts(s.rx) /\ ~Lasting(s.rx, {Bid})) => ~Stray(s.mod.say)
    /\ Tied(s.rx) /\ Tied(s.mod.say) /\ ~Hanging(s.mod.say)
    /\ Hanging(s.rx) => Met(s.mod.say)
    /\ (s.mod.link = "tlp" /\ Parted(s)) => Bound(s)

\* t follows s by steps that take lines or append neither packets nor greetings.
Trail(s, t) ==
    /\ Sound(s) => Sound(t)
    /\ t.mod.link = s.mod.link \/ t.mod.link = "none"
    /\ Unbidden(t) => (Unbidden(s) \/ t.hist.eaten)
    /\ t.mod.link # "none" => (Bound(s) => (Bound(t) \/ t.hist.eaten))
    /\ Half(s) => (Half(t) \/ t.hist.eaten)
    /\ s.hist.eaten => t.hist.eaten

\* Such a step that leaves the driver alone.
Heard(s, t) ==
    /\ t \in Airs
    /\ Flow(s, t) /\ Trail(s, t)
    /\ t.bt = s.bt
    /\ t.hist.dropped = s.hist.dropped
    /\ t.hist.skipped = s.hist.skipped
    /\ t.hist.refused = s.hist.refused

\* Plain lines are lines, and neither partings nor greetings.
LEMMA PlainLines ==
  /\ Plain \subseteq Lines
  /\ Parting \in Lines /\ Greetings \subseteq Lines
  /\ \A x \in Plain : x # Parting /\ x \notin Greetings /\ x \notin Answers
  BY DEF Plain, Lines, Parting, Greetings, Answers, Bid

\* What leaves both queues alone keeps their order.
LEMMA Still ==
  ASSUME NEW s, NEW t, t.rx = s.rx, t.mod.say = s.mod.say, t.mod.link = s.mod.link,
         s.hist.eaten => t.hist.eaten
  PROVE  Flow(s, t) /\ Trail(s, t)
  <1>1. Flow(s, t) BY DEF Flow, Ordered, Parted, Last, First
  <1>2. Trail(s, t) BY DEF Trail, Sound, Parted, Bound, Unbidden, Half
  <1> QED BY <1>1, <1>2

\* Two such steps make one.
LEMMA FlowsOn ==
  ASSUME NEW s, NEW t, NEW u, Flow(s, t), Flow(t, u)
  PROVE  Flow(s, u)
  BY DEF Flow

\* Two such steps make one.
LEMMA TrailsOn ==
  ASSUME NEW s, NEW t, NEW u, Trail(s, t), Trail(t, u)
  PROVE  Trail(s, u)
  BY DEF Trail

\* Two such steps make one.
LEMMA HeardOn ==
  ASSUME NEW s, NEW t, NEW u, Heard(s, t), Heard(t, u)
  PROVE  Heard(s, u)
  <1>1. Flow(s, u) /\ Trail(s, u) BY FlowsOn, TrailsOn DEF Heard
  <1> QED BY <1>1 DEF Heard

\* The module answers a command.
LEMMA Received ==
  ASSUME NEW s \in Airs, NEW x \in Replies
  PROVE  Heard(s, Reply(s, x))
  <1> DEFINE t == Reply(s, x)
  <1>1. /\ t \in Airs /\ t.rx = Append(s.rx, x) /\ t.mod = s.mod /\ t.bt = s.bt
        /\ t.hist = s.hist /\ s.rx \in Seq(Lines) /\ x \in Lines /\ x \in Plain
    BY Kinds, PlainLines DEF Reply, Airs, Plain, Marks
  <1> HIDE DEF t
  <1>2. /\ Parts(t.rx) <=> Parts(s.rx)
        /\ Lasting(t.rx, Greetings) <=> Lasting(s.rx, Greetings)
        /\ Leading(t.rx) <=> Leading(s.rx)
        /\ Clear(t.rx) <=> Clear(s.rx)
    BY <1>1, PlainLines, Appended, Zenon
  <1>3. Lasting(t.rx, Answers) <=> Lasting(s.rx, Answers)
    BY <1>1, PlainLines, Appended, Zenon
  <1>4. Flow(s, t)
    BY <1>1, <1>2, <1>3, Zenon DEF Flow, Ordered, Parted, Last, First
  <1>5. Lasting(t.rx, {Bid}) <=> Lasting(s.rx, {Bid})
    <2>1. x \notin {Bid} BY <1>1, PlainLines, Kinds
    <2> QED BY <1>1, <2>1, PlainLines, Appended, Zenon
  <1>6. x \notin Marks /\ x \notin Packets /\ x \notin Answers /\ x # Call
    BY <1>1, Kinds, PlainLines
  <1>7. /\ Marked(t.rx) <=> Marked(s.rx)
        /\ Stray(t.rx) <=> Stray(s.rx)
        /\ Bidden(s.rx) => Bidden(t.rx)
        /\ Mute(t.rx) <=> Mute(s.rx)
        /\ Met(t.rx) <=> Met(s.rx)
        /\ Hanging(t.rx) <=> Hanging(s.rx)
        /\ Tied(s.rx) => Tied(t.rx)
    BY <1>1, <1>6, AppendedTo, Zenon
  <1>8. Trail(s, t)
    BY <1>1, <1>2, <1>5, <1>7, Zenon DEF Trail, Sound, Parted, Bound, Unbidden, Half
  <1> QED BY <1>1, <1>4, <1>8 DEF Heard, t

\* The module says a plain line.
LEMMA SpokenFlows ==
  ASSUME NEW s \in Airs, NEW x \in Plain
  PROVE  LET t == Say(s, <<x>>)
         IN  /\ Flow(s, t) /\ t \in Airs /\ t.rx = s.rx /\ t.mod.say = Append(s.mod.say, x)
             /\ t.mod.link = s.mod.link /\ t.bt = s.bt /\ t.hist = s.hist
             /\ s.mod.say \in Seq(Lines) /\ x \in Lines
             /\ Parts(t.mod.say) <=> Parts(s.mod.say)
  <1> DEFINE t == Say(s, <<x>>)
  <1>0. s.mod \in Mods /\ s.mod.say \in Seq(Lines) /\ x \in Lines
    BY PlainLines DEF Airs, Mods
  <1>1. s.mod.say \o <<x>> = Append(s.mod.say, x) /\ s.mod.say \o <<x>> \in Seq(Lines)
    BY <1>0
  <1>2. /\ t \in Airs /\ t.rx = s.rx /\ t.mod.say = Append(s.mod.say, x)
        /\ t.mod.link = s.mod.link /\ t.bt = s.bt /\ t.hist = s.hist
    BY <1>0, <1>1 DEF Say, Airs, Mods
  <1> HIDE DEF t
  <1>3. /\ Parts(t.mod.say) <=> Parts(s.mod.say)
        /\ Lasting(t.mod.say, Greetings) <=> Lasting(s.mod.say, Greetings)
        /\ Leading(t.mod.say) <=> Leading(s.mod.say)
        /\ Clear(t.mod.say) <=> Clear(s.mod.say)
    <2> DEFINE q == s.mod.say
              r == t.mod.say
    <2>1. q \in Seq(Lines) /\ r = Append(q, x)
      BY <1>0, <1>2
    <2> HIDE DEF q, r
    <2>2. /\ Parts(r) <=> Parts(q)
          /\ Lasting(r, Greetings) <=> Lasting(q, Greetings)
          /\ Leading(r) <=> Leading(q)
          /\ Clear(r) <=> Clear(q)
      BY <1>0, <2>1, PlainLines, Appended, Zenon
    <2> QED BY <2>2 DEF q, r
  <1>4. Flow(s, t)
    BY <1>2, <1>3, Zenon DEF Flow, Ordered, Parted, Last, First
  <1> QED BY <1>0, <1>2, <1>3, <1>4 DEF t

\* The module says a line that is no packet either.
LEMMA Spoken ==
  ASSUME NEW s \in Airs, NEW x \in Dry
  PROVE  Heard(s, Say(s, <<x>>))
  <1> DEFINE t == Say(s, <<x>>)
  <1>0. x \in Plain BY DEF Dry
  <1>1. /\ Flow(s, t) /\ t \in Airs /\ t.rx = s.rx /\ t.mod.say = Append(s.mod.say, x)
        /\ t.mod.link = s.mod.link /\ t.bt = s.bt /\ t.hist = s.hist
        /\ s.mod.say \in Seq(Lines) /\ x \in Lines
        /\ Parts(t.mod.say) <=> Parts(s.mod.say)
    BY <1>0, SpokenFlows
  <1> HIDE DEF t
  <1>2. x \notin Marks /\ x \notin Packets /\ x \notin Answers /\ x # Call /\ x \notin {Bid}
        /\ x # Parting
    BY <1>0, Kinds, PlainLines DEF Dry
  <1>3. /\ Lasting(t.mod.say, {Bid}) <=> Lasting(s.mod.say, {Bid})
        /\ Stray(t.mod.say) <=> Stray(s.mod.say)
        /\ Bidden(s.mod.say) => Bidden(t.mod.say)
        /\ Met(t.mod.say) <=> Met(s.mod.say)
        /\ Hanging(t.mod.say) => Hanging(s.mod.say)
        /\ (Tied(s.mod.say) /\ ~Hanging(s.mod.say)) => Tied(t.mod.say)
    <2> DEFINE q == s.mod.say
               r == t.mod.say
    <2>1. q \in Seq(Lines) /\ r = Append(q, x) BY <1>1
    <2> HIDE DEF q, r
    <2>2. Lasting(r, {Bid}) <=> Lasting(q, {Bid}) BY <1>1, <1>2, <2>1, Appended, Zenon
    <2>3. /\ Stray(r) <=> Stray(q)
          /\ Bidden(q) => Bidden(r)
          /\ Met(r) <=> Met(q)
          /\ Hanging(r) => Hanging(q)
          /\ (Tied(q) /\ ~Hanging(q)) => Tied(r)
      BY <1>1, <1>2, <2>1, AppendedTo, Zenon
    <2> QED BY <2>2, <2>3 DEF q, r
  <1>4. Trail(s, t)
    BY <1>1, <1>3, Zenon DEF Trail, Sound, Parted, Bound, Unbidden, Half
  <1> QED BY <1>1, <1>4 DEF Heard, t


\* The module says two.
LEMMA Spoken2 ==
  ASSUME NEW s \in Airs, NEW x \in Dry, NEW y \in Dry
  PROVE  Heard(s, Say(s, <<x, y>>))
  <1>0. s.mod \in Mods /\ s.mod.say \in Seq(Lines) /\ x \in Lines /\ y \in Lines
    BY PlainLines DEF Airs, Mods, Dry
  <1>1. (s.mod.say \o <<x>>) \o <<y>> = s.mod.say \o <<x, y>>
    <2> DEFINE a == (s.mod.say \o <<x>>) \o <<y>>
              b == s.mod.say \o <<x, y>>
    <2>1. a \in Seq(Lines) /\ b \in Seq(Lines) /\ Len(a) = Len(b)
      BY <1>0
    <2>2. \A i \in 1 .. Len(a) : a[i] = b[i]
      BY <1>0
    <2> HIDE DEF a, b
    <2>3. a = b BY <2>1, <2>2, SeqEqual
    <2> QED BY <2>3 DEF a, b
  <1>2. Say(Say(s, <<x>>), <<y>>) = Say(s, <<x, y>>)
    BY <1>0, <1>1 DEF Say, Airs, Mods
  <1>3. Heard(s, Say(s, <<x>>))
    BY Spoken
  <1>4. Heard(Say(s, <<x>>), Say(Say(s, <<x>>), <<y>>))
    BY <1>3, Spoken DEF Heard
  <1> QED BY <1>2, <1>3, <1>4, HeardOn

\* The module ends the connection.
LEMMA HungUp ==
  ASSUME NEW s \in Airs, s.mod.link # "none"
  PROVE  Heard(s, Say([s EXCEPT !.mod.link = "none"], <<Parting>>))
  <1> DEFINE t == Say([s EXCEPT !.mod.link = "none"], <<Parting>>)
  <1>0. s.mod \in Mods /\ s.mod.say \in Seq(Lines) /\ Parting \in Lines
    BY PlainLines DEF Airs, Mods
  <1>1. s.mod.say \o <<Parting>> = Append(s.mod.say, Parting)
        /\ s.mod.say \o <<Parting>> \in Seq(Lines)
    BY <1>0
  <1>2. /\ t \in Airs /\ t.rx = s.rx /\ t.mod.say = Append(s.mod.say, Parting)
        /\ t.mod.link = "none" /\ t.bt = s.bt /\ t.hist = s.hist
    BY <1>0, <1>1 DEF Say, Airs, Mods
  <1> HIDE DEF t
  <1>3. /\ Parts(t.mod.say)
        /\ ~Lasting(t.mod.say, Greetings)
        /\ Leading(t.mod.say) <=> Leading(s.mod.say)
        /\ Clear(t.mod.say) <=> Clear(s.mod.say)
    <2> DEFINE q == s.mod.say
              r == t.mod.say
    <2>1. q \in Seq(Lines) /\ r = Append(q, Parting)
      BY <1>0, <1>2
    <2> HIDE DEF q, r
    <2>2. /\ Parts(r)
          /\ ~Lasting(r, Greetings)
          /\ Leading(r) <=> Leading(q)
          /\ Clear(r) <=> Clear(q)
      BY <1>0, <2>1, PartingIsNone, Appended, Zenon
    <2> QED BY <2>2 DEF q, r
  <1>4. Flow(s, t)
    BY <1>2, <1>3, Zenon DEF Flow, Ordered, Parted, Last, First
  <1>5. /\ Stray(t.mod.say) <=> Stray(s.mod.say)
        /\ Bidden(s.mod.say) => Bidden(t.mod.say)
        /\ Met(t.mod.say) <=> Met(s.mod.say)
        /\ Hanging(t.mod.say) => Hanging(s.mod.say)
        /\ (Tied(s.mod.say) /\ ~Hanging(s.mod.say)) => Tied(t.mod.say)
    <2> DEFINE q == s.mod.say
               r == t.mod.say
    <2>1. q \in Seq(Lines) /\ r = Append(q, Parting) BY <1>0, <1>2
    <2> HIDE DEF q, r
    <2>2. Parting \notin Packets /\ Parting \notin Answers /\ Parting \notin Replies /\ Parting # Call
      BY Kinds, PartingIsNone
    <2>3. /\ Stray(r) <=> Stray(q)
          /\ Bidden(q) => Bidden(r)
          /\ Met(r) <=> Met(q)
          /\ Hanging(r) => Hanging(q)
          /\ (Tied(q) /\ ~Hanging(q)) => Tied(r)
      BY <1>0, <2>1, <2>2, AppendedTo, Zenon
    <2> QED BY <2>3 DEF q, r
  <1>6. t.mod.link # "tlp" BY <1>2
  <1>7. Trail(s, t)
    BY <1>2, <1>5, <1>6, Zenon DEF Trail, Sound, Parted, Unbidden, Half
  <1> QED BY <1>2, <1>4, <1>7 DEF Heard, t

\* The module changes what is neither its link nor its queue.
LEMMA Tuned ==
  ASSUME NEW s, NEW t \in Airs, t.rx = s.rx, t.mod.say = s.mod.say, t.mod.link = s.mod.link,
         t.bt = s.bt, t.hist = s.hist
  PROVE  Heard(s, t)
  BY Still DEF Heard

\* Whatever the command, the module only answers, says plain lines, or hangs up.
LEMMA ModuleHears ==
  ASSUME NEW s \in Airs, NEW cmd
  PROVE  Heard(s, Module(s, cmd))
  <1> DEFINE k == Reply(s, <<"OK">>)
             linked == s.mod.link # "none"
             t == Module(s, cmd)
  <1>1. <<"OK">> \in Replies /\ <<"ERROR">> \in Replies /\ <<"VERSION">> \in Replies
        /\ <<"DC_NMX">> \in Dry /\ <<"DC_GM">> \in Dry /\ <<"GATT_DONE">> \in Dry
        /\ <<"GATT_VAL">> \in Dry
    BY DEF Plain, Dry, Packets, Replies, Lines, Parting, Greetings, Answers, Bid
  <1>2. Heard(s, k) /\ k \in Airs /\ k.mod = s.mod
    BY <1>1, Received, Zenon DEF Heard, Reply, Airs
  <1>3. Heard(s, s)
    BY Tuned, Zenon
  <1>4. Heard(s, Reply(s, <<"ERROR">>)) /\ Heard(k, Reply(k, <<"VERSION">>))
    BY <1>1, <1>2, Received
  <1>5. /\ Heard(k, Say(k, <<<<"DC_NMX">>, <<"GATT_DONE">>>>))
        /\ Heard(k, Say(k, <<<<"DC_GM">>, <<"GATT_DONE">>>>))
        /\ Heard(k, Say(k, <<<<"GATT_DONE">>>>))
        /\ Heard(k, Say(k, <<<<"GATT_VAL">>>>))
    BY <1>1, <1>2, Spoken, Spoken2
  <1>6. ASSUME NEW f \in BOOLEAN
        PROVE  /\ Heard(k, [k EXCEPT !.mod.data = f])
               /\ Heard(k, [k EXCEPT !.mod.adv = f])
               /\ Heard(k, [k EXCEPT !.mod.scan = f])
               /\ Heard(k, [k EXCEPT !.mod.asleep = f])
    <2> HIDE DEF k
    <2>1. /\ [k EXCEPT !.mod.data = f] \in Airs
          /\ [k EXCEPT !.mod.adv = f] \in Airs
          /\ [k EXCEPT !.mod.scan = f] \in Airs
          /\ [k EXCEPT !.mod.asleep = f] \in Airs
      BY <1>2 DEF Airs, Mods
    <2>2. \A u \in {[k EXCEPT !.mod.data = f], [k EXCEPT !.mod.adv = f], [k EXCEPT !.mod.scan = f],
                    [k EXCEPT !.mod.asleep = f]} :
            u.rx = k.rx /\ u.mod.say = k.mod.say /\ u.mod.link = k.mod.link /\ u.bt = k.bt
              /\ u.hist = k.hist
      BY <1>2 DEF Airs, Mods
    <2> QED BY <2>1, <2>2, Tuned
  <1>7. Heard(k, [k EXCEPT !.mod.adv = FALSE, !.mod.scan = FALSE, !.mod.dial = "none"])
    <2> HIDE DEF k
    <2> DEFINE u == [k EXCEPT !.mod.adv = FALSE, !.mod.scan = FALSE, !.mod.dial = "none"]
    <2>1. u \in Airs /\ u.rx = k.rx /\ u.mod.say = k.mod.say /\ u.mod.link = k.mod.link
            /\ u.bt = k.bt /\ u.hist = k.hist
      BY <1>2 DEF Airs, Mods
    <2> QED BY <2>1, Tuned
  <1>8. linked => Heard(k, Say([k EXCEPT !.mod.link = "none"], <<<<"DISCONNECT">>>>))
    BY <1>2, HungUp DEF Parting
  <1>9. \/ t = s
        \/ t = k
        \/ t = [k EXCEPT !.mod.data = FALSE]
        \/ t = [k EXCEPT !.mod.adv = ~linked]
        \/ t = [k EXCEPT !.mod.asleep = ~linked]
        \/ t = [k EXCEPT !.mod.scan = TRUE]
        \/ t = [k EXCEPT !.mod.adv = FALSE, !.mod.scan = FALSE, !.mod.dial = "none"]
        \/ t = [k EXCEPT !.mod.scan = FALSE]
        \/ t = [k EXCEPT !.mod.data = TRUE]
        \/ linked /\ t = Say([k EXCEPT !.mod.link = "none"], <<<<"DISCONNECT">>>>)
        \/ t = Say(k, <<<<"DC_NMX">>, <<"GATT_DONE">>>>)
        \/ t = Say(k, <<<<"DC_GM">>, <<"GATT_DONE">>>>)
        \/ t = Say(k, <<<<"GATT_DONE">>>>)
        \/ t = Say(k, <<<<"GATT_VAL">>>>)
        \/ t = Reply(k, <<"VERSION">>)
        \/ t = Reply(s, <<"ERROR">>)
    <2> HIDE DEF k, linked
    <2> QED BY DEF Module, k, linked
  <1>10. t = s \/ t = Reply(s, <<"ERROR">>) \/ Heard(k, t)
    <2> DEFINE g == ~linked
    <2>1. g \in BOOLEAN /\ TRUE \in BOOLEAN /\ FALSE \in BOOLEAN OBVIOUS
    <2>2. Heard(k, k) BY Tuned, <1>2, Zenon
    <2>3. Heard(k, [k EXCEPT !.mod.adv = g]) /\ Heard(k, [k EXCEPT !.mod.asleep = g]) BY <1>6, <2>1
    <2>4. /\ Heard(k, [k EXCEPT !.mod.data = FALSE]) /\ Heard(k, [k EXCEPT !.mod.data = TRUE])
          /\ Heard(k, [k EXCEPT !.mod.scan = FALSE]) /\ Heard(k, [k EXCEPT !.mod.scan = TRUE])
      BY <1>6, <2>1
    <2>5. /\ [k EXCEPT !.mod.adv = g] = [k EXCEPT !.mod.adv = ~linked]
          /\ [k EXCEPT !.mod.asleep = g] = [k EXCEPT !.mod.asleep = ~linked]
      OBVIOUS
    <2> HIDE DEF k, linked, g, t
    <2> QED BY <1>4, <1>5, <1>7, <1>8, <1>9, <2>2, <2>3, <2>4, <2>5, Zenon
  <1> HIDE DEF t, k
  <1>11. CASE t = s BY <1>11, <1>3 DEF t
  <1>12. CASE t = Reply(s, <<"ERROR">>) BY <1>12, <1>4 DEF t
  <1>13. CASE Heard(k, t) BY <1>13, <1>2, HeardOn DEF t
  <1> QED BY <1>10, <1>11, <1>12, <1>13

\* checkOK discards lines, and the ones about a connection are remembered as eaten.
LEMMA checkOKHears ==
  ASSUME NEW s \in Airs
  PROVE  Heard(s, checkOK(s))
  <1> DEFINE q == s.rx
             oks == {i \in 1 .. Len(q) : i <= 4 /\ q[i] = <<"OK">>}
             found == oks # {}
             n == IF found THEN CHOOSE i \in oks : \A j \in oks : i <= j
                  ELSE IF Len(q) < 4 THEN Len(q) ELSE 4
             gone == {q[i] : i \in 1 .. n}
             r == SubSeq(q, n + 1, Len(q))
             lost == \/ gone \cap Announcements # {}
                     \/ (s.bt.state \in Checking
                           /\ gone \cap {<<"DC_NMX">>, <<"DC_GM">>, <<"GATT_DONE">>} # {})
             e == s.hist.eaten \/ lost
             t == checkOK(s)
  <1>1. q \in Seq(Lines) /\ s.mod \in Mods /\ s.bt \in Bts /\ s.hist \in Hists /\ s.hist.eaten \in BOOLEAN
    BY DEF Airs, Hists
  <1>2. n \in 0 .. Len(q)
    <2>1. Len(q) \in Nat BY <1>1
    <2>2. CASE found
      <3>1. PICK a \in 1 .. 4 : /\ a <= Len(q) /\ q[a] = <<"OK">>
                                /\ \A b \in 1 .. 4 : (b <= Len(q) /\ q[b] = <<"OK">>) => a <= b
        <4>1. PICK c \in 1 .. 4 : c <= Len(q) /\ q[c] = <<"OK">> BY <2>1, <2>2
        <4> DEFINE P(b) == b <= Len(q) /\ q[b] = <<"OK">>
        <4>2. CASE P(1) BY <4>2, <2>1
        <4>3. CASE ~P(1) /\ P(2) BY <4>3, <2>1
        <4>4. CASE ~P(1) /\ ~P(2) /\ P(3) BY <4>4, <2>1
        <4>5. CASE ~P(1) /\ ~P(2) /\ ~P(3) /\ P(4) BY <4>5, <2>1
        <4> QED BY <4>1, <4>2, <4>3, <4>4, <4>5
      <3>a. a \in oks BY <3>1, <2>1
      <3>b. ASSUME NEW j \in oks PROVE a <= j
        <4>1. j \in 1 .. 4 /\ j <= Len(q) /\ q[j] = <<"OK">> BY <2>1
        <4> QED BY <4>1, <3>1
      <3>2. \E i \in oks : \A j \in oks : i <= j BY <3>a, <3>b
      <3>3. n \in oks BY <3>2, <2>2
      <3> QED BY <3>3, <2>1
    <2>3. CASE ~found BY <2>1, <2>3
    <2> QED BY <2>2, <2>3
  <1>3. /\ t = [s EXCEPT !.rx = r, !.ok = found, !.hist.eaten = e]
    BY DEF checkOK
  <1>4. /\ r \in Seq(Lines)
        /\ Parts(r) => Parts(q)
        /\ Parts(q) => (Parts(r) \/ Parting \in gone)
        /\ Lasting(r, Greetings) => Lasting(q, Greetings)
        /\ Lasting(q, Greetings) => (Lasting(r, Greetings) \/ (gone \cap Greetings # {} /\ ~Parts(r)))
        /\ Leading(r) => (Leading(q) \/ Parting \in gone)
        /\ Clear(q) => Clear(r)
        /\ Lasting(r, Answers) => Lasting(q, Answers)
        /\ Lasting(r, {Bid}) => Lasting(q, {Bid})
        /\ Lasting(q, {Bid}) => (Lasting(r, {Bid}) \/ (gone \cap {Bid} # {} /\ ~Parts(r)))
        /\ Left(q, r, gone)
    <2> HIDE DEF n
    <2>1. r = SubSeq(q, n + 1, Len(q)) /\ gone = {q[i] : i \in 1 .. n}
      OBVIOUS
    <2> HIDE DEF q, r, gone
    <2>2. Took(q, SubSeq(q, n + 1, Len(q)), {q[i] : i \in 1 .. n})
      BY <1>1, <1>2, Taken
    <2>3. Took(q, r, gone)
      BY <2>1, <2>2
    <2>4. Left(q, SubSeq(q, n + 1, Len(q)), {q[i] : i \in 1 .. n})
      BY <1>1, <1>2, TakenLeft
    <2>5. Left(q, r, gone)
      BY <2>1, <2>4
    <2> QED BY <2>3, <2>5 DEF Took
  <1>5. e \in BOOLEAN /\ found \in BOOLEAN
    OBVIOUS
  <1>6. /\ s.hist.eaten => e
        /\ Parting \in gone => e
        /\ gone \cap Greetings # {} => e
        /\ gone \cap Marks # {} => e
        /\ gone \cap Answers # {} => e
        /\ gone \cap {Bid} # {} => e
    BY DEF Announcements, Parting, Greetings, Answers, Marks, Bid
  <1> HIDE DEF found, n, gone, r, lost, e, t
  <1>7. /\ t \in Airs /\ t.rx = r /\ t.mod = s.mod /\ t.bt = s.bt /\ t.hist.eaten = e
        /\ t.hist.dropped = s.hist.dropped /\ t.hist.skipped = s.hist.skipped
        /\ t.hist.refused = s.hist.refused
    BY <1>1, <1>3, <1>4, <1>5 DEF Airs, Hists
  <1>10. Flow(s, t)
    BY <1>4, <1>6, <1>7 DEF Flow, Ordered, Parted, Last, First
  <1>11. Sound(s) => Sound(t)
    BY <1>4, <1>7 DEF Sound, Parted, Bound, Left
  <1>12. Trail(s, t)
    BY <1>4, <1>6, <1>7, <1>11 DEF Trail, Bound, Unbidden, Half, Left
  <1> QED BY <1>7, <1>10, <1>12 DEF Heard, t

-----------------------------------------------------------------------------

\* The states of a driver that has no peer.
Low == {"IDLE", "SCAN", "SLEEP"}

\* t follows s by a command of the driver: the events and the order of the lines stay.
Unheard(s, t) ==
    /\ t \in Airs /\ Flow(s, t) /\ Trail(s, t)
    /\ t.bt.event = s.bt.event /\ t.bt.eventBuf = s.bt.eventBuf /\ t.bt.tmp = s.bt.tmp
    /\ t.bt.data = s.bt.data
    /\ t.hist.skipped = s.hist.skipped /\ t.hist.refused = s.hist.refused
    /\ s.hist.dropped => t.hist.dropped

\* Such a step, which may leave command mode alone or enter it, and the state for Low.
Loose(s, t) ==
    /\ Unheard(s, t)
    /\ t.bt.mode = s.bt.mode \/ t.bt.mode = "CMD"
    /\ t.bt.state = s.bt.state \/ t.bt.state \in Low

\* Such a step, which at most wakes the module.
Direct(s, t) ==
    /\ Loose(s, t)
    /\ t.bt.state = s.bt.state \/ (s.bt.state = "SLEEP" /\ t.bt.state = "IDLE")

\* The whole of a command as the firmware gives it: a connected driver stays connected,
\* and giving up a peer that is being examined is remembered as dropped.
Commanded(s, t) ==
    /\ Unheard(s, t)
    /\ \/ t.bt.mode = s.bt.mode
       \/ t.bt.mode = "CMD"
       \/ s.bt.state = "CONNECTED" /\ t.bt.state = "CONNECTED"
    /\ \/ t.bt.state = s.bt.state
       \/ /\ t.bt.state \in Low
          /\ s.bt.state \notin Connected
          /\ s.bt.state \in Checking => t.hist.dropped

\* The states of a driver without, with, and about to have a peer.
LEMMA StatesDiffer ==
  /\ Low \subseteq States /\ Connected \subseteq States /\ Checking \subseteq States
  /\ Low \cap Connected = {} /\ Low \cap Checking = {} /\ Connected \cap Checking = {}
  /\ "IDLE" \in Low /\ "SCAN" \in Low /\ "SLEEP" \in Low /\ "CONNECTED" \in Connected
  /\ "CONNECTED" \in States
  BY DEF Low, States, Connected, Checking

\* Two commands one after the other.
LEMMA UnheardOn ==
  ASSUME NEW s, NEW t, NEW u, Unheard(s, t), Unheard(t, u)
  PROVE  Unheard(s, u)
  <1>1. Flow(s, u) /\ Trail(s, u) BY FlowsOn, TrailsOn DEF Unheard
  <1> QED BY <1>1 DEF Unheard

\* Two commands one after the other.
LEMMA LooseOn ==
  ASSUME NEW s, NEW t, NEW u, Loose(s, t), Loose(t, u)
  PROVE  Loose(s, u)
  BY UnheardOn DEF Loose

\* Two commands one after the other.
LEMMA DirectOn ==
  ASSUME NEW s, NEW t, NEW u, Direct(s, t), Direct(t, u)
  PROVE  Direct(s, u)
  BY LooseOn DEF Direct

\* Two commands one after the other.
LEMMA CommandedOn ==
  ASSUME NEW s, NEW t, NEW u, Commanded(s, t), Commanded(t, u)
  PROVE  Commanded(s, u)
  <1>1. Unheard(s, u) BY UnheardOn DEF Commanded
  <1>2. t.hist.dropped => u.hist.dropped BY DEF Commanded, Unheard
  <1> QED BY <1>1, <1>2, StatesDiffer DEF Commanded

\* What the module does is such a step.
LEMMA HeardDirect ==
  ASSUME NEW s, NEW t, Heard(s, t)
  PROVE  Direct(s, t)
  BY DEF Heard, Direct, Loose, Unheard

\* A command that at most wakes the module is a command.
LEMMA DirectCommanded ==
  ASSUME NEW s, NEW t, Direct(s, t)
  PROVE  Commanded(s, t)
  BY StatesDiffer DEF Direct, Loose, Commanded, Connected, Checking, Low

\* The driver's state and mode are set, and nothing else.
Drive(s, state, mode, t) ==
    /\ Unheard(s, t) /\ t \in Airs /\ t.bt.state = state /\ t.bt.mode = mode
    /\ t.hist = s.hist /\ t.mod = s.mod /\ t.rx = s.rx

\* Setting state and mode sets nothing else.
LEMMA Driven ==
  ASSUME NEW s \in Airs, NEW state \in States, NEW mode \in {"CMD", "DATA"}
  PROVE  Drive(s, state, mode, [s EXCEPT !.bt.state = state, !.bt.mode = mode])
  <1> DEFINE t == [s EXCEPT !.bt.state = state, !.bt.mode = mode]
  <1>1. s.bt \in Bts /\ s.hist \in Hists BY DEF Airs
  <1>2. /\ t \in Airs /\ t.bt.state = state /\ t.bt.mode = mode
        /\ t.hist = s.hist /\ t.mod = s.mod /\ t.rx = s.rx
        /\ t.bt.event = s.bt.event /\ t.bt.eventBuf = s.bt.eventBuf /\ t.bt.tmp = s.bt.tmp
        /\ t.bt.data = s.bt.data
    BY <1>1 DEF Airs, Bts
  <1> HIDE DEF t
  <1>3. Flow(s, t) /\ Trail(s, t) BY <1>2, Still
  <1>4. Drive(s, state, mode, t) BY <1>2, <1>3 DEF Unheard, Drive
  <1> QED BY <1>4 DEF t

\* The driver's state is set.
LEMMA StateSet ==
  ASSUME NEW s \in Airs, NEW state \in States
  PROVE  /\ Unheard(s, [s EXCEPT !.bt.state = state]) /\ [s EXCEPT !.bt.state = state] \in Airs
         /\ [s EXCEPT !.bt.state = state].bt.state = state
         /\ [s EXCEPT !.bt.state = state].bt.mode = s.bt.mode
         /\ [s EXCEPT !.bt.state = state].hist = s.hist
         /\ state \in Low => Loose(s, [s EXCEPT !.bt.state = state])
  <1> DEFINE t == [s EXCEPT !.bt.state = state]
  <1>1. s.bt \in Bts /\ s.bt.mode \in {"CMD", "DATA"} BY DEF Airs, Bts
  <1>2. t = [s EXCEPT !.bt.state = state, !.bt.mode = s.bt.mode]
    BY <1>1 DEF Airs, Bts
  <1>3. Unheard(s, t) /\ t \in Airs /\ t.bt.state = state /\ t.bt.mode = s.bt.mode /\ t.hist = s.hist
    <2>1. Drive(s, state, s.bt.mode, [s EXCEPT !.bt.state = state, !.bt.mode = s.bt.mode])
      BY <1>1, Driven
    <2> HIDE DEF t
    <2> QED BY <1>2, <2>1 DEF Drive
  <1> HIDE DEF t
  <1>4. state \in Low => Loose(s, t)
    BY <1>3 DEF Loose
  <1> QED BY <1>3, <1>4 DEF t

\* A module that sleeps is woken, which loses no line.
LEMMA Wakes ==
  ASSUME NEW s \in Airs, s.bt.state = "SLEEP"
  PROVE  Direct(s, [s EXCEPT !.bt.state = "IDLE", !.mod.asleep = FALSE])
  <1> DEFINE t == [s EXCEPT !.bt.state = "IDLE"]
             u == [t EXCEPT !.mod.asleep = FALSE]
  <1>1. Unheard(s, t) /\ t \in Airs /\ t.bt.state = "IDLE" /\ t.bt.mode = s.bt.mode
    BY StateSet, StatesDiffer
  <1>2. u = [s EXCEPT !.bt.state = "IDLE", !.mod.asleep = FALSE]
    BY DEF Airs
  <1> HIDE DEF t
  <1>3. /\ u \in Airs /\ u.rx = t.rx /\ u.mod.say = t.mod.say /\ u.mod.link = t.mod.link
        /\ u.bt = t.bt /\ u.hist = t.hist
    BY <1>1 DEF Airs, Mods
  <1> HIDE DEF u
  <1>4. Direct(s, t)
    BY <1>1, StatesDiffer DEF Direct, Loose
  <1>5. Direct(t, u)
    BY <1>3, Tuned, HeardDirect
  <1> QED BY <1>2, <1>4, <1>5, DirectOn

\* sendCMD, whatever the command and whether or not the module leaves data mode.
LEMMA sendCMDDirect ==
  ASSUME NEW s \in Airs, NEW cmd
  PROVE  Direct(s, sendCMD(s, cmd))
  <1> DEFINE w == IF s.bt.state = "SLEEP" /\ s.mod.asleep
                  THEN [s EXCEPT !.bt.state = "IDLE", !.mod.asleep = FALSE] ELSE s
             m == Module(w, "+++")
             c == checkOK(m)
             d == [c EXCEPT !.bt.mode = "CMD"]
             t == IF s.bt.mode # "DATA" THEN w ELSE IF c.ok THEN d ELSE c
  <1>1. sendCMD(s, cmd) = Module(t, cmd)
    BY DEF sendCMD
  <1>2. Heard(s, s)
    BY Tuned, Zenon
  <1>3. Direct(s, s)
    BY <1>2, HeardDirect
  <1>4. Direct(s, w)
    BY <1>3, Wakes
  <1>5. Direct(s, w) /\ w \in Airs
    BY <1>4 DEF Direct, Loose, Unheard
  <1> HIDE DEF w
  <1>6. Heard(w, m) /\ m \in Airs
    BY <1>5, ModuleHears DEF Heard
  <1> HIDE DEF m
  <1>7. Heard(m, c) /\ c \in Airs
    BY <1>6, checkOKHears DEF Heard
  <1> HIDE DEF c
  <1>8. Direct(s, c)
    BY <1>5, <1>6, <1>7, HeardDirect, DirectOn
  <1>9. Direct(c, d)
    <2>1. c.bt \in Bts /\ c.bt.state \in States BY <1>7 DEF Airs, Bts
    <2>2. d = [c EXCEPT !.bt.state = c.bt.state, !.bt.mode = "CMD"]
      BY <1>7, <2>1 DEF Airs, Bts
    <2>3. Unheard(c, d) /\ d.bt.state = c.bt.state /\ d.bt.mode = "CMD"
      <3>1. Drive(c, c.bt.state, "CMD", [c EXCEPT !.bt.state = c.bt.state, !.bt.mode = "CMD"])
        BY <1>7, <2>1, Driven
      <3> HIDE DEF d
      <3> QED BY <2>2, <3>1 DEF Drive
    <2> QED BY <2>3 DEF Direct, Loose
  <1> HIDE DEF d
  <1>10. Direct(s, t) /\ t \in Airs
    <2>1. Direct(s, t)
      BY <1>5, <1>8, <1>9, DirectOn
    <2> QED BY <2>1 DEF Direct, Loose, Unheard
  <1> HIDE DEF t
  <1>11. Heard(t, Module(t, cmd))
    BY <1>10, ModuleHears
  <1> QED BY <1>1, <1>10, <1>11, HeardDirect, DirectOn

\* A command and its answer.
LEMMA CommandDirect ==
  ASSUME NEW s \in Airs, NEW cmd
  PROVE  Direct(s, Command(s, cmd)) /\ Command(s, cmd) \in Airs
  <1> DEFINE t == sendCMD(s, cmd)
  <1>1. Direct(s, t) /\ t \in Airs
    BY sendCMDDirect DEF Direct, Loose, Unheard
  <1>2. Command(s, cmd) = checkOK(t) BY DEF Command
  <1> HIDE DEF t
  <1>3. Heard(t, checkOK(t)) BY <1>1, checkOKHears
  <1>4. Direct(s, checkOK(t)) BY <1>1, <1>3, HeardDirect, DirectOn
  <1> QED BY <1>2, <1>4 DEF Direct, Loose, Unheard

\* The guard of the commands of an unconnected driver makes a loose step a command.
LEMMA UnlessCommands ==
  ASSUME NEW s \in Airs, NEW t, Loose(s, t)
  PROVE  Commanded(s, Unless(s, t)) /\ Loose(s, Unless(s, t)) /\ Unless(s, t) \in Airs
  <1> DEFINE f == t.hist.dropped \/ (s.bt.state \in Checking /\ t.bt.state # s.bt.state)
             u == [t EXCEPT !.hist.dropped = f]
  <1>1. t \in Airs /\ t.hist \in Hists /\ s.bt \in Bts /\ f \in BOOLEAN /\ t.hist.dropped \in BOOLEAN
    BY DEF Loose, Unheard, Airs, Hists
  <1>2. (t.hist.dropped => f) /\ ((s.bt.state \in Checking /\ t.bt.state # s.bt.state) => f)
    OBVIOUS
  <1>3. Unless(s, t) = IF s.bt.state \in Connected THEN s ELSE u
    BY DEF Unless
  <1> HIDE DEF f
  <1>4. /\ u \in Airs /\ u.bt = t.bt /\ u.mod = t.mod /\ u.rx = t.rx /\ u.hist.eaten = t.hist.eaten
        /\ u.hist.skipped = t.hist.skipped /\ u.hist.refused = t.hist.refused
        /\ u.hist.dropped = f
    BY <1>1 DEF Airs, Hists
  <1> HIDE DEF u
  <1>5. Flow(t, u) /\ Trail(t, u) BY <1>4, Still
  <1>6. Unheard(t, u) BY <1>2, <1>4, <1>5 DEF Unheard
  <1>7. Unheard(s, u) BY <1>6, UnheardOn DEF Loose
  <1>8. Loose(s, u) BY <1>7, <1>4 DEF Loose
  <1>9. s.bt.state \notin Connected => Commanded(s, u)
    BY <1>8, <1>2, <1>4 DEF Commanded, Loose
  <1>10. Heard(s, s) BY Tuned, Zenon
  <1>11. Commanded(s, s) /\ Loose(s, s)
    BY <1>10, HeardDirect, DirectCommanded DEF Direct
  <1> QED BY <1>3, <1>4, <1>8, <1>9, <1>11

\* A command after which the driver is idle.
LEMMA SentThenSet ==
  ASSUME NEW s \in Airs, NEW cmd
  PROVE  Loose(s, checkOK([sendCMD(s, cmd) EXCEPT !.bt.state = "IDLE"]))
  <1> DEFINE t == sendCMD(s, cmd)
             u == [t EXCEPT !.bt.state = "IDLE"]
  <1>1. Loose(s, t) /\ t \in Airs
    BY sendCMDDirect DEF Direct, Loose, Unheard
  <1> HIDE DEF t
  <1>2. Loose(t, u) /\ u \in Airs
    BY <1>1, StateSet, StatesDiffer
  <1> HIDE DEF u
  <1>3. Loose(u, checkOK(u))
    BY <1>2, checkOKHears, HeardDirect DEF Direct
  <1>4. Loose(s, checkOK(u))
    BY <1>1, <1>2, <1>3, LooseOn
  <1> QED BY <1>4 DEF t, u

\* A command before which the driver changes its state.
LEMMA SetThenSent ==
  ASSUME NEW s \in Airs, NEW state \in Low, NEW cmd
  PROVE  Loose(s, Command([s EXCEPT !.bt.state = state], cmd))
  <1> DEFINE t == [s EXCEPT !.bt.state = state]
  <1>1. Loose(s, t) /\ t \in Airs
    BY StateSet, StatesDiffer
  <1> HIDE DEF t
  <1>2. Loose(t, Command(t, cmd))
    BY <1>1, CommandDirect DEF Direct
  <1>3. Loose(s, Command(t, cmd)) BY <1>1, <1>2, LooseOn
  <1> QED BY <1>3 DEF t

\* cancel and cancelScan.
LEMMA Cancels ==
  ASSUME NEW s \in Airs
  PROVE  /\ Commanded(s, cancel(s)) /\ Loose(s, cancel(s)) /\ cancel(s) \in Airs
         /\ Commanded(s, cancelScan(s)) /\ Loose(s, cancelScan(s)) /\ cancelScan(s) \in Airs
  BY SentThenSet, UnlessCommands DEF cancel, cancelScan

\* advertise.
LEMMA Advertises ==
  ASSUME NEW s \in Airs
  PROVE  Commanded(s, advertise(s)) /\ Loose(s, advertise(s)) /\ advertise(s) \in Airs
  BY CommandDirect, UnlessCommands DEF advertise, Direct

\* scan.
LEMMA Scans ==
  ASSUME NEW s \in Airs
  PROVE  Commanded(s, scan(s)) /\ Loose(s, scan(s)) /\ scan(s) \in Airs
  BY SetThenSent, UnlessCommands, StatesDiffer DEF scan

\* version, which reads one more line.
LEMMA Versions ==
  ASSUME NEW s \in Airs
  PROVE  Direct(s, version(s)) /\ version(s) \in Airs
  <1> DEFINE c == Command(s, "version")
             e == c.hist.eaten \/ Head(c.rx) \in Announcements
             t == [c EXCEPT !.rx = Tail(@), !.hist.eaten = e]
  <1>1. Direct(s, c) /\ c \in Airs BY CommandDirect
  <1>2. version(s) = IF c.rx = <<>> THEN c ELSE t
    <2> HIDE DEF c
    <2> QED BY <1>1 DEF version, c
  <1> HIDE DEF c
  <1>3. ASSUME c.rx # <<>> PROVE Heard(c, t)
    <2> DEFINE q == c.rx
               r == Tail(q)
               x == Head(q)
    <2>1. q \in Seq(Lines) /\ q # <<>> /\ c.hist \in Hists /\ e \in BOOLEAN
      BY <1>1, <1>3 DEF Airs, Hists
    <2>2. r \in Seq(Lines) BY <2>1
    <2>3. (c.hist.eaten => e) /\ (x = Parting => e) /\ (x \in Greetings => e) /\ (x \in Marks => e)
      BY DEF Announcements, Parting, Greetings, Answers, Marks, Bid
    <2> HIDE DEF e
    <2>4. /\ t \in Airs /\ t.rx = r /\ t.mod = c.mod /\ t.bt = c.bt /\ t.hist.eaten = e
          /\ t.hist.dropped = c.hist.dropped /\ t.hist.skipped = c.hist.skipped
          /\ t.hist.refused = c.hist.refused
      BY <1>1, <2>1, <2>2 DEF Airs, Hists
    <2>5. r = Tail(q) /\ x = Head(q) OBVIOUS
    <2> HIDE DEF t, q, r, x
    <2>6. /\ Parts(q) <=> (x = Parting \/ Parts(r))
          /\ Lasting(q, Greetings) <=> (Lasting(r, Greetings) \/ (x \in Greetings /\ ~Parts(r)))
          /\ Leading(q) <=> (x \in Greetings \/ (x # Parting /\ Leading(r)))
          /\ Clear(q) => Clear(r)
      BY <2>1, <2>5, TailOf, Zenon
    <2>7. Lasting(r, Answers) => Lasting(q, Answers)
      BY <2>1, <2>5, TailOf, Zenon
    <2>8. Flow(c, t)
      BY <2>3, <2>4, <2>6, <2>7, PartingIsNone DEF Flow, Ordered, Parted, Last, First, q
    <2>9. Lasting(q, {Bid}) <=> (Lasting(r, {Bid}) \/ (x \in {Bid} /\ ~Parts(r)))
      BY <2>1, <2>5, TailOf, Zenon
    <2>10. /\ Marked(q) <=> (x \in Marks \/ Marked(r))
           /\ Stray(q) <=> (x \in Packets \/ (x \notin Marks /\ Stray(r)))
           /\ Bidden(q) => Bidden(r)
           /\ Mute(q) => Mute(r)
           /\ Met(q) <=> (x \in Answers \/ (x \in Replies /\ Met(r)))
           /\ Hanging(r) => Hanging(q)
           /\ Tied(q) => Tied(r)
      BY <2>1, <2>5, TailLeft, Zenon
    <2>11. Sound(c) => Sound(t)
      BY <2>4, <2>6, <2>9, <2>10 DEF Sound, Parted, Bound, q
    <2>12. Trail(c, t)
      BY <2>3, <2>4, <2>6, <2>9, <2>10, <2>11, Kinds DEF Trail, Bound, Unbidden, Half, q
    <2> QED BY <2>4, <2>8, <2>12 DEF Heard
  <1>4. c.rx # <<>> => Direct(s, t)
    BY <1>1, <1>3, HeardDirect, DirectOn
  <1> HIDE DEF t
  <1>5. Direct(s, version(s)) BY <1>1, <1>2, <1>4
  <1> QED BY <1>5 DEF Direct, Loose, Unheard

\* sleep, which cancels and asks for the version first.
LEMMA Sleeps ==
  ASSUME NEW s \in Airs, NEW old \in BOOLEAN
  PROVE  /\ Commanded(s, sleep(s, old)) /\ Loose(s, sleep(s, old))
         /\ sleep(s, old) \in Airs
  <1> DEFINE a == cancel(s)
             b == [a EXCEPT !.bt.state = "SLEEP"]
             v == version(b)
             c == Command(v, "sleep")
             e == IF old THEN v ELSE c
  <1>1. Loose(s, a) /\ a \in Airs BY Cancels
  <1> HIDE DEF a
  <1>2. Loose(a, b) /\ b \in Airs BY <1>1, StateSet, StatesDiffer
  <1> HIDE DEF b
  <1>3. Loose(b, v) /\ v \in Airs BY <1>2, Versions DEF Direct
  <1> HIDE DEF v
  <1>4. Loose(v, c) BY <1>3, CommandDirect DEF Direct
  <1> HIDE DEF c
  <1>5. Loose(s, e) BY <1>1, <1>2, <1>3, <1>4, LooseOn
  <1>6. sleep(s, old) = Unless(s, e) BY DEF sleep, a, b, c, v, e
  <1> HIDE DEF e
  <1> QED BY <1>5, <1>6, UnlessCommands

\* connect, which cancels first.
LEMMA Connects ==
  ASSUME NEW s \in Airs, NEW p \in Peers
  PROVE  Commanded(s, connect(s, p)) /\ Loose(s, connect(s, p)) /\ connect(s, p) \in Airs
  <1> DEFINE a == cancel(s)
             c == Command(a, "dial")
             f == IF c.mod.link = "none" THEN p ELSE c.mod.dial
             t == [c EXCEPT !.mod.dial = f]
  <1>1. Commanded(s, a) /\ Loose(s, a) /\ a \in Airs BY Cancels
  <1> HIDE DEF a
  <1>2. Commanded(a, c) /\ Loose(a, c) /\ c \in Airs BY <1>1, CommandDirect, DirectCommanded DEF Direct
  <1>3. connect(s, p) = t
    <2> HIDE DEF c
    <2> QED BY <1>2 DEF connect, a, c, Airs, Mods
  <1> HIDE DEF c
  <1>4. c.mod \in Mods /\ f \in Peers \cup {"none"} BY <1>2 DEF Airs, Mods
  <1> HIDE DEF f
  <1>5. /\ t \in Airs /\ t.rx = c.rx /\ t.mod.say = c.mod.say /\ t.mod.link = c.mod.link
        /\ t.bt = c.bt /\ t.hist = c.hist
    BY <1>2, <1>4 DEF Airs, Mods
  <1> HIDE DEF t
  <1>6. Direct(c, t) BY <1>5, Tuned, HeardDirect
  <1>7. Commanded(s, t) BY <1>1, <1>2, <1>6, DirectCommanded, CommandedOn
  <1>8. Loose(s, t) BY <1>1, <1>2, <1>6, LooseOn DEF Direct
  <1> QED BY <1>3, <1>5, <1>7, <1>8

\* disconnect.
LEMMA Disconnects ==
  ASSUME NEW s \in Airs
  PROVE  Direct(s, disconnect(s)) /\ Commanded(s, disconnect(s)) /\ disconnect(s) \in Airs
  BY CommandDirect, DirectCommanded DEF disconnect

\* sendDATA.
LEMMA SendsData ==
  ASSUME NEW s \in Airs
  PROVE  Commanded(s, sendDATA(s)) /\ sendDATA(s) \in Airs
  <1> DEFINE m == Module(s, "dataMode")
             c == checkOK(m)
             d == [c EXCEPT !.bt.mode = "DATA"]
             t == IF s.bt.state # "CONNECTED" \/ s.bt.mode = "DATA" THEN s
                  ELSE IF c.ok THEN d ELSE c
  <1>0. sendDATA(s) = t BY DEF sendDATA
  <1>1. Heard(s, m) /\ m \in Airs BY ModuleHears DEF Heard
  <1> HIDE DEF m
  <1>2. Heard(m, c) /\ c \in Airs BY <1>1, checkOKHears DEF Heard
  <1> HIDE DEF c
  <1>3. Heard(s, c) BY <1>1, <1>2, HeardOn
  <1>4. Commanded(s, c) /\ c.bt = s.bt BY <1>3, HeardDirect, DirectCommanded DEF Heard
  <1>5. Unheard(c, d) /\ d \in Airs /\ d.bt.state = c.bt.state /\ d.bt.mode = "DATA"
    <2>1. c.bt \in Bts /\ c.bt.state \in States BY <1>2 DEF Airs, Bts
    <2>2. d = [c EXCEPT !.bt.state = c.bt.state, !.bt.mode = "DATA"]
      BY <1>2, <2>1 DEF Airs, Bts
    <2>3. Drive(c, c.bt.state, "DATA", [c EXCEPT !.bt.state = c.bt.state, !.bt.mode = "DATA"])
      BY <1>2, <2>1, Driven
    <2> HIDE DEF d
    <2> QED BY <2>2, <2>3 DEF Drive
  <1> HIDE DEF d
  <1>6. s.bt.state = "CONNECTED" => Commanded(s, d)
    <2>1. Unheard(s, d) BY <1>4, <1>5, UnheardOn DEF Commanded
    <2> QED BY <2>1, <1>4, <1>5 DEF Commanded
  <1>7. Heard(s, s) BY Tuned, Zenon
  <1>8. Commanded(s, s) BY <1>7, HeardDirect, DirectCommanded
  <1> QED BY <1>0, <1>2, <1>4, <1>5, <1>6, <1>8

-----------------------------------------------------------------------------

\* A driver that believes in a peer.
Linked == Connected \cup Checking

\* The driver and the module agree up to the lines that wait: without a link, a driver
\* that believes in one has a parting to come; with one, the greeting is the last word or
\* the driver knows of it.  Either may fail only if a line was eaten or a peer dropped.
AirInv(s) ==
    /\ Ordered(s)
    /\ s.mod.link # "none" =>
         (Last(s) \/ (~Parted(s) /\ (s.bt.state \in Linked \/ s.hist.eaten \/ s.hist.dropped)))
    /\ (s.bt.state \in Linked /\ s.mod.link = "none" /\ ~Parted(s)) => s.hist.eaten
    /\ s.bt.mode = "DATA" => s.bt.state = "CONNECTED"
    /\ s.bt.state \in Checking => (s.hist.eaten \/ ~First(s))

\* Every command keeps it.
LEMMA CommandedAir ==
  ASSUME NEW s, NEW t, AirInv(s), Commanded(s, t)
  PROVE  AirInv(t)
  <1>1. Flow(s, t) BY DEF Commanded, Unheard
  <1>2. \/ t.bt.state = s.bt.state
        \/ t.bt.state \in Low /\ s.bt.state \notin Connected
             /\ (s.bt.state \in Checking => t.hist.dropped)
    BY DEF Commanded
  <1>3. s.hist.dropped => t.hist.dropped BY DEF Commanded, Unheard
  <1>4. Ordered(t) BY <1>1 DEF Flow, AirInv
  <1>5. t.mod.link # "none" =>
          (Last(t) \/ (~Parted(t) /\ (t.bt.state \in Linked \/ t.hist.eaten \/ t.hist.dropped)))
    BY <1>1, <1>2, <1>3 DEF Flow, AirInv, Linked
  <1>6. (t.bt.state \in Linked /\ t.mod.link = "none" /\ ~Parted(t)) => t.hist.eaten
    BY <1>1, <1>2, StatesDiffer DEF Flow, AirInv, Linked
  <1>7. t.bt.mode = "DATA" => t.bt.state = "CONNECTED"
    BY <1>2, StatesDiffer DEF Commanded, AirInv
  <1>8. t.bt.state \in Checking => (t.hist.eaten \/ ~First(t))
    BY <1>1, <1>2, StatesDiffer DEF Flow, AirInv
  <1> QED BY <1>4, <1>5, <1>6, <1>7, <1>8 DEF AirInv

\* w is u but for the driver's state, mode, event and data.
Same(u, w) ==
    /\ w \in Airs /\ w.rx = u.rx /\ w.mod = u.mod /\ w.hist = u.hist
    /\ w.bt.eventBuf = u.bt.eventBuf /\ w.bt.tmp = u.bt.tmp

\* u is s without its first line, x, which is no parting.
Reads(s, u, x) ==
    /\ u \in Airs /\ x \in Lines
    /\ u.mod = s.mod /\ u.hist = s.hist
    /\ u.bt.state = s.bt.state /\ u.bt.mode = s.bt.mode
    /\ u.bt.eventBuf = s.bt.eventBuf /\ u.bt.tmp = s.bt.tmp /\ u.bt.event = "NULL"
    /\ Ordered(u)
    /\ x = Parting => (Last(s) => Last(u))
    /\ x # Parting =>
         /\ Parted(u) <=> Parted(s)
         /\ Last(s) => (Last(u) \/ (x \in Greetings /\ ~Parted(u)))
         /\ x \in Greetings => (First(s) /\ (Last(s) \/ Parted(u)))
         /\ x \in Answers => ~First(u)
         /\ First(u) => First(s)

\* BT::task forgets the event of the pass before.
Fresh(s) == [s EXCEPT !.bt.event = "NULL", !.bt.data = <<"NULL">>]

\* That changes nothing else.
LEMMA Freshens ==
  ASSUME NEW s \in Airs
  PROVE  /\ Same(s, Fresh(s)) /\ Fresh(s).bt.event = "NULL"
         /\ Fresh(s).bt.state = s.bt.state /\ Fresh(s).bt.mode = s.bt.mode
  <1>1. s.bt \in Bts /\ "NULL" \in Events BY DEF Airs, Events
  <1> QED BY <1>1 DEF Fresh, Same, Airs, Bts

\* Reading a line.
LEMMA Reading ==
  ASSUME NEW s \in Airs, Ordered(s), s.rx # <<>>
  PROVE  Reads(s, [Fresh(s) EXCEPT !.rx = Tail(@)], Head(s.rx))
  <1> DEFINE f == Fresh(s)
             q == s.rx
             r == Tail(q)
             x == Head(q)
             u == [f EXCEPT !.rx = Tail(@)]
  <1>1. /\ f \in Airs /\ f.rx = q /\ f.mod = s.mod /\ f.hist = s.hist
        /\ f.bt.eventBuf = s.bt.eventBuf /\ f.bt.tmp = s.bt.tmp /\ f.bt.event = "NULL"
        /\ f.bt.state = s.bt.state /\ f.bt.mode = s.bt.mode
    BY Freshens DEF Same
  <1> HIDE DEF f
  <1>2. q \in Seq(Lines) /\ q # <<>> BY DEF Airs
  <1>3. r \in Seq(Lines) BY <1>2
  <1>4. u \in Airs /\ u.rx = r /\ u.mod = f.mod /\ u.hist = f.hist /\ u.bt = f.bt
    BY <1>1, <1>3 DEF Airs
  <1>5. r = Tail(q) /\ x = Head(q) OBVIOUS
  <1> HIDE DEF u, q, r, x
  <1>6. /\ x \in Lines
        /\ Parts(q) <=> (x = Parting \/ Parts(r))
        /\ Lasting(q, Greetings) <=> (Lasting(r, Greetings) \/ (x \in Greetings /\ ~Parts(r)))
        /\ Leading(q) <=> (x \in Greetings \/ (x # Parting /\ Leading(r)))
        /\ Clear(q) <=> (Clear(r) /\ (x \in Answers => ~Leading(r)))
    BY <1>2, <1>5, TailOf, Zenon
  <1>7. Lasting(q, Answers) <=> (Lasting(r, Answers) \/ (x \in Answers /\ ~Parts(r)))
    BY <1>2, <1>5, TailOf, Zenon
  <1>8. Ordered(u)
    BY <1>1, <1>4, <1>6, <1>7 DEF Ordered, Last, q
  <1>9. x = Parting => (Last(s) => Last(u))
    BY <1>1, <1>4, <1>6, PartingIsNone DEF Last, q
  <1>10. x # Parting =>
         /\ Parted(u) <=> Parted(s)
         /\ Last(s) => (Last(u) \/ (x \in Greetings /\ ~Parted(u)))
         /\ First(u) => First(s)
    BY <1>1, <1>4, <1>6 DEF Last, Parted, First, q
  <1>11. x \in Greetings => (First(s) /\ (Last(s) \/ Parted(u)))
    BY <1>1, <1>4, <1>6 DEF Last, Parted, First, q
  <1>12. x \in Answers => ~First(u)
    BY <1>1, <1>4, <1>6, <1>7 DEF Ordered, First, q
  <1>13. Reads(s, u, x)
    BY <1>1, <1>4, <1>6, <1>8, <1>9, <1>10, <1>11, <1>12 DEF Reads
  <1> QED BY <1>13 DEF u, x, q, f

\* A line by its first word.
LEMMA LineCases ==
  ASSUME NEW x \in Lines
  PROVE  /\ x[1] = "DISCONNECT" <=> x = Parting
         /\ x \in Greetings <=> x[1] \in {"CONNECT", "BRSP1", "BRSP0"}
         /\ x \in Answers <=> x[1] \in {"BRSP1", "BRSP0"}
         /\ x[1] = "DATA" => <<x[2], x[3]>> \in Asks \X Ids
         /\ x = <<"GATT_VAL">> => x[1] = "GATT_VAL"
  BY DEF Lines, Parting, Greetings, Answers, Bid

\* What BT::task makes of a line: an event says what the state now is, and a connected
\* driver with no greeting to come stays as it is unless it loses its peer.
TaskRel(s, t) ==
    /\ t \in Airs /\ AirInv(t)
    /\ t.bt.eventBuf = s.bt.eventBuf /\ t.bt.tmp = s.bt.tmp
    /\ t.hist.skipped = s.hist.skipped /\ t.hist.refused = s.hist.refused
    /\ t.bt.event = "DISCONNECT" => t.bt.state = "IDLE"
    /\ t.bt.event = "CONNECT" =>
         (t.bt.state \in Connected /\ (t.hist.eaten \/ ~First(t)))
    /\ t.bt.event # "DISCONNECT" =>
         /\ s.hist.eaten => t.hist.eaten
         /\ First(t) => (First(s) \/ t.hist.eaten)
         /\ (s.bt.state \in Connected /\ ~First(s)) => t.bt.state = s.bt.state
    /\ t.bt.state \in {"CONNECTED_NMX", "CONNECTED_GM"} =>
         (t.bt.state = s.bt.state \/ t.bt.event = "CONNECT")

\* A line was read and the driver changed as it allows.
LEMMA ReadAir ==
  ASSUME NEW s, AirInv(s), NEW u, NEW x, Reads(s, u, x), x # Parting, NEW w, Same(u, w),
         \/ w.bt.state = s.bt.state /\ w.bt.mode = s.bt.mode
              /\ (x \notin Greetings \/ s.bt.state = "CONNECTED")
         \/ /\ w.bt.state \in Linked
            /\ s.bt.state \in Linked \/ x \in Greetings
            /\ w.bt.mode = "DATA" => w.bt.state = "CONNECTED"
            /\ w.bt.state \in Checking => (s.hist.eaten \/ ~First(u))
  PROVE  /\ AirInv(w)
         /\ First(w) <=> First(u)
  <1>1. (First(w) <=> First(u)) /\ (Last(w) <=> Last(u)) /\ (Parted(w) <=> Parted(u))
        /\ (Ordered(w) <=> Ordered(u))
    BY DEF First, Last, Parted, Ordered, Same
  <1>2. w.mod.link = s.mod.link /\ w.hist = s.hist /\ Ordered(w)
    BY <1>1 DEF Same, Reads
  <1>3. "CONNECTED" \in Linked /\ "CONNECTED" \notin Checking BY DEF Linked, Connected, Checking
  <1>4. w.mod.link # "none" =>
          (Last(w) \/ (~Parted(w) /\ (w.bt.state \in Linked \/ w.hist.eaten \/ w.hist.dropped)))
    BY <1>1, <1>2, <1>3 DEF AirInv, Reads
  <1>5. (w.bt.state \in Linked /\ w.mod.link = "none" /\ ~Parted(w)) => w.hist.eaten
    BY <1>1, <1>2, <1>3 DEF AirInv, Reads, Ordered
  <1>6. w.bt.mode = "DATA" => w.bt.state = "CONNECTED"
    BY DEF AirInv
  <1>7. w.bt.state \in Checking => (w.hist.eaten \/ ~First(w))
    BY <1>1, <1>2, <1>3 DEF AirInv, Reads
  <1> QED BY <1>1, <1>2, <1>4, <1>5, <1>6, <1>7 DEF AirInv

\* The parting was read.
LEMMA LostLink ==
  ASSUME NEW s, AirInv(s), NEW u, NEW x, Reads(s, u, x), x = Parting, Parted(s)
  PROVE  TaskRel(s, Lost(u))
  <1> DEFINE t == Lost(u)
  <1>1. u \in Airs /\ u.bt \in Bts /\ u.hist \in Hists /\ "IDLE" \in States /\ "DISCONNECT" \in Events
    BY DEF Reads, Airs, States, Events
  <1>2. /\ t \in Airs /\ t.rx = u.rx /\ t.mod = u.mod /\ t.bt.state = "IDLE" /\ t.bt.mode = "CMD"
        /\ t.bt.event = "DISCONNECT" /\ t.bt.eventBuf = u.bt.eventBuf /\ t.bt.tmp = u.bt.tmp
        /\ t.hist.skipped = u.hist.skipped /\ t.hist.refused = u.hist.refused
    BY <1>1 DEF Lost, Now, Airs, Bts, Hists
  <1> HIDE DEF t
  <1>3. (Last(t) <=> Last(u)) /\ (Ordered(t) <=> Ordered(u))
    BY <1>2 DEF Last, Ordered
  <1>4. AirInv(t)
    BY <1>2, <1>3, StatesDiffer DEF AirInv, Reads, Linked
  <1>5. TaskRel(s, t)
    BY <1>2, <1>4 DEF TaskRel, Reads
  <1> QED BY <1>5 DEF t

\* A line was read that changes nothing but the event.
LEMMA Remarked ==
  ASSUME NEW s, AirInv(s), NEW u, NEW x, Reads(s, u, x), x # Parting, NEW w, Same(u, w),
         w.bt.state = s.bt.state, w.bt.mode = s.bt.mode,
         x \notin Greetings \/ s.bt.state = "CONNECTED",
         w.bt.event \notin {"CONNECT", "DISCONNECT"}
  PROVE  TaskRel(s, w)
  <1>1. AirInv(w) /\ (First(w) <=> First(u)) BY ReadAir
  <1> QED BY <1>1 DEF TaskRel, Reads, Same

\* A line was read that moves the driver on to, or in, a connection.
LEMMA Changed ==
  ASSUME NEW s, AirInv(s), NEW u, NEW x, Reads(s, u, x), x # Parting, NEW w, Same(u, w),
         w.bt.state \in Linked,
         s.bt.state \in Checking \/ x \in Greetings,
         w.bt.mode = "DATA" => w.bt.state = "CONNECTED",
         w.bt.state \in Checking => (s.hist.eaten \/ ~First(u)),
         w.bt.event # "DISCONNECT",
         w.bt.event = "CONNECT" => (w.bt.state \in Connected /\ (s.hist.eaten \/ ~First(u))),
         w.bt.state \in {"CONNECTED_NMX", "CONNECTED_GM"} => w.bt.event = "CONNECT"
  PROVE  TaskRel(s, w)
  <1>1. AirInv(w) /\ (First(w) <=> First(u)) BY ReadAir DEF Linked
  <1>2. (s.bt.state \in Connected /\ ~First(s)) => w.bt.state = s.bt.state
    BY StatesDiffer DEF Reads
  <1> QED BY <1>1, <1>2 DEF TaskRel, Reads, Same

\* A command follows what was read.
LEMMA TaskThen ==
  ASSUME NEW s, NEW w, TaskRel(s, w), NEW t, Direct(w, t), w.bt.state # "SLEEP"
  PROVE  TaskRel(s, t)
  <1>1. Unheard(w, t) /\ t.bt.state = w.bt.state BY DEF Direct, Loose
  <1>2. AirInv(t) BY CommandedAir, DirectCommanded DEF TaskRel
  <1>3. (First(t) => First(w) \/ t.hist.eaten) /\ (w.hist.eaten => t.hist.eaten)
    BY <1>1 DEF Unheard, Flow
  <1> QED BY <1>1, <1>2, <1>3 DEF TaskRel, Unheard

\* Now sets state, mode and event.
LEMMA NowSame ==
  ASSUME NEW u \in Airs, NEW state \in States, NEW mode \in {"CMD", "DATA"}, NEW event \in Events
  PROVE  /\ Same(u, Now(u, state, mode, event))
         /\ Now(u, state, mode, event).bt.state = state
         /\ Now(u, state, mode, event).bt.mode = mode
         /\ Now(u, state, mode, event).bt.event = event
  <1>1. u.bt \in Bts BY DEF Airs
  <1> QED BY <1>1 DEF Now, Same, Airs, Bts

\* The state is set.
LEMMA StateSame ==
  ASSUME NEW u \in Airs, NEW state \in States
  PROVE  /\ Same(u, [u EXCEPT !.bt.state = state])
         /\ [u EXCEPT !.bt.state = state].bt.state = state
         /\ [u EXCEPT !.bt.state = state].bt.mode = u.bt.mode
         /\ [u EXCEPT !.bt.state = state].bt.event = u.bt.event
  <1>1. u.bt \in Bts BY DEF Airs
  <1> QED BY <1>1 DEF Same, Airs, Bts

\* The event is set.
LEMMA EventSame ==
  ASSUME NEW u \in Airs, NEW event \in Events
  PROVE  /\ Same(u, [u EXCEPT !.bt.event = event])
         /\ [u EXCEPT !.bt.event = event].bt.state = u.bt.state
         /\ [u EXCEPT !.bt.event = event].bt.mode = u.bt.mode
         /\ [u EXCEPT !.bt.event = event].bt.event = event
  <1>1. u.bt \in Bts BY DEF Airs
  <1> QED BY <1>1 DEF Same, Airs, Bts

\* CONNECT was read, and a scan cancelled for it.
LEMMA ConnectRead ==
  ASSUME NEW s, AirInv(s), NEW u, NEW x, Reads(s, u, x), x = <<"CONNECT">>, NEW v \in Airs,
         Loose(u, v)
  PROVE  TaskRel(s, [v EXCEPT !.bt.state = "CONNECTED"])
  <1> DEFINE t == [v EXCEPT !.bt.state = "CONNECTED"]
  <1>1. /\ Same(v, t) /\ t.bt.state = "CONNECTED" /\ t.bt.mode = v.bt.mode
        /\ t.bt.event = v.bt.event
    BY StateSame, StatesDiffer
  <1> HIDE DEF t
  <1>2. x \in Greetings /\ x # Parting /\ x \in Lines
    BY DEF Greetings, Parting, Reads
  <1>3. (First(t) <=> First(v)) /\ (Last(t) <=> Last(v)) /\ (Parted(t) <=> Parted(v))
        /\ (Ordered(t) <=> Ordered(v)) /\ t.mod = v.mod /\ t.hist = v.hist /\ t \in Airs
    BY <1>1 DEF First, Last, Parted, Ordered, Same
  <1>4. Flow(u, v) /\ v.bt.event = u.bt.event /\ v.bt.eventBuf = u.bt.eventBuf
        /\ v.bt.tmp = u.bt.tmp /\ v.hist.skipped = u.hist.skipped
        /\ v.hist.refused = u.hist.refused
    BY DEF Loose, Unheard
  <1>5. Ordered(t) BY <1>3, <1>4 DEF Flow, Reads
  <1>6. t.mod.link # "none" => (Last(t) \/ (~Parted(t) /\ t.bt.state \in Linked))
    BY <1>1, <1>2, <1>3, <1>4, StatesDiffer DEF Flow, Reads, AirInv, Linked
  <1>7. (t.mod.link = "none" /\ ~Parted(t)) => t.hist.eaten
    BY <1>2, <1>3, <1>4 DEF Flow, Reads, AirInv, Ordered
  <1>8. AirInv(t)
    BY <1>1, <1>5, <1>6, <1>7, StatesDiffer DEF AirInv
  <1>9. First(s) BY <1>2 DEF Reads
  <1>10. t.bt.event = "NULL" BY <1>1, <1>4 DEF Reads
  <1>11. s.hist.eaten => t.hist.eaten BY <1>3, <1>4 DEF Flow, Reads
  <1>12. TaskRel(s, t)
    BY <1>1, <1>3, <1>4, <1>8, <1>9, <1>10, <1>11 DEF TaskRel, Reads, Same
  <1> QED BY <1>12 DEF t

\* Every line in command mode.
LEMMA CommandLineRel ==
  ASSUME NEW s, AirInv(s), NEW u, NEW x, Reads(s, u, x), s.bt.mode = "CMD",
         x = Parting => Parted(s)
  PROVE  TaskRel(s, CommandLine(u, x))
  <1> DEFINE t == CommandLine(u, x)
             l == x[1]
             state == u.bt.state
  <1>1. u \in Airs /\ x \in Lines /\ state = s.bt.state /\ u.bt.mode = "CMD" /\ u.bt.event = "NULL"
        /\ u.hist = s.hist
    BY DEF Reads
  <1>2. /\ l = "DISCONNECT" <=> x = Parting
        /\ x \in Greetings <=> l \in {"CONNECT", "BRSP1", "BRSP0"}
        /\ x \in Answers <=> l \in {"BRSP1", "BRSP0"}
    BY <1>1, LineCases
  <1>3. {"NULL", "DISCOVERY", "CONNECT", "DISCONNECT", "DATA", "SCAN_COMPLETE"} = Events
        /\ {"CONNECTED", "CONNECTED_NMX", "CONNECTED_GM"} = Connected
        /\ {"CHECKING_NMX", "CHECKING_GM", "AUTHORIZING_GM"} = Checking
        /\ Connected \subseteq States /\ Checking \subseteq States
        /\ Connected \subseteq Linked /\ Checking \subseteq Linked
        /\ "SLEEP" \notin Linked
        /\ Connected \cap Checking = {}
    BY DEF Events, Connected, Checking, Linked, States
  <1>4. Same(u, u) BY <1>1 DEF Same
  <1>5. s.bt.state \in Checking => (s.hist.eaten \/ ~First(s)) BY DEF AirInv
  <1>6. x # Parting => (First(u) => First(s)) BY DEF Reads
  <1>7. x \in Answers => ~First(u)
    BY <1>2 DEF Reads
  <1>8. CASE l = "DISCOVERY"
    <2> DEFINE w == [u EXCEPT !.bt.event = "DISCOVERY"]
    <2>1. t = w BY <1>8 DEF CommandLine
    <2>2. Same(u, w) /\ w.bt.state = state /\ w.bt.mode = "CMD" /\ w.bt.event = "DISCOVERY"
      BY <1>1, <1>3, EventSame
    <2> HIDE DEF w
    <2>3. TaskRel(s, w) BY <2>2, <1>1, <1>2, <1>8, Remarked
    <2> QED BY <2>1, <2>3
  <1>9. CASE l = "DONE"
    <2> DEFINE w == [u EXCEPT !.bt.event = "SCAN_COMPLETE"]
    <2>1. t = w BY <1>9 DEF CommandLine
    <2>2. Same(u, w) /\ w.bt.state = state /\ w.bt.mode = "CMD" /\ w.bt.event = "SCAN_COMPLETE"
      BY <1>1, <1>3, EventSame
    <2> HIDE DEF w
    <2>3. TaskRel(s, w) BY <2>2, <1>1, <1>2, <1>9, Remarked
    <2> QED BY <2>1, <2>3
  <1>10. CASE l = "CONNECT"
    <2> DEFINE v == IF state = "SCAN" THEN cancelScan(u) ELSE u
    <2>1. t = [v EXCEPT !.bt.state = "CONNECTED"] BY <1>10 DEF CommandLine
    <2>2. Loose(u, u)
      <3>1. Heard(u, u) BY Tuned, <1>1, Zenon
      <3> QED BY <3>1, HeardDirect DEF Direct
    <2>3. Loose(u, v) /\ v \in Airs BY <1>1, <2>2, Cancels
    <2>4. x = <<"CONNECT">> BY <1>1, <1>10 DEF Lines
    <2> HIDE DEF v
    <2> QED BY <2>1, <2>3, <2>4, ConnectRead
  <1>11. CASE l = "BRSP1"
    <2>1. t = Now(u, "CONNECTED", "DATA", "CONNECT") BY <1>11 DEF CommandLine
    <2> DEFINE w == Now(u, "CONNECTED", "DATA", "CONNECT")
    <2>2. Same(u, w) /\ w.bt.state = "CONNECTED" /\ w.bt.mode = "DATA" /\ w.bt.event = "CONNECT"
      BY <1>1, <1>3, NowSame, SMTT(30)
    <2> HIDE DEF w
    <2>3. TaskRel(s, w)
      BY <2>2, <1>1, <1>2, <1>3, <1>7, <1>11, Changed
    <2> QED BY <2>1, <2>3 DEF w
  <1>12. CASE l = "BRSP0"
    <2> DEFINE w == Now(u, "CHECKING_NMX", "CMD", "NULL")
    <2>1. t = sendCMD(w, "findNMX") BY <1>12 DEF CommandLine
    <2>2. Same(u, w) /\ w.bt.state = "CHECKING_NMX" /\ w.bt.mode = "CMD" /\ w.bt.event = "NULL"
      BY <1>1, <1>3, NowSame
    <2> HIDE DEF w
    <2>3. TaskRel(s, w)
      BY <2>2, <1>1, <1>2, <1>3, <1>7, <1>12, Changed
    <2>4. Direct(w, sendCMD(w, "findNMX")) BY <2>2, sendCMDDirect DEF Same
    <2> QED BY <2>1, <2>2, <2>3, <2>4, TaskThen
  <1>13. CASE l = "DC_NMX" /\ state = "CHECKING_NMX"
    <2> DEFINE w == Now(u, "CONNECTED_NMX", "CMD", "CONNECT")
    <2>1. t = w BY <1>13 DEF CommandLine
    <2>2. Same(u, w) /\ w.bt.state = "CONNECTED_NMX" /\ w.bt.mode = "CMD" /\ w.bt.event = "CONNECT"
      BY <1>1, <1>3, NowSame
    <2> HIDE DEF w
    <2>3. TaskRel(s, w)
      BY <2>2, <1>1, <1>2, <1>3, <1>5, <1>6, <1>13, Changed
    <2> QED BY <2>1, <2>3
  <1>14. CASE l = "DC_GM" /\ state = "CHECKING_GM"
    <2> DEFINE w == [u EXCEPT !.bt.state = "AUTHORIZING_GM"]
    <2>1. t = w BY <1>14 DEF CommandLine
    <2>2. Same(u, w) /\ w.bt.state = "AUTHORIZING_GM" /\ w.bt.mode = "CMD" /\ w.bt.event = "NULL"
      BY <1>1, <1>3, StateSame
    <2> HIDE DEF w
    <2>3. TaskRel(s, w)
      BY <2>2, <1>1, <1>2, <1>3, <1>5, <1>6, <1>14, Changed
    <2> QED BY <2>1, <2>3
  <1>15. CASE l = "GATT_DONE"
    <2>0. t = GattDone(u) BY <1>15 DEF CommandLine
    <2>1. CASE state = "CHECKING_NMX"
      <3> DEFINE w == [u EXCEPT !.bt.state = "CHECKING_GM"]
      <3>1. t = sendCMD(w, "findGM") BY <2>0, <2>1 DEF GattDone
      <3>2. Same(u, w) /\ w.bt.state = "CHECKING_GM" /\ w.bt.mode = "CMD" /\ w.bt.event = "NULL"
        BY <1>1, <1>3, StateSame
      <3> HIDE DEF w
      <3>3. TaskRel(s, w)
        BY <3>2, <2>1, <1>1, <1>2, <1>3, <1>5, <1>6, <1>15, Changed
      <3>4. Direct(w, sendCMD(w, "findGM")) BY <3>2, sendCMDDirect DEF Same
      <3> QED BY <3>1, <3>2, <3>3, <3>4, TaskThen
    <2>2. CASE state = "CHECKING_GM"
      <3> DEFINE w == [u EXCEPT !.bt.state = "CONNECTED"]
      <3>1. t = disconnect(w) BY <2>0, <2>2 DEF GattDone
      <3>2. Same(u, w) /\ w.bt.state = "CONNECTED" /\ w.bt.mode = "CMD" /\ w.bt.event = "NULL"
        BY <1>1, <1>3, StateSame
      <3> HIDE DEF w
      <3>3. TaskRel(s, w)
        BY <3>2, <2>2, <1>1, <1>2, <1>3, <1>15, Changed
      <3>4. Direct(w, disconnect(w)) BY <3>2, Disconnects DEF Same
      <3> QED BY <3>1, <3>2, <3>3, <3>4, TaskThen
    <2>3. CASE state = "AUTHORIZING_GM"
      <3> DEFINE w == Now(u, "CONNECTED_GM", "CMD", "CONNECT")
      <3>1. t = sendCMD(w, "write") BY <2>0, <2>3 DEF GattDone
      <3>2. Same(u, w) /\ w.bt.state = "CONNECTED_GM" /\ w.bt.mode = "CMD" /\ w.bt.event = "CONNECT"
        <4>1. "CONNECTED_GM" \in States /\ "CONNECT" \in Events /\ "CMD" \in {"CMD", "DATA"}
          BY <1>3
        <4> QED BY <1>1, <4>1, NowSame
      <3> HIDE DEF w
      <3>3. TaskRel(s, w)
        BY <3>2, <2>3, <1>1, <1>2, <1>3, <1>5, <1>6, <1>15, Changed
      <3>4. Direct(w, sendCMD(w, "write")) BY <3>2, sendCMDDirect DEF Same
      <3> QED BY <3>1, <3>2, <3>3, <3>4, TaskThen
    <2>4. CASE state \notin {"CHECKING_NMX", "CHECKING_GM", "AUTHORIZING_GM"}
      <3>1. t = u BY <2>0, <2>4 DEF GattDone
      <3> QED BY <3>1, <1>1, <1>2, <1>4, <1>15, Remarked
    <2> QED BY <2>1, <2>2, <2>3, <2>4
  <1>16. CASE l = "DISCONNECT"
    <2>1. t = Lost(u) BY <1>16 DEF CommandLine
    <2> QED BY <2>1, <1>2, <1>16, LostLink
  <1>17. CASE /\ l \notin {"DISCOVERY", "DONE", "CONNECT", "BRSP1", "BRSP0", "GATT_DONE", "DISCONNECT"}
              /\ ~(l = "DC_NMX" /\ state = "CHECKING_NMX")
              /\ ~(l = "DC_GM" /\ state = "CHECKING_GM")
    <2>1. t = u BY <1>17 DEF CommandLine
    <2> QED BY <2>1, <1>1, <1>2, <1>4, <1>17, Remarked
  <1> HIDE DEF l, state
  <1> QED BY <1>8, <1>9, <1>10, <1>11, <1>12, <1>13, <1>14, <1>15, <1>16, <1>17

\* Every line in data mode.
LEMMA DataLineRel ==
  ASSUME NEW s, AirInv(s), NEW u, NEW x, Reads(s, u, x), s.bt.mode = "DATA",
         x = Parting => Parted(s)
  PROVE  TaskRel(s, DataLine(u, x))
  <1> DEFINE t == DataLine(u, x)
             w == [u EXCEPT !.bt.event = "DATA", !.bt.data = <<x[2], x[3]>>]
  <1>1. /\ u \in Airs /\ u.bt \in Bts /\ x \in Lines /\ u.bt.state = s.bt.state /\ u.bt.mode = s.bt.mode
        /\ u.bt.event = "NULL" /\ s.bt.state = "CONNECTED" /\ "DATA" \in Events
    BY DEF Reads, AirInv, Airs, Events
  <1>2. (x[1] = "DISCONNECT" <=> x = Parting) /\ (x[1] = "DATA" => <<x[2], x[3]>> \in Asks \X Ids)
    BY <1>1, LineCases
  <1>3. CASE x[1] = "DISCONNECT"
    <2>1. t = Lost(u) BY <1>3 DEF DataLine
    <2> QED BY <2>1, <1>2, <1>3, LostLink
  <1>4. CASE x[1] = "DATA"
    <2>1. t = w BY <1>4 DEF DataLine
    <2>2. Same(u, w) /\ w.bt.state = u.bt.state /\ w.bt.mode = u.bt.mode /\ w.bt.event = "DATA"
      <3> DEFINE d == <<x[2], x[3]>>
      <3>1. d \in Asks \X Ids BY <1>2, <1>4
      <3> HIDE DEF d
      <3>2. LET y == [u EXCEPT !.bt.event = "DATA", !.bt.data = d]
            IN  Same(u, y) /\ y.bt.state = u.bt.state /\ y.bt.mode = u.bt.mode /\ y.bt.event = "DATA"
        BY <1>1, <3>1 DEF Same, Airs, Bts
      <3> QED BY <3>2 DEF d
    <2> HIDE DEF w
    <2>3. TaskRel(s, w) BY <2>2, <1>1, <1>2, <1>4, Remarked
    <2> QED BY <2>1, <2>3
  <1>5. CASE x[1] \notin {"DISCONNECT", "DATA"}
    <2>1. t = u BY <1>5 DEF DataLine
    <2>2. Same(u, u) BY <1>1 DEF Same
    <2> QED BY <2>1, <2>2, <1>1, <1>2, <1>5, Remarked
  <1> QED BY <1>3, <1>4, <1>5

\* BT::task, when no event is held back; the value of a query is no event.
LEMMA TaskReads ==
  ASSUME NEW s \in Airs, AirInv(s), s.bt.eventBuf = "NULL"
  PROVE  /\ TaskRel(s, task(s))
         /\ (s.rx = <<>> \/ (s.bt.mode = "CMD" /\ Head(s.rx) = <<"GATT_VAL">>))
              => task(s).bt.event = "NULL"
  <1> DEFINE x == Head(s.rx)
             u == [Fresh(s) EXCEPT !.rx = Tail(@)]
  <1>1. task(s) = IF s.rx = <<>> THEN Fresh(s)
                  ELSE IF s.bt.mode = "CMD" THEN CommandLine(u, x) ELSE DataLine(u, x)
    BY DEF task, Fresh
  <1>2. CASE s.rx = <<>>
    <2> DEFINE w == Fresh(s)
    <2>1. Same(s, w) /\ w.bt.event = "NULL" /\ w.bt.state = s.bt.state /\ w.bt.mode = s.bt.mode
      BY Freshens
    <2> HIDE DEF w
    <2>2. (First(w) <=> First(s)) /\ (Last(w) <=> Last(s)) /\ (Parted(w) <=> Parted(s))
          /\ (Ordered(w) <=> Ordered(s)) /\ w.mod = s.mod /\ w.hist = s.hist /\ w \in Airs
      BY <2>1 DEF First, Last, Parted, Ordered, Same
    <2>3. AirInv(w) BY <2>1, <2>2 DEF AirInv
    <2>4. TaskRel(s, w) BY <2>1, <2>2, <2>3 DEF TaskRel, Same
    <2> QED BY <1>1, <1>2, <2>1, <2>4 DEF w
  <1>3. CASE s.rx # <<>>
    <2>1. Reads(s, u, x) BY <1>3, Reading DEF AirInv
    <2>2. x = Parting => Parted(s)
      <3>1. s.rx \in Seq(Lines) BY DEF Airs
      <3>2. 1 \in DOMAIN s.rx /\ s.rx[1] = x BY <3>1, <1>3
      <3> QED BY <3>2 DEF Parted, Parts
    <2>3. s.bt.mode \in {"CMD", "DATA"} BY DEF Airs, Bts
    <2>4. (s.bt.mode = "CMD" /\ x = <<"GATT_VAL">>) => CommandLine(u, x).bt.event = "NULL"
      <3>1. x = <<"GATT_VAL">> => x[1] = "GATT_VAL" OBVIOUS
      <3>2. u.bt.event = "NULL" BY <2>1 DEF Reads
      <3> HIDE DEF u, x
      <3> QED BY <3>1, <3>2 DEF CommandLine
    <2> HIDE DEF u, x
    <2>5. s.bt.mode = "CMD" => TaskRel(s, CommandLine(u, x))
      BY <2>1, <2>2, CommandLineRel
    <2>6. s.bt.mode = "DATA" => TaskRel(s, DataLine(u, x))
      BY <2>1, <2>2, DataLineRel
    <2> QED BY <1>1, <1>3, <2>3, <2>4, <2>5, <2>6 DEF x
  <1> QED BY <1>2, <1>3

\* BT::task, when an event is held back: it is delivered and no line is read.
Delivers(s, t) ==
    /\ t \in Airs /\ AirInv(t)
    /\ t.bt.event = s.bt.eventBuf /\ t.bt.eventBuf = "NULL" /\ t.bt.tmp = s.bt.tmp
    /\ t.bt.state = s.bt.state /\ t.hist = s.hist /\ (First(t) <=> First(s))

\* It does.
LEMMA TaskDelivers ==
  ASSUME NEW s \in Airs, AirInv(s), s.bt.eventBuf # "NULL"
  PROVE  Delivers(s, task(s))
  <1> DEFINE t == task(s)
  <1> DEFINE v == s.bt.eventBuf
             b == [s.bt EXCEPT !.event = v, !.eventBuf = "NULL"]
  <1>1. s.bt \in Bts /\ "NULL" \in Events /\ v \in Events BY DEF Airs, Bts, Events
  <1>2. t = [s EXCEPT !.bt = b]
    BY <1>1 DEF task, Airs, Bts
  <1>3. /\ b \in Bts /\ b.event = v /\ b.eventBuf = "NULL" /\ b.tmp = s.bt.tmp
        /\ b.state = s.bt.state /\ b.mode = s.bt.mode
    <2> HIDE DEF v
    <2> QED BY <1>1 DEF Bts
  <1> HIDE DEF b
  <1>4. /\ t \in Airs /\ t.bt.event = s.bt.eventBuf /\ t.bt.eventBuf = "NULL" /\ t.bt.tmp = s.bt.tmp
        /\ t.bt.state = s.bt.state /\ t.bt.mode = s.bt.mode /\ t.hist = s.hist /\ t.rx = s.rx
        /\ t.mod = s.mod
    BY <1>2, <1>3 DEF Airs
  <1> HIDE DEF t
  <1>5. (First(t) <=> First(s)) /\ (Last(t) <=> Last(s)) /\ (Parted(t) <=> Parted(s))
        /\ (Ordered(t) <=> Ordered(s))
    BY <1>4 DEF First, Last, Parted, Ordered
  <1>6. AirInv(t) BY <1>4, <1>5 DEF AirInv
  <1>7. Delivers(s, t) BY <1>4, <1>5, <1>6 DEF Delivers
  <1> QED BY <1>7 DEF t

-----------------------------------------------------------------------------

\* The states with a motion controller or a gimbal, and the types of the rest.
Motorised == {"CONNECTED_NMX", "CONNECTED_GM"}
Rems == [connected : BOOLEAN, nmx : BOOLEAN, motors : BOOLEAN, checked : BOOLEAN]
Mains == [at : {"menu", "timer", "task", "notify", "remote", "write", "read", "wait"},
          back : {"menu", "timer", "task", "remote"}, ask : BOOLEAN]

\* Where the main loop is before the event of this pass is read, or after it is
\* handled; where it has still to be handled.
Outside(m) == m.at \in {"menu", "timer", "task"}
                \/ (m.at \in {"write", "read"} /\ m.back # "remote")
Before(m) == m.at \in {"notify", "remote"} \/ (m.at \in {"write", "read"} /\ m.back = "remote")

\* A lost connection is still to be handled; a connection made is remembered.
Pending(s, m) == \/ s.bt.eventBuf = "DISCONNECT" \/ s.bt.tmp = "DISCONNECT"
                 \/ s.bt.event = "DISCONNECT" /\ Before(m)
Announced(s) == s.bt.event = "CONNECT" \/ s.bt.eventBuf = "CONNECT" \/ s.bt.tmp = "CONNECT"

\* A loss still to be handled is not followed by a connection that nobody was told of;
\* a connection remembered still stands, with no greeting to come; the flags follow the
\* state; a loss that was handled cleared the flags; eventBuf and tmp are in use only
\* where waitEvent uses them.
PendInv(s, m) == (Pending(s, m) /\ ~s.hist.skipped) => s.bt.state \notin Motorised
ConnInv(s) == (Announced(s) /\ ~s.hist.eaten /\ ~s.hist.skipped) =>
                 (s.bt.state \in Connected /\ ~First(s))
FlagInv(s, m, r) ==
    (~Pending(s, m) /\ ~s.hist.eaten /\ ~s.hist.skipped) =>
        /\ r.connected => s.bt.state = "CONNECTED"
        /\ r.nmx => s.bt.state \in Motorised
        /\ (r.connected \/ r.nmx) => ~First(s)
StaleInv(s, m, r) ==
    (s.bt.event = "DISCONNECT" /\ Outside(m)) => (~r.connected /\ ~r.nmx)
BufferInv(s, m) ==
    /\ (Before(m) /\ (m.at = "remote" => s.bt.event # "NULL")) => s.bt.eventBuf = "NULL"
    /\ m.at # "wait" => s.bt.tmp = "NULL"
    /\ m.at = "read" => s.bt.state = "CONNECTED_NMX"

\* What the rest of the firmware was told, at m, with the flags r.
Told(s, m, r) == PendInv(s, m) /\ ConnInv(s) /\ FlagInv(s, m, r) /\ StaleInv(s, m, r)
                   /\ BufferInv(s, m)

\* Every command keeps it.
LEMMA CommandedTold ==
  ASSUME NEW s, NEW t, NEW m, NEW r, Told(s, m, r), Commanded(s, t)
  PROVE  Told(t, m, r)
  <1>1. /\ t.bt.event = s.bt.event /\ t.bt.eventBuf = s.bt.eventBuf /\ t.bt.tmp = s.bt.tmp
        /\ t.hist.skipped = s.hist.skipped /\ (s.hist.eaten => t.hist.eaten)
        /\ (First(t) => (First(s) \/ t.hist.eaten))
    BY DEF Commanded, Unheard, Flow
  <1>2. \/ t.bt.state = s.bt.state
        \/ t.bt.state \in Low /\ s.bt.state \notin Connected
    BY DEF Commanded
  <1>3. (Pending(t, m) <=> Pending(s, m)) /\ (Announced(t) <=> Announced(s))
    BY <1>1 DEF Pending, Announced
  <1>4. Motorised \subseteq Connected /\ "CONNECTED" \in Connected /\ "CONNECTED_NMX" \in Connected
        /\ Low \cap Motorised = {}
    BY DEF Motorised, Connected, Low
  <1>5. PendInv(t, m) BY <1>1, <1>2, <1>3, <1>4 DEF Told, PendInv
  <1>6. ConnInv(t) BY <1>1, <1>2, <1>3 DEF Told, ConnInv
  <1>7. FlagInv(t, m, r) BY <1>1, <1>2, <1>3, <1>4 DEF Told, FlagInv
  <1>8. StaleInv(t, m, r) BY <1>1 DEF Told, StaleInv
  <1>9. BufferInv(t, m) BY <1>1, <1>2, <1>4 DEF Told, BufferInv
  <1> QED BY <1>5, <1>6, <1>7, <1>8, <1>9 DEF Told

\* The driver's part of the invariant says nothing of ok, nor of what was refused.
Alike(s, t) ==
    /\ t.rx = s.rx /\ t.mod = s.mod /\ t.hist.eaten = s.hist.eaten
    /\ t.hist.dropped = s.hist.dropped /\ t.hist.skipped = s.hist.skipped
    /\ t.bt.state = s.bt.state /\ t.bt.mode = s.bt.mode
    /\ t.bt.eventBuf = s.bt.eventBuf /\ t.bt.tmp = s.bt.tmp

\* Hence they keep what is known of them; an event that was handled may be forgotten.
LEMMA AlikeKeeps ==
  ASSUME NEW s, NEW t, Alike(s, t)
  PROVE  /\ AirInv(s) => AirInv(t)
         /\ First(t) <=> First(s)
         /\ t.bt.event = s.bt.event =>
              \A m, r : Told(s, m, r) => Told(t, m, r)
         /\ t.bt.event = "NULL" =>
              \A m, r : (Told(s, m, r) /\ Outside(m)) => Told(t, m, r)
  <1>1. (First(t) <=> First(s)) /\ (Last(t) <=> Last(s)) /\ (Parted(t) <=> Parted(s))
        /\ (Ordered(t) <=> Ordered(s))
    BY DEF First, Last, Parted, Ordered, Alike
  <1>2. AirInv(s) => AirInv(t) BY <1>1 DEF AirInv, Alike
  <1>3. ASSUME t.bt.event = s.bt.event, NEW m, NEW r, Told(s, m, r)
        PROVE  Told(t, m, r)
    BY <1>1, <1>3 DEF Told, PendInv, ConnInv, FlagInv, StaleInv, BufferInv, Pending, Announced, Alike
  <1>4. ASSUME t.bt.event = "NULL", NEW m, NEW r, Told(s, m, r), Outside(m)
        PROVE  Told(t, m, r)
    <2>1. ~Before(m) BY <1>4 DEF Outside, Before
    <2> QED BY <1>1, <1>4, <2>1
        DEF Told, PendInv, ConnInv, FlagInv, StaleInv, BufferInv, Pending, Announced, Alike
  <1> QED BY <1>1, <1>2, <1>3, <1>4

\* The main loop moves on within a pass, or to the next one.
LEMMA MovesOn ==
  ASSUME NEW s, NEW m, NEW n, NEW r, Told(s, m, r),
         \/ Outside(m) /\ Outside(n) /\ m.at # "wait" /\ (n.at = "read" => s.bt.state = "CONNECTED_NMX")
         \/ Before(m) /\ Before(n) /\ m.at # "remote"
              /\ (n.at = "read" => s.bt.state = "CONNECTED_NMX")
         \/ m.at = "remote" /\ Outside(n) /\ n.at # "read" /\ s.bt.event # "DISCONNECT"
  PROVE  Told(s, n, r)
  <1>1. Pending(s, n) <=> Pending(s, m) BY DEF Pending, Before, Outside
  <1>2. BufferInv(s, n) BY DEF Told, BufferInv, Before, Outside
  <1>3. StaleInv(s, n, r) BY DEF Told, StaleInv, Before, Outside
  <1> QED BY <1>1, <1>2, <1>3 DEF Told, PendInv, ConnInv, FlagInv

-----------------------------------------------------------------------------

\* Where the main loop goes back to, and for what.
MainInv(m) ==
    /\ m \in Mains
    /\ m.at \in {"write", "read", "wait"} <=> m.back # "menu"
    /\ m.ask => m.back = "remote"

\* Motors are looked for, and known, while the last notification told of the
\* motion controller.
MotorInv(r, c, m) == (r.motors \/ r.checked \/ m.ask) => c.nmx

\* The firmware's own items come first; a paired unit watches a value once.
ItemInv(table) ==
    /\ table \in [1 .. MaxItems -> Ids \cup {"free", "own"}]
    /\ \A i \in 1 .. MaxItems : i <= OwnItems <=> table[i] = "own"
    /\ \A i, j \in 1 .. MaxItems : (table[i] \in Ids /\ table[i] = table[j]) => i = j

\* The driver and the flags; the main loop and the motors; the table of watched items.
LinkInv == Air \in Airs /\ AirInv(Air) /\ Told(Air, main, rem)
RestInv == /\ MainInv(main) /\ rem \in Rems /\ chk \in [connected : BOOLEAN, nmx : BOOLEAN]
           /\ MotorInv(rem, chk, main)
TableInv == ItemInv(items) /\ ~hist.refused

\* The inductive invariant.
BtInv == LinkInv /\ RestInv /\ TableInv

-----------------------------------------------------------------------------

\* The types of the state are those of the variables.
LEMMA AirTypes ==
  Air \in Airs <=> (rx \in Seq(Lines) /\ mod \in Mods /\ bt \in Bts /\ hist \in Hists)
  BY DEF Air, Airs

\* Its parts are the variables.
LEMMA AirFields ==
  /\ Air.rx = rx /\ Air.mod = mod /\ Air.bt = bt /\ Air.hist = hist
  /\ Air'.rx = rx' /\ Air'.mod = mod' /\ Air'.bt = bt' /\ Air'.hist = hist'
  BY DEF Air

\* The variables after an action that puts s.
LEMMA Puts ==
  ASSUME NEW s \in Airs, Put(s)
  PROVE  /\ Air' \in Airs /\ Alike(s, Air') /\ Air'.bt = s.bt /\ Air'.hist = s.hist
         /\ bt' = s.bt /\ hist' = s.hist
  <1>1. rx' = s.rx /\ mod' = s.mod /\ bt' = s.bt /\ hist' = s.hist BY DEF Put
  <1>2. Air' = [rx |-> s.rx, mod |-> s.mod, bt |-> s.bt, hist |-> s.hist, ok |-> TRUE]
    BY <1>1 DEF Air
  <1> QED BY <1>1, <1>2 DEF Airs, Alike

\* A flag may be cleared at any time.
LEMMA Forgets ==
  ASSUME NEW s, NEW m, NEW r, NEW q, Told(s, m, r),
         q.connected => r.connected, q.nmx => r.nmx
  PROVE  Told(s, m, q)
  BY DEF Told, FlagInv, StaleInv

\* What a command leaves behind.
LEMMA CommandKeeps ==
  ASSUME LinkInv, ~hist.refused, NEW s, Commanded(Air, s), Put(s)
  PROVE  /\ Air' \in Airs /\ AirInv(Air') /\ Told(Air', main, rem) /\ ~hist'.refused
         /\ bt'.event = bt.event /\ bt'.state = s.bt.state
  <1>1. s \in Airs /\ s.bt.event = Air.bt.event /\ s.hist.refused = Air.hist.refused
    BY DEF Commanded, Unheard
  <1>2. AirInv(s) BY CommandedAir DEF LinkInv
  <1>3. Told(s, main, rem) BY CommandedTold DEF LinkInv
  <1>4. Air' \in Airs /\ Alike(s, Air') /\ Air'.bt = s.bt /\ Air'.hist = s.hist BY <1>1, Puts
  <1>5. AirInv(Air') BY <1>2, <1>4, AlikeKeeps
  <1>6. Told(Air', main, rem) BY <1>3, <1>4, AlikeKeeps
  <1> QED BY <1>1, <1>4, <1>5, <1>6, AirFields

\* No command at all is a command.
LEMMA AirIsAir == LinkInv => Commanded(Air, Air) /\ Loose(Air, Air)
  <1> SUFFICES ASSUME LinkInv PROVE Commanded(Air, Air) /\ Loose(Air, Air) OBVIOUS
  <1>1. Flow(Air, Air) /\ Trail(Air, Air) BY Still
  <1> QED BY <1>1 DEF Commanded, Loose, Unheard, LinkInv

-----------------------------------------------------------------------------

\* The screen opens, closes, dials or hangs up: these are commands.
LEMMA ScreenCommands ==
  ASSUME LinkInv, ScreenOpens \/ ScreenCloses \/ Dial \/ HangUp
  PROVE  \E s : Commanded(Air, s) /\ Loose(Air, s) /\ Put(s)
  <1>0. Air \in Airs /\ Commanded(Air, Air) /\ Loose(Air, Air) BY AirIsAir DEF LinkInv
  <1>1. CASE ScreenOpens
    <2>1. Commanded(Air, advertise(Air)) /\ Loose(Air, advertise(Air)) /\ advertise(Air) \in Airs
      BY <1>0, Advertises
    <2>2. /\ Commanded(advertise(Air), scan(advertise(Air)))
          /\ Loose(advertise(Air), scan(advertise(Air)))
      BY <2>1, Scans
    <2>3. Commanded(Air, scan(advertise(Air))) /\ Loose(Air, scan(advertise(Air)))
      BY <2>1, <2>2, CommandedOn, LooseOn
    <2> QED BY <1>0, <1>1, <2>3 DEF ScreenOpens
  <1>2. CASE ScreenCloses
    <2>1. Commanded(Air, advertise(Air)) /\ Loose(Air, advertise(Air)) BY <1>0, Advertises
    <2>2. \A old \in BOOLEAN : Commanded(Air, sleep(Air, old)) /\ Loose(Air, sleep(Air, old))
      BY <1>0, Sleeps
    <2> QED BY <1>2, <2>1, <2>2 DEF ScreenCloses
  <1>3. CASE Dial
    <2>1. PICK p \in Peers : Put(connect(Air, p)) BY <1>3 DEF Dial
    <2>2. Commanded(Air, connect(Air, p)) /\ Loose(Air, connect(Air, p)) BY <1>0, Connects
    <2> QED BY <2>1, <2>2
  <1>4. CASE HangUp
    <2> DEFINE w == IF rem.nmx /\ bt.state = "CONNECTED_NMX" THEN Command(Air, "write") ELSE Air
    <2>1. /\ Command(Air, "write") \in Airs /\ Commanded(Air, Command(Air, "write"))
          /\ Loose(Air, Command(Air, "write"))
      BY <1>0, CommandDirect, DirectCommanded DEF Direct
    <2>2. w \in Airs /\ Commanded(Air, w) /\ Loose(Air, w) BY <1>0, <2>1
    <2>3. Put(disconnect(w)) BY <1>4 DEF HangUp
    <2> HIDE DEF w
    <2>4. Commanded(w, disconnect(w)) /\ Loose(w, disconnect(w)) BY <2>2, Disconnects DEF Direct
    <2>5. Commanded(Air, disconnect(w)) /\ Loose(Air, disconnect(w))
      BY <2>2, <2>4, CommandedOn, LooseOn
    <2> QED BY <2>3, <2>5
  <1> QED BY <1>1, <1>2, <1>3, <1>4

\* They keep the invariant.
LEMMA ScreenSteps ==
  ASSUME BtInv, ScreenOpens \/ ScreenCloses \/ Dial \/ HangUp
  PROVE  BtInv'
  <1>1. /\ main.at = "menu" /\ main' = [main EXCEPT !.at = "timer"]
        /\ items' = items /\ chk' = chk /\ LinkInv /\ ~hist.refused
    BY DEF BtInv, TableInv, ScreenOpens, ScreenCloses, Dial, HangUp, Goto
  <1>2. rem \in Rems /\ rem' \in Rems /\ rem'.connected = rem.connected
        /\ (rem'.nmx => rem.nmx) /\ rem'.motors = rem.motors /\ rem'.checked = rem.checked
    <2>1. rem \in Rems BY DEF BtInv, RestInv
    <2>2. rem' = rem \/ rem' = [rem EXCEPT !.nmx = FALSE]
      BY DEF ScreenOpens, ScreenCloses, Dial, HangUp
    <2> QED BY <2>1, <2>2 DEF Rems
  <1>3. \E s : Commanded(Air, s) /\ Put(s) BY <1>1, ScreenCommands
  <1>4. Air' \in Airs /\ AirInv(Air') /\ Told(Air', main, rem) /\ ~hist'.refused
    BY <1>1, <1>3, CommandKeeps
  <1>5. MainInv(main') /\ Outside(main) /\ Outside(main') /\ main'.at = "timer" /\ main'.ask = main.ask
    BY <1>1 DEF BtInv, RestInv, MainInv, Mains, Outside
  <1>6. Told(Air', main', rem) BY <1>1, <1>4, <1>5, MovesOn
  <1>7. Told(Air', main', rem') BY <1>2, <1>6, Forgets
  <1>8. LinkInv' BY <1>4, <1>7 DEF LinkInv
  <1>9. RestInv' BY <1>1, <1>2, <1>5 DEF BtInv, RestInv, MotorInv
  <1>10. TableInv' BY <1>1, <1>4 DEF BtInv, TableInv
  <1> QED BY <1>8, <1>9, <1>10 DEF BtInv

-----------------------------------------------------------------------------

\* A step of the radio that leaves the firmware alone.
LEMMA RadioKeeps ==
  ASSUME BtInv, Air' \in Airs, Flow(Air, Air'), Air'.bt = Air.bt,
         Air'.hist.dropped = Air.hist.dropped, Air'.hist.skipped = Air.hist.skipped,
         Air'.hist.refused = Air.hist.refused, UNCHANGED <<rem, items, chk, main>>
  PROVE  BtInv'
  <1> DEFINE s == Air
             t == Air'
  <1>1. /\ AirInv(s) /\ Told(s, main, rem) /\ Flow(s, t) /\ t.bt = s.bt
        /\ t.hist.dropped = s.hist.dropped /\ t.hist.skipped = s.hist.skipped
    BY DEF BtInv, LinkInv
  <1>2. ~hist'.refused BY AirFields DEF BtInv, TableInv
  <1> HIDE DEF s, t
  <1>3. AirInv(t) BY <1>1 DEF Flow, AirInv
  <1>4. (Pending(t, main) <=> Pending(s, main)) /\ (Announced(t) <=> Announced(s))
    BY <1>1 DEF Pending, Announced
  <1>5. (First(t) => (First(s) \/ t.hist.eaten)) /\ (s.hist.eaten => t.hist.eaten)
    BY <1>1 DEF Flow
  <1>6. Told(t, main, rem)
    BY <1>1, <1>4, <1>5 DEF Told, PendInv, ConnInv, FlagInv, StaleInv, BufferInv
  <1> QED BY <1>2, <1>3, <1>6 DEF BtInv, LinkInv, RestInv, TableInv, t

\* A line passes from one queue to the other: their order stays.
LEMMA EmitHeard ==
  ASSUME BtInv, Emit
  PROVE  /\ Heard(Air, Air') /\ Air'.hist = Air.hist /\ Air'.mod.link = Air.mod.link
         /\ UNCHANGED <<rem, items, chk, main>>
  <1> DEFINE q == rx
             a == mod.say
             b == Tail(a)
             x == Head(a)
             r == Append(q, x)
             d == (mod.data \/ x = <<"BRSP1">>) /\ x # <<"DISCONNECT">>
             n == [mod EXCEPT !.say = b, !.data = d]
  <1>1. Air \in Airs /\ q \in Seq(Lines) /\ mod \in Mods /\ bt \in Bts /\ hist \in Hists
    BY AirTypes DEF BtInv, LinkInv
  <1>2. a \in Seq(Lines) /\ a # <<>> BY <1>1 DEF Mods, Emit
  <1>3. /\ rx' = r /\ mod' = n /\ bt' = bt /\ hist' = hist
        /\ UNCHANGED <<rem, items, chk, main>>
    BY DEF Emit
  <1>4. b \in Seq(Lines) /\ x \in Lines /\ r \in Seq(Lines)
    BY <1>1, <1>2
  <1>5. d \in BOOLEAN OBVIOUS
  <1>6. n \in Mods /\ n.say = b /\ n.link = mod.link
    <2> HIDE DEF b, d
    <2> QED BY <1>1, <1>4, <1>5 DEF Mods
  <1>7. Air' \in Airs BY <1>1, <1>3, <1>4, <1>6 DEF Air, Airs
  <1>8. /\ Parts(r) <=> (Parts(q) \/ x = Parting)
        /\ Lasting(r, Greetings) <=> (x \in Greetings \/ (Lasting(q, Greetings) /\ x # Parting))
        /\ Lasting(r, Answers) <=> (x \in Answers \/ (Lasting(q, Answers) /\ x # Parting))
        /\ Leading(r) <=> (Leading(q) \/ (x \in Greetings /\ ~Parts(q)))
        /\ Clear(r) <=> (Clear(q) /\ (x \in Greetings => ~Lasting(q, Answers)))
    <2>1. r = Append(q, x) OBVIOUS
    <2> HIDE DEF q, r, x, a, b
    <2>2. /\ Parts(r) <=> (Parts(q) \/ x = Parting)
          /\ Lasting(r, Greetings) <=> (x \in Greetings \/ (Lasting(q, Greetings) /\ x # Parting))
          /\ Leading(r) <=> (Leading(q) \/ (x \in Greetings /\ ~Parts(q)))
          /\ Clear(r) <=> (Clear(q) /\ (x \in Greetings => ~Lasting(q, Answers)))
      BY <1>1, <1>4, <2>1, Appended, Zenon
    <2>3. Lasting(r, Answers) <=> (x \in Answers \/ (Lasting(q, Answers) /\ x # Parting))
      BY <1>1, <1>4, <2>1, Appended, Zenon
    <2> QED BY <2>2, <2>3
  <1>9. /\ Parts(a) <=> (x = Parting \/ Parts(b))
        /\ Lasting(a, Greetings) <=> (Lasting(b, Greetings) \/ (x \in Greetings /\ ~Parts(b)))
        /\ Leading(a) <=> (x \in Greetings \/ (x # Parting /\ Leading(b)))
        /\ Clear(a) <=> (Clear(b) /\ (x \in Answers => ~Leading(b)))
    <2>1. b = Tail(a) /\ x = Head(a) OBVIOUS
    <2> HIDE DEF q, r, x, a, b
    <2> QED BY <1>2, <2>1, TailOf, Zenon
  <1>10. Air'.rx = r /\ Air'.mod.say = b /\ Air'.mod.link = Air.mod.link
         /\ Air.rx = q /\ Air.mod.say = a /\ Air'.bt = Air.bt /\ Air'.hist = Air.hist
    BY <1>3, <1>6, AirFields
  <1> HIDE DEF q, r, x, a, b
  <1>11. /\ Parted(Air') <=> Parted(Air)
         /\ Last(Air') <=> Last(Air)
         /\ First(Air') <=> First(Air)
    BY <1>8, <1>9, <1>10, PartingIsNone, Zenon DEF Parted, Last, First
  <1>12. Ordered(Air) => Ordered(Air')
    <2>1. x \in Answers => (x \in Greetings /\ x # Parting) BY PartingIsNone
    <2> QED BY <2>1, <1>8, <1>9, <1>10, <1>11, Zenon DEF Ordered
  <1>13. Flow(Air, Air') BY <1>10, <1>11, <1>12 DEF Flow
  <1>14. /\ Lasting(r, {Bid}) <=> (x = Bid \/ (Lasting(q, {Bid}) /\ x # Parting))
         /\ Lasting(a, {Bid}) <=> (Lasting(b, {Bid}) \/ (x = Bid /\ ~Parts(b)))
    <2>1. r = Append(q, x) /\ b = Tail(a) /\ x = Head(a) BY DEF q, r, x, a, b
    <2>2. Lasting(r, {Bid}) <=> (x \in {Bid} \/ (Lasting(q, {Bid}) /\ x # Parting))
      BY <1>1, <1>4, <2>1, Appended, Zenon
    <2>3. Lasting(a, {Bid}) <=> (Lasting(b, {Bid}) \/ (x \in {Bid} /\ ~Parts(b)))
      BY <1>2, <2>1, TailOf, Zenon
    <2> QED BY <2>2, <2>3
  <1>15. /\ Marked(r) <=> (Marked(q) \/ x \in Marks)
         /\ Stray(r) <=> (Stray(q) \/ (x \in Packets /\ ~Marked(q)))
         /\ (Bidden(q) /\ (x \in Packets => (Lasting(q, {Bid}) \/ ~Parts(q)))) => Bidden(r)
         /\ Met(r) <=> (Met(q) \/ (Mute(q) /\ x \in Answers))
         /\ Mute(r) <=> (Mute(q) /\ x \in Replies)
         /\ Hanging(r) <=> ((Hanging(q) /\ x \in Replies) \/ x = Call)
         /\ (Tied(q) /\ (Hanging(q) => (x \in Replies \/ x \in Answers))) => Tied(r)
    <2>1. r = Append(q, x) BY DEF q, r, x, a, b
    <2> QED BY <1>1, <1>4, <2>1, AppendedTo, Zenon
  <1>16. /\ Marked(a) <=> (x \in Marks \/ Marked(b))
         /\ Stray(a) <=> (x \in Packets \/ (x \notin Marks /\ Stray(b)))
         /\ Bidden(a) => (Bidden(b) /\ (x = Parting => ~Stray(b)))
         /\ Met(a) <=> (x \in Answers \/ (x \in Replies /\ Met(b)))
         /\ Hanging(b) => Hanging(a)
         /\ (x = Call /\ Mute(b)) => Hanging(a)
         /\ Tied(a) => (Tied(b) /\ (x = Call => (Met(b) \/ Mute(b))))
    <2>1. b = Tail(a) /\ x = Head(a) BY DEF q, r, x, a, b
    <2>2. /\ Marked(a) <=> (x \in Marks \/ Marked(b))
          /\ Stray(a) <=> (x \in Packets \/ (x \notin Marks /\ Stray(b)))
          /\ Bidden(a) => (Bidden(b) /\ (x = Parting => ~Stray(b)))
          /\ Met(a) <=> (x \in Answers \/ (x \in Replies /\ Met(b)))
      BY <1>2, <2>1, TailLeft, Zenon
    <2>3. Hanging(b) => Hanging(a)
      BY <1>2, <2>1, TailLeft, Zenon
    <2>4. Tied(a) => (Tied(b) /\ (x = Call => (Met(b) \/ Mute(b))))
      BY <1>2, <2>1, TailLeft, Zenon
    <2>5. ASSUME x = Call, Mute(b) PROVE Hanging(a)
      BY <1>2, <2>1, <2>5, TailLeft, Zenon
    <2> QED BY <2>2, <2>3, <2>4, <2>5
  <1>17. (Bound(Air') <=> Bound(Air)) /\ (Unbidden(Air') <=> Unbidden(Air)) /\ (Half(Air') <=> Half(Air))
    <2>1. Bound(Air') <=> Bound(Air)
      BY <1>9, <1>10, <1>14, Kinds DEF Bound
    <2>2. Unbidden(Air') <=> Unbidden(Air)
      BY <1>10, <1>15, <1>16 DEF Unbidden
    <2>3. Half(Air') <=> Half(Air)
      BY <1>10, <1>15, <1>16 DEF Half
    <2> QED BY <2>1, <2>2, <2>3
  <1>18. ASSUME Sound(Air) PROVE Sound(Air')
    <2>1. /\ Bidden(q) /\ Bidden(a) /\ ((Parts(q) /\ ~Lasting(q, {Bid})) => ~Stray(a))
          /\ Tied(q) /\ Tied(a) /\ ~Hanging(a) /\ (Hanging(q) => Met(a))
      BY <1>10, <1>18 DEF Sound
    <2>2. Bidden(r) /\ Bidden(b) BY <2>1, <1>15, <1>16
    <2>3. (Parts(r) /\ ~Lasting(r, {Bid})) => ~Stray(b)
      BY <2>1, <1>8, <1>14, <1>16, Kinds
    <2>4. Tied(r) /\ Tied(b) /\ ~Hanging(b) BY <2>1, <1>15, <1>16
    <2>5. Hanging(r) => Met(b) BY <2>1, <1>15, <1>16, Kinds
    <2>6. (Air'.mod.link = "tlp" /\ Parted(Air')) => Bound(Air')
      BY <1>10, <1>11, <1>17, <1>18 DEF Sound
    <2> QED BY <2>2, <2>3, <2>4, <2>5, <2>6, <1>10 DEF Sound
  <1>19. Trail(Air, Air') BY <1>10, <1>17, <1>18 DEF Trail
  <1>20. Heard(Air, Air') BY <1>7, <1>10, <1>13, <1>19 DEF Heard
  <1> QED BY <1>3, <1>10, <1>20

\* A peer that goes or is found.
LEMMA PeerHeard ==
  ASSUME BtInv, PeerDisconnects \/ ScanFinds \/ ScanEnds
  PROVE  Heard(Air, Air') /\ Air'.hist = Air.hist /\ UNCHANGED <<rem, items, chk, main>>
  <1>1. Air \in Airs /\ mod \in Mods /\ rx \in Seq(Lines) /\ bt \in Bts /\ hist \in Hists
    BY AirTypes DEF BtInv, LinkInv
  <1>2. <<"DISCOVERY">> \in Dry /\ <<"DONE">> \in Dry
    BY DEF Dry, Packets, Plain, Lines, Parting, Greetings, Answers, Bid
  <1>3. \E s \in Airs : Heard(Air, s) /\ Put(s)
    <2>1. CASE PeerDisconnects
      <3> DEFINE s == Say([Air EXCEPT !.mod.link = "none"], <<Parting>>)
      <3>1. Heard(Air, s) BY <1>1, <2>1, HungUp, AirFields DEF PeerDisconnects
      <3>2. Put(s) BY <2>1, <1>1 DEF PeerDisconnects, Says, Put, Say, Air, Parting, Mods
      <3> QED BY <3>1, <3>2 DEF Heard
    <2>3. CASE ScanFinds
      <3> DEFINE s == Say(Air, <<<<"DISCOVERY">>>>)
      <3>2. Heard(Air, s) BY <1>1, <1>2, Spoken
      <3>3. Put(s) BY <2>3, <1>1 DEF ScanFinds, Says, Put, Say, Air, Mods
      <3> QED BY <3>2, <3>3 DEF Heard
    <2>4. CASE ScanEnds
      <3> DEFINE n == [mod EXCEPT !.scan = FALSE]
                 w == [Air EXCEPT !.mod = n]
                 s == Say(w, <<<<"DONE">>>>)
      <3>1. n \in Mods /\ n.say = mod.say /\ n.link = mod.link BY <1>1 DEF Mods
      <3>2. Says(n, <<<<"DONE">>>>) BY <2>4 DEF ScanEnds
      <3> HIDE DEF n
      <3>3. w \in Airs /\ w.rx = rx /\ w.mod = n /\ w.bt = bt /\ w.hist = hist
        BY <1>1, <3>1 DEF Air, Airs
      <3> HIDE DEF w
      <3>4. Heard(Air, w) BY <3>1, <3>3, Tuned, AirFields
      <3>5. Heard(w, s) BY <3>3, <1>2, Spoken
      <3>6. Heard(Air, s) BY <3>4, <3>5, HeardOn
      <3>7. Put(s)
        BY <3>1, <3>2, <3>3 DEF Says, Put, Say, Airs, Mods
      <3> QED BY <3>6, <3>7 DEF Heard
    <2> QED BY <2>1, <2>3, <2>4
  <1>4. PICK s \in Airs : Heard(Air, s) /\ Put(s) BY <1>3
  <1>5. Air' \in Airs /\ Alike(s, Air') /\ Air'.bt = s.bt /\ Air'.hist = s.hist BY <1>4, Puts
  <1>6. Air'.rx = s.rx /\ Air'.mod.say = s.mod.say /\ Air'.mod.link = s.mod.link
    BY <1>5 DEF Alike
  <1>7. Heard(s, Air') BY <1>5, <1>6, Tuned
  <1>8. Heard(Air, Air') BY <1>4, <1>7, HeardOn
  <1>9. UNCHANGED <<rem, items, chk, main, hist>>
    BY DEF PeerDisconnects, ScanFinds, ScanEnds, Says
  <1> QED BY <1>8, <1>9, AirFields

\* A peer that sends a packet: the module had no more to say.
LEMMA PeerPackets ==
  ASSUME BtInv, PeerSends
  PROVE  /\ Air' \in Airs /\ Flow(Air, Air') /\ Air'.bt = Air.bt /\ Air'.hist = Air.hist
         /\ UNCHANGED <<rem, items, chk, main>>
         /\ mod.link = "tlp" /\ mod'.link = "tlp" /\ rx' = rx /\ mod.say = <<>>
         /\ \E x \in Packets : mod'.say = Append(mod.say, x)
  <1>1. Air \in Airs /\ mod \in Mods /\ rx \in Seq(Lines) /\ bt \in Bts /\ hist \in Hists
    BY AirTypes DEF BtInv, LinkInv
  <1>2. PICK a \in Asks, i \in Ids : Says(mod, <<<<"DATA", a, i>>>>) BY DEF PeerSends
  <1> DEFINE x == <<"DATA", a, i>>
             s == Say(Air, <<x>>)
  <1>3. x \in Packets BY DEF Packets
  <1>4. x \in Plain BY <1>3, Kinds, PartingIsNone DEF Plain, Marks
  <1>5. Put(s) BY <1>2, <1>1 DEF Says, Put, Say, Air, Mods
  <1> HIDE DEF x
  <1>6. /\ Flow(Air, s) /\ s \in Airs /\ s.rx = Air.rx /\ s.mod.say = Append(Air.mod.say, x)
        /\ s.mod.link = Air.mod.link /\ s.bt = Air.bt /\ s.hist = Air.hist
    BY <1>1, <1>4, SpokenFlows
  <1> HIDE DEF s
  <1>7. Air' \in Airs /\ Alike(s, Air') /\ Air'.bt = s.bt /\ Air'.hist = s.hist BY <1>5, <1>6, Puts
  <1>8. Air'.rx = s.rx /\ Air'.mod.say = s.mod.say /\ Air'.mod.link = s.mod.link
    BY <1>7 DEF Alike
  <1>9. Flow(Air, Air') BY <1>6, <1>7, <1>8, Still, FlowsOn
  <1>10. UNCHANGED <<rem, items, chk, main>> BY DEF PeerSends, Says
  <1>11. mod.link = "tlp" /\ mod.say = <<>> BY DEF PeerSends
  <1> QED BY <1>3, <1>6, <1>7, <1>8, <1>9, <1>10, <1>11, AirFields

\* The steps of the radio but for a peer that comes.
LEMMA RadioSteps ==
  ASSUME BtInv, Emit \/ PeerDisconnects \/ PeerSends \/ ScanFinds \/ ScanEnds
  PROVE  BtInv'
  BY EmitHeard, PeerHeard, PeerPackets, RadioKeeps DEF Heard

\* A peer that comes says its two greetings; one that may send bids.
LEMMA PeerGreets ==
  ASSUME BtInv, PeerConnects
  PROVE  \E p \in Peers, y \in Answers :
           /\ Air.mod.link = "none" /\ p # "none" /\ Air'.mod.link = p
           /\ Air'.mod.say = Append(Append(Air.mod.say, Call), y)
           /\ p = "tlp" => y = Bid
           /\ Air' \in Airs /\ Air'.rx = Air.rx /\ Air'.bt = Air.bt /\ Air'.hist = Air.hist
           /\ UNCHANGED <<rem, items, chk, main>>
  <1>1. PICK p \in Peers :
          /\ mod.link = "none"
          /\ Says([mod EXCEPT !.link = p, !.dial = "none", !.adv = FALSE],
                  <<<<"CONNECT">>, <<IF p = "tlp" THEN "BRSP1" ELSE "BRSP0">>>>)
    BY DEF PeerConnects
  <1>2. /\ Air \in Airs /\ mod \in Mods /\ rx \in Seq(Lines) /\ bt \in Bts /\ hist \in Hists
        /\ AirInv(Air) /\ Told(Air, main, rem)
    BY AirTypes DEF BtInv, LinkInv
  <1>3. p # "none" BY PeersAssumption
  <1> DEFINE x == <<"CONNECT">>
             y == <<IF p = "tlp" THEN "BRSP1" ELSE "BRSP0">>
             a == mod.say
             b == Append(a, x)
             c == Append(b, y)
             n == [mod EXCEPT !.link = p, !.dial = "none", !.adv = FALSE, !.say = c]
  <1>4. /\ x \in Lines /\ x \in Greetings /\ x \notin Answers /\ x # Parting
        /\ y \in Lines /\ y \in Greetings /\ y \in Answers /\ y # Parting
    BY DEF Lines, Greetings, Answers, Bid, Parting
  <1>5. a \in Seq(Lines) /\ b \in Seq(Lines) /\ c \in Seq(Lines)
    BY <1>2, <1>4 DEF Mods
  <1>6. a \o <<x, y>> = c
    <2> HIDE DEF x, y
    <2>1. (a \o <<x, y>>) \in Seq(Lines) /\ Len(a \o <<x, y>>) = Len(c) BY <1>4, <1>5
    <2>2. \A i \in 1 .. Len(c) : (a \o <<x, y>>)[i] = c[i] BY <1>4, <1>5
    <2> QED BY <1>5, <2>1, <2>2, SeqEqual
  <1>7. rx' = rx /\ mod' = n /\ bt' = bt /\ hist' = hist /\ UNCHANGED <<rem, items, chk, main>>
    <2>1. rx' = rx /\ bt' = bt /\ hist' = hist /\ UNCHANGED <<rem, items, chk, main>>
      BY <1>1 DEF Says
    <2>2. mod' = [[mod EXCEPT !.link = p, !.dial = "none", !.adv = FALSE]
                    EXCEPT !.say = @ \o <<x, y>>]
      BY <1>1 DEF Says
    <2> HIDE DEF x, y, c
    <2>3. mod' = [[mod EXCEPT !.link = p, !.dial = "none", !.adv = FALSE] EXCEPT !.say = c]
      BY <2>2, <1>6, <1>2 DEF Mods
    <2> QED BY <2>1, <2>3
  <1>8. n \in Mods /\ n.say = c /\ n.link = p
    <2> HIDE DEF c
    <2> QED BY <1>2, <1>5 DEF Mods
  <1>9. Air' \in Airs BY <1>2, <1>7, <1>8 DEF Air, Airs
  <1>10. /\ Air'.rx = Air.rx /\ Air'.mod.say = c /\ Air.mod.say = a /\ Air'.mod.link = p
         /\ Air.mod.link = "none" /\ Air'.bt = Air.bt /\ Air'.hist = Air.hist
    BY <1>1, <1>7, <1>8, AirFields
  <1>11. (p = "tlp" => y = Bid) /\ x = Call BY DEF Bid, Call
  <1>12. Air'.mod.say = Append(Append(Air.mod.say, Call), y) BY <1>10, <1>11
  <1> HIDE DEF x, y
  <1> QED BY <1>3, <1>4, <1>7, <1>9, <1>10, <1>11, <1>12

\* Its greeting is the last, and follows a parting if the driver still believes in the
\* peer before.
LEMMA PeerConnectsStep ==
  ASSUME BtInv, PeerConnects
  PROVE  BtInv'
  <1>1. PICK p \in Peers, y \in Answers :
          /\ Air.mod.link = "none" /\ p # "none" /\ Air'.mod.link = p
          /\ Air'.mod.say = Append(Append(Air.mod.say, Call), y)
          /\ Air' \in Airs /\ Air'.rx = Air.rx /\ Air'.bt = Air.bt /\ Air'.hist = Air.hist
          /\ UNCHANGED <<rem, items, chk, main>>
    BY PeerGreets
  <1>2. Air \in Airs /\ AirInv(Air) /\ Told(Air, main, rem) /\ ~hist.refused
    BY DEF BtInv, LinkInv, TableInv
  <1>3. p # "none" /\ ~hist'.refused BY <1>1, <1>2, AirFields
  <1> DEFINE x == Call
             a == Air.mod.say
             b == Append(a, x)
             c == Append(b, y)
  <1>4. /\ x \in Lines /\ x \in Greetings /\ x \notin Answers /\ x # Parting
        /\ y \in Lines /\ y \in Greetings /\ y \in Answers /\ y # Parting
    BY Kinds, PlainLines, PartingIsNone
  <1>5. a \in Seq(Lines) /\ b \in Seq(Lines) /\ c \in Seq(Lines)
    BY <1>2, <1>4 DEF Airs, Mods
  <1>6. /\ Air'.rx = Air.rx /\ Air'.mod.say = c /\ Air.mod.say = a /\ Air'.mod.link = p
        /\ Air.mod.link = "none" /\ Air'.bt = Air.bt /\ Air'.hist = Air.hist
    BY <1>1
  <1>7. /\ Parts(b) <=> Parts(a)
        /\ Leading(b) <=> (Leading(a) \/ ~Parts(a))
        /\ Lasting(b, Answers) <=> Lasting(a, Answers)
        /\ Clear(b) <=> (Clear(a) /\ ~Lasting(a, Answers))
    <2>1. b = Append(a, x) OBVIOUS
    <2> HIDE DEF a, b, x
    <2> QED BY <2>1, <1>4, <1>5, Appended, Zenon
  <1>8. /\ Leading(c) <=> (Leading(b) \/ ~Parts(b))
        /\ Clear(c) <=> (Clear(b) /\ ~Lasting(b, Answers))
        /\ Lasting(c, Greetings)
    <2>1. c = Append(b, y) OBVIOUS
    <2> HIDE DEF b, c
    <2> QED BY <2>1, <1>4, <1>5, Appended, Zenon
  <1> HIDE DEF a, b, c, x
  <1>9. ASSUME NEW q, Lasting(q, Answers) PROVE Lasting(q, Greetings)
    BY <1>9, PartingIsNone DEF Lasting
  <1>10. ~Last(Air) /\ Ordered(Air) BY <1>2, <1>6 DEF AirInv, Ordered
  <1>11. Last(Air') BY <1>6, <1>8 DEF Last
  <1>12. First(Air') => (First(Air) \/ ~Parted(Air))
    BY <1>6, <1>7, <1>8 DEF First, Parted
  <1>13. Ordered(Air')
    <2>1. ~Lasting(a, Answers) BY <1>6, <1>9, <1>10 DEF Last
    <2>2. Clear(Air'.rx) /\ Clear(Air'.mod.say)
      BY <2>1, <1>6, <1>7, <1>8, <1>10 DEF Ordered
    <2>3. Lasting(Air'.rx, Answers) => ~Leading(Air'.mod.say)
      <3> SUFFICES ASSUME Lasting(Air.rx, Answers) PROVE ~Leading(c) BY <1>6
      <3>1. Lasting(Air.rx, Greetings) BY <1>9
      <3>2. Parts(a) BY <3>1, <1>6, <1>10 DEF Last
      <3>3. ~Leading(a) BY <1>6, <1>10 DEF Ordered
      <3> QED BY <3>2, <3>3, <1>7, <1>8
    <2> QED BY <2>2, <2>3, <1>3, <1>6 DEF Ordered
  <1>14. (bt.state \in Linked /\ ~Parted(Air)) => hist.eaten
    BY <1>2, <1>6, AirFields DEF AirInv
  <1>15. AirInv(Air')
    <2>1. Air'.bt.state \in Checking => Air.bt.state \in Linked BY <1>6 DEF Linked
    <2> QED BY <2>1, <1>2, <1>3, <1>6, <1>11, <1>12, <1>13, <1>14, AirFields DEF AirInv
  <1>16. Told(Air', main, rem)
    <2>1. Connected \subseteq Linked /\ Motorised \subseteq Linked /\ "CONNECTED" \in Linked
      BY DEF Linked, Connected, Motorised
    <2>2. (Pending(Air', main) <=> Pending(Air, main)) /\ (Announced(Air') <=> Announced(Air))
      BY <1>6 DEF Pending, Announced
    <2>3. PendInv(Air', main) /\ StaleInv(Air', main, rem) /\ BufferInv(Air', main)
      BY <2>2, <1>2, <1>6 DEF Told, PendInv, StaleInv, BufferInv
    <2>4. ConnInv(Air') BY <2>1, <2>2, <1>2, <1>6, <1>12, <1>14, AirFields DEF Told, ConnInv
    <2>5. FlagInv(Air', main, rem)
      BY <2>1, <2>2, <1>2, <1>6, <1>12, <1>14, AirFields DEF Told, FlagInv
    <2> QED BY <2>3, <2>4, <2>5 DEF Told
  <1> QED BY <1>1, <1>3, <1>15, <1>16 DEF BtInv, LinkInv, RestInv, TableInv

-----------------------------------------------------------------------------

\* The screen sees an event, and takes it.
LEMMA ScreenEventStep ==
  ASSUME BtInv, ScreenEvent
  PROVE  BtInv'
  <1> DEFINE s == CASE bt.event = "SCAN_COMPLETE" /\ bt.state \notin Connected -> scan(advertise(Air))
                    [] bt.event = "DISCONNECT" -> scan(Air)
                    [] OTHER -> Air
             t == [s EXCEPT !.bt.event = "NULL"]
  <1>1. /\ main.at = "menu" /\ main' = [main EXCEPT !.at = "timer"] /\ Put(t)
        /\ rem' = rem /\ items' = items /\ chk' = chk
    BY DEF ScreenEvent, Goto
  <1>2. Air \in Airs /\ AirInv(Air) /\ Told(Air, main, rem) /\ Commanded(Air, Air) /\ ~hist.refused
    BY AirIsAir DEF BtInv, LinkInv, TableInv
  <1>3. Commanded(Air, s)
    <2>1. Commanded(Air, advertise(Air)) /\ advertise(Air) \in Airs BY <1>2, Advertises
    <2>2. Commanded(advertise(Air), scan(advertise(Air))) BY <2>1, Scans
    <2>3. Commanded(Air, scan(advertise(Air))) BY <2>1, <2>2, CommandedOn
    <2>4. Commanded(Air, scan(Air)) BY <1>2, Scans
    <2>5. s \in {scan(advertise(Air)), scan(Air), Air} OBVIOUS
    <2> HIDE DEF s
    <2> QED BY <2>3, <2>4, <2>5, <1>2
  <1> HIDE DEF s
  <1>4. s \in Airs /\ AirInv(s) /\ Told(s, main, rem) /\ ~s.hist.refused
    BY <1>2, <1>3, CommandedAir, CommandedTold, AirFields DEF Commanded, Unheard
  <1>5. "NULL" \in Events BY DEF Events
  <1>6. Same(s, t) /\ t.bt.state = s.bt.state /\ t.bt.mode = s.bt.mode /\ t.bt.event = "NULL"
    BY <1>4, <1>5, EventSame
  <1> HIDE DEF t
  <1>7. /\ Air' \in Airs /\ Alike(t, Air') /\ Air'.bt = t.bt /\ hist' = t.hist
    BY <1>1, <1>6, Puts DEF Same
  <1>8. Alike(s, Air') /\ Air'.bt.event = "NULL" BY <1>6, <1>7 DEF Alike, Same
  <1>9. MainInv(main') /\ Outside(main) /\ Outside(main') /\ main'.at = "timer" /\ main'.ask = main.ask
    BY <1>1 DEF BtInv, RestInv, MainInv, Mains, Outside
  <1>10. AirInv(Air') /\ Told(Air', main, rem) BY <1>4, <1>8, <1>9, AlikeKeeps
  <1>11. Told(Air', main', rem) BY <1>1, <1>9, <1>10, MovesOn
  <1>12. LinkInv' BY <1>1, <1>7, <1>10, <1>11 DEF LinkInv
  <1>13. RestInv' BY <1>1, <1>9 DEF BtInv, RestInv, MotorInv
  <1>14. TableInv' BY <1>1, <1>4, <1>6, <1>7 DEF BtInv, TableInv, Same
  <1> QED BY <1>12, <1>13, <1>14 DEF BtInv

\* The main loop only moves on.
LEMMA PassSteps ==
  ASSUME BtInv, Pass \/ MotorCommand
  PROVE  BtInv'
  <1>1. /\ UNCHANGED <<rx, mod, bt, rem, items, chk, hist>>
        /\ Air' = Air
    BY DEF Pass, MotorCommand, Air
  <1>2. main \in Mains /\ MainInv(main) BY DEF BtInv, RestInv, MainInv
  <1>3. MainInv(main') /\ main'.ask = main.ask /\
        \/ Outside(main) /\ Outside(main') /\ main.at # "wait" /\ main'.at # "read"
        \/ main.at = "remote" /\ Outside(main') /\ main'.at # "read" /\ Air.bt.event # "DISCONNECT"
    <2>1. CASE Pass
      BY <2>1, <1>2, AirFields DEF Pass, MainInv, Mains, Outside, Goto
    <2>2. CASE MotorCommand
      BY <2>2, <1>2 DEF MotorCommand, MainInv, Mains, Outside
    <2> QED BY <2>1, <2>2
  <1>4. Told(Air, main', rem) BY <1>3, MovesOn DEF BtInv, LinkInv
  <1> QED BY <1>1, <1>3, <1>4 DEF BtInv, LinkInv, RestInv, MotorInv, TableInv

\* The event of this pass is read.
LEMMA TaskTold ==
  ASSUME NEW s, NEW t, NEW m, NEW n, NEW r, AirInv(s), Told(s, m, r), m.at = "task",
         n.at = "notify",
         \/ s.bt.eventBuf = "NULL" /\ TaskRel(s, t)
         \/ s.bt.eventBuf # "NULL" /\ Delivers(s, t)
  PROVE  Told(t, n, r)
  <1>1. /\ s.bt.tmp = "NULL" /\ ~Before(m) /\ Before(n) /\ ~Outside(n)
        /\ t.bt.tmp = "NULL" /\ t.bt.eventBuf = "NULL"
    BY DEF Told, BufferInv, Before, Outside, TaskRel, Delivers
  <1>2. Pending(s, m) <=> s.bt.eventBuf = "DISCONNECT" BY <1>1 DEF Pending
  <1>3. Pending(t, n) <=> t.bt.event = "DISCONNECT" BY <1>1 DEF Pending
  <1>4. Announced(t) <=> t.bt.event = "CONNECT" BY <1>1 DEF Announced
  <1>5. /\ Motorised \subseteq Connected /\ "IDLE" \notin Motorised /\ "CONNECTED" \in Connected
    BY DEF Motorised, Connected
  <1>6. StaleInv(t, n, r) /\ BufferInv(t, n) BY <1>1 DEF StaleInv, BufferInv
  <1>7. CASE s.bt.eventBuf = "NULL" /\ TaskRel(s, t)
    <2>1. PendInv(t, n) BY <1>3, <1>5, <1>7 DEF PendInv, TaskRel
    <2>2. ConnInv(t) BY <1>4, <1>7 DEF ConnInv, TaskRel
    <2>3. FlagInv(t, n, r)
      <3> SUFFICES ASSUME t.bt.event # "DISCONNECT", ~t.hist.eaten, ~t.hist.skipped
                   PROVE  /\ r.connected => t.bt.state = "CONNECTED"
                          /\ r.nmx => t.bt.state \in Motorised
                          /\ (r.connected \/ r.nmx) => ~First(t)
        BY <1>3 DEF FlagInv
      <3>1. /\ r.connected => s.bt.state = "CONNECTED"
            /\ r.nmx => s.bt.state \in Motorised
            /\ (r.connected \/ r.nmx) => ~First(s)
        BY <1>2, <1>7 DEF Told, FlagInv, TaskRel
      <3> QED BY <3>1, <1>5, <1>7 DEF TaskRel
    <2> QED BY <1>6, <2>1, <2>2, <2>3 DEF Told
  <1>8. CASE s.bt.eventBuf # "NULL" /\ Delivers(s, t)
    BY <1>2, <1>3, <1>4, <1>6, <1>8 DEF Told, PendInv, ConnInv, FlagInv, Delivers, Announced
  <1> QED BY <1>7, <1>8

\* BT::task is called by the main loop.
LEMMA BtTaskStep ==
  ASSUME BtInv, BtTask
  PROVE  BtInv'
  <1> DEFINE s == Air
             t == task(s)
  <1>1. /\ main.at = "task" /\ main' = [main EXCEPT !.at = "notify"] /\ Put(t)
        /\ rem' = rem /\ items' = items /\ chk' = chk
    BY DEF BtTask, Goto
  <1>2. s \in Airs /\ AirInv(s) /\ Told(s, main, rem) BY DEF BtInv, LinkInv
  <1>3. MainInv(main') /\ main'.at = "notify" /\ main'.ask = main.ask
    BY <1>1 DEF BtInv, RestInv, MainInv, Mains
  <1>4. \/ s.bt.eventBuf = "NULL" /\ TaskRel(s, t)
        \/ s.bt.eventBuf # "NULL" /\ Delivers(s, t)
    <2> HIDE DEF s
    <2> QED BY <1>2, TaskReads, TaskDelivers
  <1>5. t \in Airs /\ AirInv(t) /\ t.hist.refused = s.hist.refused
    BY <1>4 DEF TaskRel, Delivers
  <1> HIDE DEF t
  <1>6. Told(t, main', rem) BY <1>1, <1>2, <1>3, <1>4, TaskTold
  <1>7. Air' \in Airs /\ Alike(t, Air') /\ Air'.bt = t.bt /\ hist' = t.hist BY <1>1, <1>5, Puts
  <1>8. AirInv(Air') /\ Told(Air', main', rem) BY <1>5, <1>6, <1>7, AlikeKeeps
  <1>9. LinkInv' BY <1>1, <1>7, <1>8 DEF LinkInv
  <1>10. RestInv' BY <1>1, <1>3 DEF BtInv, RestInv, MotorInv
  <1>11. TableInv' BY <1>1, <1>5, <1>7, AirFields DEF BtInv, TableInv
  <1> QED BY <1>9, <1>10, <1>11 DEF BtInv

-----------------------------------------------------------------------------

\* A query that fails changes what is known of the motors, no more than it may.
LEMMA Fails ==
  ASSUME RestInv, QueryFails
  PROVE  /\ rem' \in Rems /\ rem'.connected = rem.connected /\ rem'.nmx = rem.nmx
         /\ (rem'.motors \/ rem'.checked) => chk.nmx
  <1> DEFINE c == rem.checked \/ main.ask
             f == rem.motors /\ ~main.ask
  <1>1. rem \in Rems /\ main.ask \in BOOLEAN /\ rem.checked \in BOOLEAN /\ rem.motors \in BOOLEAN
    BY DEF RestInv, MainInv, Mains, Rems
  <1>2. c \in BOOLEAN /\ f \in BOOLEAN /\ (c => chk.nmx) /\ (f => chk.nmx)
    BY <1>1 DEF RestInv, MotorInv
  <1>3. rem' = [rem EXCEPT !.checked = c, !.motors = f] BY <1>1 DEF QueryFails, Rems
  <1> HIDE DEF c, f
  <1> QED BY <1>1, <1>2, <1>3 DEF Rems

\* A query ends: the main loop goes on where it asked.
LEMMA Returns ==
  ASSUME RestInv, main.at \in {"write", "read", "wait"}, Return
  PROVE  /\ MainInv(main') /\ ~main'.ask /\ main'.at = main.back
         /\ main.back \in {"timer", "task", "remote"}
         /\ main.at # "wait" =>
              \/ Outside(main) /\ Outside(main') /\ main'.at # "read"
              \/ Before(main) /\ Before(main') /\ main.at # "remote" /\ main'.at # "read"
  BY DEF RestInv, MainInv, Mains, Return, Outside, Before

\* A command or a query is written.
LEMMA WriteStep ==
  ASSUME BtInv, Write
  PROVE  BtInv'
  <1>1. main.at = "write" /\ items' = items /\ chk' = chk /\ RestInv /\ LinkInv /\ ~hist.refused
    BY DEF Write, BtInv, TableInv
  <1>2. Air \in Airs /\ Commanded(Air, Air) BY <1>1, AirIsAir DEF LinkInv
  <1> DEFINE s == Command(Air, "write")
  <1>3. \/ Put(Air) /\ Return /\ QueryFails
        \/ Put(s) /\ Return /\ QueryFails
        \/ Put(s) /\ Goto("read") /\ rem' = rem /\ bt.state = "CONNECTED_NMX"
    BY DEF Write
  <1>4. Commanded(Air, s) /\ Direct(Air, s) BY <1>2, CommandDirect, DirectCommanded
  <1>5. Air' \in Airs /\ AirInv(Air') /\ Told(Air', main, rem) /\ ~hist'.refused
    BY <1>1, <1>2, <1>3, <1>4, CommandKeeps
  <1>6. CASE Return /\ QueryFails
    <2>1. Told(Air', main', rem) BY <1>1, <1>5, <1>6, Returns, MovesOn
    <2>2. rem' \in Rems /\ Told(Air', main', rem') BY <2>1, <1>1, <1>6, Fails, Forgets
    <2>3. RestInv' BY <2>2, <1>1, <1>6, Fails, Returns DEF RestInv, MotorInv
    <2> QED BY <2>2, <2>3, <1>1, <1>5 DEF BtInv, LinkInv, TableInv
  <1>7. CASE Put(s) /\ Goto("read") /\ rem' = rem /\ bt.state = "CONNECTED_NMX"
    <2>1. s.bt.state = "CONNECTED_NMX" BY <1>4, <1>7, AirFields DEF Direct
    <2>2. Air'.bt.state = "CONNECTED_NMX"
      BY <2>1, <1>1, <1>4, <1>7, CommandKeeps, AirFields
    <2>3. main' = [main EXCEPT !.at = "read"] /\ MainInv(main') /\ main'.ask = main.ask
      BY <1>1, <1>7 DEF RestInv, MainInv, Mains, Goto
    <2>4. \/ Outside(main) /\ Outside(main') /\ main.at # "wait"
          \/ Before(main) /\ Before(main') /\ main.at # "remote"
      BY <2>3, <1>1 DEF RestInv, MainInv, Mains, Outside, Before
    <2>5. Told(Air', main', rem) BY <2>2, <2>4, <1>5, MovesOn
    <2>6. RestInv' BY <2>3, <1>1, <1>7 DEF RestInv, MotorInv
    <2> QED BY <2>5, <2>6, <1>1, <1>5, <1>7 DEF BtInv, LinkInv, TableInv
  <1> QED BY <1>3, <1>6, <1>7

\* The answer of a query is asked for; a loss that was not handled cannot be forgotten
\* here, since the driver is connected to the motion controller.
LEMMA ReadStep ==
  ASSUME BtInv, Read
  PROVE  BtInv'
  <1>1. main.at = "read" /\ items' = items /\ chk' = chk /\ RestInv /\ LinkInv /\ ~hist.refused
    BY DEF Read, BtInv, TableInv
  <1>2. Air \in Airs /\ Air.bt.tmp = "NULL" /\ Air.bt.state = "CONNECTED_NMX"
    BY <1>1 DEF LinkInv, Told, BufferInv
  <1> DEFINE s == Command(Air, "read")
             t == [s EXCEPT !.bt.tmp = "NULL"]
  <1>3. Put(t) /\ ((Goto("wait") /\ rem' = rem) \/ (Return /\ QueryFails))
    BY DEF Read
  <1>4. Commanded(Air, s) /\ Direct(Air, s) BY <1>2, CommandDirect, DirectCommanded
  <1>5. s \in Airs /\ s.bt.tmp = "NULL" BY <1>2, <1>4 DEF Commanded, Unheard
  <1>6. s.bt.state = "CONNECTED_NMX" BY <1>2, <1>4 DEF Direct
  <1> HIDE DEF s
  <1>7. t = s BY <1>5 DEF Airs, Bts
  <1>8. /\ Air' \in Airs /\ AirInv(Air') /\ Told(Air', main, rem) /\ ~hist'.refused
        /\ Air'.bt.state = "CONNECTED_NMX"
    BY <1>1, <1>3, <1>4, <1>6, <1>7, CommandKeeps, AirFields
  <1>9. CASE Return /\ QueryFails
    <2>1. Told(Air', main', rem) BY <1>1, <1>8, <1>9, Returns, MovesOn
    <2>2. rem' \in Rems /\ Told(Air', main', rem') BY <2>1, <1>1, <1>9, Fails, Forgets
    <2>3. RestInv' BY <2>2, <1>1, <1>9, Fails, Returns DEF RestInv, MotorInv
    <2> QED BY <2>2, <2>3, <1>1, <1>8 DEF BtInv, LinkInv, TableInv
  <1>10. CASE Goto("wait") /\ rem' = rem
    <2>1. main' = [main EXCEPT !.at = "wait"] /\ MainInv(main') /\ main'.ask = main.ask
          /\ main'.at = "wait"
      BY <1>1, <1>10 DEF RestInv, MainInv, Mains, Goto
    <2>2. Told(Air', main', rem)
      <3> DEFINE a == Air'
                 m == main'
      <3>1. Told(a, main, rem) /\ a.bt.state = "CONNECTED_NMX" /\ m.at = "wait" BY <1>8, <2>1
      <3> HIDE DEF a, m
      <3>2. ~Outside(m) /\ ~Before(m) BY <3>1 DEF Outside, Before
      <3>3. Pending(a, m) => Pending(a, main) BY <3>2 DEF Pending
      <3>4. "CONNECTED_NMX" \in Motorised BY DEF Motorised
      <3>5. PendInv(a, m) /\ StaleInv(a, m, rem) /\ BufferInv(a, m)
        BY <3>1, <3>2, <3>3 DEF Told, PendInv, StaleInv, BufferInv
      <3>6. FlagInv(a, m, rem)
        BY <3>1, <3>4 DEF Told, PendInv, FlagInv, Pending
      <3>7. Told(a, m, rem) BY <3>1, <3>5, <3>6 DEF Told
      <3> QED BY <3>7 DEF a, m
    <2>3. RestInv' BY <2>1, <1>1, <1>10 DEF RestInv, MotorInv
    <2> QED BY <2>2, <2>3, <1>1, <1>8, <1>10 DEF BtInv, LinkInv, TableInv
  <1> QED BY <1>3, <1>9, <1>10

\* One call of task inside waitEvent: its event replaces the one kept, and the last
\* one is handed over when the wait is over.
Waits(s, t, w, m, n, over) ==
    LET tmp == IF t.bt.event = "NULL" THEN s.bt.tmp ELSE t.bt.event
        skips == tmp # s.bt.tmp /\ (s.bt.tmp = "DISCONNECT"
                                      \/ (s.bt.tmp = "CONNECT" /\ tmp # "DISCONNECT"))
    IN  /\ w.rx = t.rx /\ w.mod = t.mod
        /\ w.bt.state = t.bt.state /\ w.bt.mode = t.bt.mode /\ w.bt.event = t.bt.event
        /\ over => (w.bt.eventBuf = tmp /\ w.bt.tmp = "NULL" /\ t.bt.event = "NULL"
                      /\ s.bt.eventBuf = "NULL" /\ n.at \in {"timer", "task", "remote"})
        /\ ~over => (w.bt.eventBuf = t.bt.eventBuf /\ w.bt.tmp = tmp /\ n.at = "wait")
        /\ w.hist.eaten = t.hist.eaten /\ w.hist.dropped = t.hist.dropped
        /\ w.hist.skipped <=> (t.hist.skipped \/ skips)
        /\ w.hist.refused = t.hist.refused

\* Hence a loss inside waitEvent reaches the main loop, or is remembered as skipped.
LEMMA WaitTold ==
  ASSUME NEW s, NEW t, NEW w, NEW m, NEW n, NEW r, NEW over, over \in BOOLEAN,
         AirInv(s), Told(s, m, r), m.at = "wait", Waits(s, t, w, m, n, over),
         \/ s.bt.eventBuf = "NULL" /\ TaskRel(s, t)
         \/ s.bt.eventBuf # "NULL" /\ Delivers(s, t)
  PROVE  AirInv(w) /\ Told(w, n, r)
  <1> DEFINE e == t.bt.event
             tmp == IF e = "NULL" THEN s.bt.tmp ELSE e
  <1>1. ~Before(m) /\ ~Outside(m) /\ (~over => (~Before(n) /\ ~Outside(n)))
        /\ (over => e = "NULL")
    BY DEF Before, Outside, Waits
  <1>2. AirInv(t) BY DEF TaskRel, Delivers
  <1>3. (First(w) <=> First(t)) /\ (Last(w) <=> Last(t)) /\ (Parted(w) <=> Parted(t))
        /\ (Ordered(w) <=> Ordered(t))
    BY DEF First, Last, Parted, Ordered, Waits
  <1>4. AirInv(w) BY <1>2, <1>3 DEF AirInv, Waits
  <1>5. t.bt.eventBuf = "NULL" BY DEF TaskRel, Delivers
  <1>6. Pending(w, n) <=> tmp = "DISCONNECT" BY <1>1, <1>5 DEF Pending, Waits
  <1>7. Pending(s, m) <=> (s.bt.eventBuf = "DISCONNECT" \/ s.bt.tmp = "DISCONNECT")
    BY <1>1 DEF Pending
  <1>8. Announced(w) => tmp = "CONNECT" BY <1>1, <1>5 DEF Announced, Waits
  <1>9. /\ Motorised \subseteq Connected /\ "IDLE" \notin Motorised /\ "CONNECTED" \in Connected
        /\ {"CONNECTED_NMX", "CONNECTED_GM"} = Motorised
    BY DEF Motorised, Connected
  <1>10. StaleInv(w, n, r) BY <1>1 DEF StaleInv, Waits
  <1>11. BufferInv(w, n)
    BY <1>1 DEF BufferInv, Waits, Before
  <1>12. t.hist.skipped = s.hist.skipped BY DEF TaskRel, Delivers
  <1>13. ~w.hist.skipped =>
           /\ ~s.hist.skipped
           /\ s.bt.tmp = "DISCONNECT" => tmp = "DISCONNECT"
           /\ w.bt.state = t.bt.state /\ w.hist.eaten = t.hist.eaten
    BY <1>12 DEF Waits
  <1>14. w.bt.state = t.bt.state /\ w.hist.eaten = t.hist.eaten BY DEF Waits
  <1>15. CASE s.bt.eventBuf = "NULL" /\ TaskRel(s, t)
    <2>1. PendInv(w, n)
      <3> SUFFICES ASSUME tmp = "DISCONNECT", ~w.hist.skipped PROVE t.bt.state \notin Motorised
        BY <1>6, <1>14 DEF PendInv
      <3>1. CASE e = "DISCONNECT" BY <3>1, <1>9, <1>15 DEF TaskRel
      <3>2. CASE e = "NULL" /\ s.bt.tmp = "DISCONNECT"
        <4>1. s.bt.state \notin Motorised BY <3>2, <1>7, <1>13 DEF Told, PendInv
        <4> QED BY <4>1, <3>2, <1>9, <1>15 DEF TaskRel
      <3> QED BY <3>1, <3>2
    <2>2. ConnInv(w)
      <3> SUFFICES ASSUME tmp = "CONNECT", ~w.hist.skipped, ~t.hist.eaten
                   PROVE t.bt.state \in Connected /\ ~First(t)
        BY <1>3, <1>8, <1>14 DEF ConnInv
      <3>1. CASE e = "CONNECT" BY <3>1, <1>15 DEF TaskRel
      <3>2. CASE e = "NULL" /\ s.bt.tmp = "CONNECT"
        <4>1. ~s.hist.eaten BY <3>2, <1>15 DEF TaskRel
        <4>2. s.bt.state \in Connected /\ ~First(s)
          BY <4>1, <3>2, <1>13 DEF Told, ConnInv, Announced
        <4> QED BY <4>2, <3>2, <1>15 DEF TaskRel
      <3> QED BY <3>1, <3>2
    <2>3. FlagInv(w, n, r)
      <3> SUFFICES ASSUME tmp # "DISCONNECT", ~w.hist.skipped, ~t.hist.eaten
                   PROVE  /\ r.connected => t.bt.state = "CONNECTED"
                          /\ r.nmx => t.bt.state \in Motorised
                          /\ (r.connected \/ r.nmx) => ~First(t)
        BY <1>3, <1>6, <1>14 DEF FlagInv
      <3>1. e # "DISCONNECT" /\ s.bt.tmp # "DISCONNECT" /\ ~s.hist.skipped BY <1>13
      <3>2. ~s.hist.eaten /\ ~Pending(s, m) BY <3>1, <1>7, <1>15 DEF TaskRel
      <3>3. /\ r.connected => s.bt.state = "CONNECTED"
            /\ r.nmx => s.bt.state \in Motorised
            /\ (r.connected \/ r.nmx) => ~First(s)
        BY <3>1, <3>2 DEF Told, FlagInv
      <3> QED BY <3>1, <3>3, <1>9, <1>15 DEF TaskRel
    <2> QED BY <1>4, <1>10, <1>11, <2>1, <2>2, <2>3 DEF Told
  <1>16. CASE s.bt.eventBuf # "NULL" /\ Delivers(s, t)
    <2>1. /\ e = s.bt.eventBuf /\ tmp = e /\ t.bt.state = s.bt.state
          /\ t.hist = s.hist /\ (First(t) <=> First(s))
      BY <1>16 DEF Delivers
    <2>2. PendInv(w, n) BY <2>1, <1>6, <1>7, <1>13, <1>14 DEF Told, PendInv
    <2>3. ConnInv(w) BY <2>1, <1>3, <1>8, <1>13, <1>14 DEF Told, ConnInv, Announced
    <2>4. FlagInv(w, n, r) BY <2>1, <1>3, <1>6, <1>7, <1>13, <1>14 DEF Told, FlagInv
    <2> QED BY <1>4, <1>10, <1>11, <2>2, <2>3, <2>4 DEF Told
  <1> QED BY <1>15, <1>16

\* waitEvent makes one such call; it ends with the value or when nothing more is to come.
LEMMA WaitWaits ==
  ASSUME BtInv, Wait
  PROVE  /\ items' = items /\ chk' = chk /\ Air' \in Airs
         /\ MainInv(main') /\ (main'.ask => main.ask)
         /\ rem' \in Rems /\ rem'.connected = rem.connected /\ rem'.nmx = rem.nmx
         /\ (rem'.motors \/ rem'.checked) => chk.nmx
         /\ \E over \in BOOLEAN :
              /\ Waits(Air, task(Air), Air', main, main', over)
              /\ over => ((Air.rx = <<>> /\ Air.mod.say = <<>>)
                            \/ (Air.bt.mode = "CMD" /\ Air.rx # <<>>
                                  /\ Head(Air.rx) = <<"GATT_VAL">>))
  <1> DEFINE s == Air
             t == task(s)
             tmp == IF t.bt.event = "NULL" THEN bt.tmp ELSE t.bt.event
             value == bt.mode = "CMD" /\ bt.eventBuf = "NULL" /\ rx # <<>>
                        /\ Head(rx) = <<"GATT_VAL">>
             over == value \/ (rx = <<>> /\ mod.say = <<>> /\ bt.eventBuf = "NULL")
             skips == tmp # bt.tmp /\ (bt.tmp = "DISCONNECT"
                                         \/ (bt.tmp = "CONNECT" /\ tmp # "DISCONNECT"))
             k == IF over THEN KeepEvent(t, tmp) ELSE [t EXCEPT !.bt.tmp = tmp]
             w == [k EXCEPT !.hist.skipped = @ \/ skips]
  <1>1. main.at = "wait" /\ items' = items /\ chk' = chk /\ RestInv /\ LinkInv /\ ~hist.refused
    BY DEF Wait, BtInv, TableInv
  <1>2. s \in Airs /\ AirInv(s) /\ Told(s, main, rem) BY <1>1 DEF LinkInv
  <1>3. /\ Put(w)
        /\ IF over THEN Return ELSE Goto("wait")
        /\ IF value /\ main.ask
           THEN \E m \in BOOLEAN : rem' = [rem EXCEPT !.checked = TRUE, !.motors = m]
           ELSE IF over THEN QueryFails ELSE rem' = rem
    BY DEF Wait
  <1>4. /\ \/ s.bt.eventBuf = "NULL" /\ TaskRel(s, t)
           \/ s.bt.eventBuf # "NULL" /\ Delivers(s, t)
        /\ over => (s.bt.eventBuf = "NULL" /\ t.bt.event = "NULL")
    <2>1. /\ s.bt.mode = bt.mode /\ s.bt.eventBuf = bt.eventBuf /\ s.rx = rx BY AirFields
    <2> HIDE DEF s
    <2> QED BY <2>1, <1>2, TaskReads, TaskDelivers
  <1>5. t \in Airs /\ AirInv(t) /\ t.hist.refused = s.hist.refused
    BY <1>4 DEF TaskRel, Delivers
  <1>6. s.bt = bt /\ s.hist = hist /\ bt \in Bts /\ "NULL" \in Events
    BY <1>2, AirTypes, AirFields DEF Events
  <1>7. tmp \in Events BY <1>5, <1>6 DEF Airs, Bts
  <1>8. over \in BOOLEAN /\ skips \in BOOLEAN /\ (value => over) OBVIOUS
  <1>9. /\ main' \in Mains /\ MainInv(main') /\ (main'.ask => main.ask)
        /\ over => main'.at \in {"timer", "task", "remote"}
        /\ ~over => main'.at = "wait"
    <2>1. CASE over BY <2>1, <1>1, <1>3, Returns DEF MainInv
    <2>2. CASE ~over
      <3>1. main' = [main EXCEPT !.at = "wait"] BY <2>2, <1>3 DEF Goto
      <3> HIDE DEF over
      <3> QED BY <2>2, <3>1, <1>1 DEF RestInv, MainInv, Mains
    <2> QED BY <2>1, <2>2
  <1>10. /\ rem' \in Rems /\ rem'.connected = rem.connected /\ rem'.nmx = rem.nmx
         /\ (rem'.motors \/ rem'.checked) => chk.nmx
    <2>1. rem \in Rems BY <1>1 DEF RestInv
    <2>2. CASE value /\ main.ask
      <3>1. PICK f \in BOOLEAN : rem' = [rem EXCEPT !.checked = TRUE, !.motors = f] BY <2>2, <1>3
      <3>2. chk.nmx BY <2>2, <1>1 DEF RestInv, MotorInv
      <3> QED BY <3>1, <3>2, <2>1 DEF Rems
    <2>3. CASE ~(value /\ main.ask) /\ over BY <2>3, <1>1, <1>3, Fails
    <2>4. CASE ~(value /\ main.ask) /\ ~over
      <3>1. rem' = rem BY <2>4, <1>3
      <3> QED BY <3>1, <2>1, <1>1 DEF RestInv, MotorInv
    <2> QED BY <2>2, <2>3, <2>4
  <1>0. over => ((s.rx = <<>> /\ s.mod.say = <<>>)
                   \/ (s.bt.mode = "CMD" /\ s.rx # <<>> /\ Head(s.rx) = <<"GATT_VAL">>))
    BY AirFields
  <1> HIDE DEF t, over, tmp, skips, value
  <1>11. /\ k \in Airs /\ k.rx = t.rx /\ k.mod = t.mod /\ k.hist = t.hist
         /\ k.bt.state = t.bt.state /\ k.bt.mode = t.bt.mode /\ k.bt.event = t.bt.event
         /\ over => (k.bt.eventBuf = tmp /\ k.bt.tmp = "NULL")
         /\ ~over => (k.bt.eventBuf = t.bt.eventBuf /\ k.bt.tmp = tmp)
    BY <1>5, <1>6, <1>7 DEF KeepEvent, Airs, Bts
  <1> HIDE DEF k
  <1>12. /\ w \in Airs /\ w.rx = k.rx /\ w.mod = k.mod /\ w.bt = k.bt
         /\ w.hist.eaten = k.hist.eaten /\ w.hist.dropped = k.hist.dropped
         /\ w.hist.refused = k.hist.refused
         /\ w.hist.skipped = (k.hist.skipped \/ skips)
    <2> DEFINE f == k.hist.skipped \/ skips
    <2>1. f \in BOOLEAN /\ w = [k EXCEPT !.hist.skipped = f] BY <1>11 DEF Airs, Hists
    <2> HIDE DEF f, w
    <2>2. /\ w \in Airs /\ w.rx = k.rx /\ w.mod = k.mod /\ w.bt = k.bt
          /\ w.hist.eaten = k.hist.eaten /\ w.hist.dropped = k.hist.dropped
          /\ w.hist.refused = k.hist.refused /\ w.hist.skipped = f
      BY <2>1, <1>11 DEF Airs, Hists
    <2> QED BY <2>2 DEF f
  <1> HIDE DEF w
  <1>13. Waits(s, t, w, main, main', over)
    BY <1>4, <1>6, <1>8, <1>9, <1>11, <1>12, ZenonT(60) DEF Waits, tmp, skips
  <1>14. Air' \in Airs /\ Alike(w, Air') /\ Air'.bt = w.bt /\ Air'.hist = w.hist
    BY <1>3, <1>12, Puts
  <1>15. Waits(s, t, Air', main, main', over)
    BY <1>13, <1>14 DEF Waits, Alike
  <1> QED BY <1>0, <1>1, <1>8, <1>9, <1>10, <1>14, <1>15 DEF t

\* It keeps the invariant.
LEMMA WaitStep ==
  ASSUME BtInv, Wait
  PROVE  BtInv'
  <1> DEFINE s == Air
             t == task(s)
  <1>1. main.at = "wait" /\ RestInv /\ LinkInv /\ ~hist.refused /\ ItemInv(items)
    BY DEF Wait, BtInv, TableInv
  <1>2. s \in Airs /\ AirInv(s) /\ Told(s, main, rem) /\ ~s.hist.refused
    BY <1>1, AirFields DEF LinkInv
  <1>3. /\ items' = items /\ chk' = chk /\ Air' \in Airs
        /\ MainInv(main') /\ (main'.ask => main.ask)
        /\ rem' \in Rems /\ rem'.connected = rem.connected /\ rem'.nmx = rem.nmx
        /\ (rem'.motors \/ rem'.checked) => chk.nmx
        /\ \E over \in BOOLEAN : Waits(s, t, Air', main, main', over)
    BY WaitWaits
  <1>4. PICK over \in BOOLEAN : Waits(s, t, Air', main, main', over) BY <1>3
  <1> HIDE DEF s
  <1>5. \/ s.bt.eventBuf = "NULL" /\ TaskRel(s, t)
        \/ s.bt.eventBuf # "NULL" /\ Delivers(s, t)
    BY <1>2, TaskReads, TaskDelivers
  <1> HIDE DEF t
  <1>6. AirInv(Air') /\ Told(Air', main', rem)
    BY <1>1, <1>2, <1>4, <1>5, WaitTold
  <1>7. Told(Air', main', rem') BY <1>3, <1>6, Forgets
  <1>8. ~hist'.refused
    <2>1. t.hist.refused = s.hist.refused BY <1>5 DEF TaskRel, Delivers
    <2>2. Air'.hist.refused = t.hist.refused BY <1>4 DEF Waits
    <2> QED BY <2>1, <2>2, <1>2, AirFields
  <1>9. LinkInv' BY <1>3, <1>6, <1>7 DEF LinkInv
  <1>10. RestInv' BY <1>1, <1>3 DEF RestInv, MotorInv
  <1>11. TableInv' BY <1>1, <1>3, <1>8 DEF TableInv
  <1> QED BY <1>9, <1>10, <1>11 DEF BtInv

-----------------------------------------------------------------------------

\* Notify::task, and what follows from a change.
LEMMA NotifyStep ==
  ASSUME BtInv, NotifyTask
  PROVE  BtInv'
  <1>1. /\ main.at = "notify" /\ items' = items /\ RestInv /\ LinkInv /\ ~hist.refused
        /\ chk' = [connected |-> rem.connected, nmx |-> rem.nmx] /\ rem \in Rems
    BY DEF NotifyTask, BtInv, TableInv, RestInv
  <1>2. Air \in Airs /\ Commanded(Air, Air) BY <1>1, AirIsAir DEF LinkInv
  <1>3. \E s : Commanded(Air, s) /\ Put(s)
    <2>1. PICK tell \in {FALSE, \E i \in DOMAIN items : items[i] \in Ids} :
            LET told == IF tell THEN sendDATA(Air) ELSE Air
            IN  Put(IF chk.connected /\ ~rem.connected THEN advertise(told) ELSE told)
      BY DEF NotifyTask
    <2> DEFINE told == IF tell THEN sendDATA(Air) ELSE Air
    <2>2. Commanded(Air, sendDATA(Air)) /\ sendDATA(Air) \in Airs BY <1>2, SendsData
    <2>3. told \in Airs /\ Commanded(Air, told) BY <1>2, <2>2
    <2>4. Put(advertise(told)) \/ Put(told) BY <2>1
    <2> HIDE DEF told
    <2>5. Commanded(told, advertise(told)) BY <2>3, Advertises
    <2>6. Commanded(Air, advertise(told)) BY <2>3, <2>5, CommandedOn
    <2> QED BY <2>3, <2>4, <2>6
  <1>4. Air' \in Airs /\ AirInv(Air') /\ Told(Air', main, rem) /\ ~hist'.refused
    BY <1>1, <1>3, CommandKeeps
  <1>5. main \in Mains /\ main.back = "menu" /\ ~main.ask
    BY <1>1 DEF RestInv, MainInv, Mains
  <1>6. /\ MainInv(main') /\ Before(main') /\ main'.at # "read"
        /\ rem' \in Rems /\ rem'.connected = rem.connected /\ rem'.nmx = rem.nmx
        /\ (rem'.motors \/ rem'.checked \/ main'.ask) => rem.nmx
    <2> DEFINE came == rem.nmx /\ ~chk.nmx
               went == ~rem.nmx /\ chk.nmx
    <2>1. (rem.motors \/ rem.checked) => chk.nmx BY <1>1 DEF RestInv, MotorInv
    <2>2. IF came /\ ~rem.checked /\ bt.state # "CONNECTED_GM"
          THEN /\ main' = [at |-> "write", back |-> "remote", ask |-> TRUE]
               /\ rem' = rem
          ELSE /\ main' = [main EXCEPT !.at = "remote"]
               /\ rem' = IF came /\ ~rem.checked
                         THEN [rem EXCEPT !.checked = TRUE, !.motors = TRUE]
                         ELSE IF went THEN [rem EXCEPT !.checked = FALSE, !.motors = FALSE]
                         ELSE rem
      BY DEF NotifyTask, Goto, MotorsGone
    <2>3. CASE main' = [at |-> "write", back |-> "remote", ask |-> TRUE] /\ rem' = rem /\ rem.nmx
      BY <2>3, <1>1 DEF MainInv, Mains, Before
    <2>4. CASE main' = [main EXCEPT !.at = "remote"]
      <3>1. MainInv(main') /\ Before(main') /\ main'.at # "read" /\ ~main'.ask
        BY <2>4, <1>5 DEF MainInv, Mains, Before
      <3>2. CASE rem' = [rem EXCEPT !.checked = TRUE, !.motors = TRUE] /\ rem.nmx
        BY <3>1, <3>2, <1>1 DEF Rems
      <3>3. CASE rem' = [rem EXCEPT !.checked = FALSE, !.motors = FALSE]
        BY <3>1, <3>3, <1>1 DEF Rems
      <3>4. CASE rem' = rem /\ ~went
        BY <3>1, <3>4, <2>1, <1>1
      <3>5. CASE main' = [at |-> "write", back |-> "remote", ask |-> TRUE]
        BY <3>1, <3>5
      <3> QED BY <2>2, <3>2, <3>3, <3>4, <3>5
    <2> QED BY <2>2, <2>3, <2>4
  <1>7. Before(main) BY <1>1 DEF Before
  <1>8. Told(Air', main', rem) BY <1>1, <1>4, <1>6, <1>7, MovesOn
  <1>9. Told(Air', main', rem') BY <1>6, <1>8, Forgets
  <1>10. LinkInv' BY <1>4, <1>9 DEF LinkInv
  <1>11. RestInv' BY <1>1, <1>6 DEF RestInv, MotorInv, Rems
  <1>12. TableInv' BY <1>1, <1>4 DEF BtInv, TableInv
  <1> QED BY <1>10, <1>11, <1>12 DEF BtInv

-----------------------------------------------------------------------------

\* A value no longer watched leaves its place free.
LEMMA Unwatched ==
  ASSUME ItemInv(items), NEW id \in Ids
  PROVE  ItemInv(unWatch(id)) /\ \A i \in 1 .. MaxItems : unWatch(id)[i] # id
  <1> DEFINE u == unWatch(id)
  <1>1. /\ DOMAIN items = 1 .. MaxItems /\ "free" \notin Ids /\ "own" \notin Ids
        /\ \A i \in 1 .. MaxItems : items[i] \in Ids \cup {"free", "own"}
    BY ItemsAssumption DEF ItemInv
  <1>2. /\ u \in [1 .. MaxItems -> Ids \cup {"free", "own"}]
        /\ \A i \in 1 .. MaxItems : u[i] = IF items[i] = id THEN "free" ELSE items[i]
    BY <1>1 DEF unWatch
  <1> HIDE DEF u
  <1>3. ItemInv(u) BY <1>1, <1>2 DEF ItemInv
  <1>4. \A i \in 1 .. MaxItems : u[i] # id BY <1>1, <1>2
  <1> QED BY <1>3, <1>4 DEF u

\* There is a place left for a value that is not watched.
LEMMA PlaceLeft ==
  ASSUME NEW table, ItemInv(table), NEW id \in Ids, \A i \in 1 .. MaxItems : table[i] # id
  PROVE  Free(table) # {}
  <1> SUFFICES ASSUME Free(table) = {} PROVE FALSE OBVIOUS
  <1> DEFINE S == OwnItems + 1 .. MaxItems
             T == Ids \ {id}
             f == [i \in S |-> table[i]]
  <1>1. /\ MaxItems \in Nat /\ OwnItems \in Nat /\ OwnItems <= MaxItems /\ IsFiniteSet(Ids)
        /\ Cardinality(Ids) \in Nat /\ OwnItems + Cardinality(Ids) <= MaxItems
    BY ItemsAssumption, FS_CardinalityType
  <1>2. IsFiniteSet(S) /\ Cardinality(S) = MaxItems - OwnItems
    <2>1. OwnItems + 1 \in Int /\ MaxItems \in Int BY <1>1
    <2>2. IsFiniteSet(S) /\ Cardinality(S) = IF OwnItems + 1 > MaxItems THEN 0
                                             ELSE MaxItems - (OwnItems + 1) + 1
      BY <2>1, FS_Interval
    <2> QED BY <2>2, <1>1
  <1>3. IsFiniteSet(T) /\ Cardinality(T) = Cardinality(Ids) - 1 BY <1>1, FS_RemoveElement
  <1>4. Cardinality(T) < Cardinality(S) BY <1>1, <1>2, <1>3
  <1>5. \A i \in S : i \in 1 .. MaxItems /\ ~(i <= OwnItems) BY <1>1
  <1>6. \A i \in S : table[i] \in T
    <2> TAKE i \in S
    <2>1. i \in 1 .. MaxItems /\ table[i] # "own" BY <1>5 DEF ItemInv
    <2>2. table[i] # "free" BY <2>1 DEF Free, ItemInv
    <2> QED BY <2>1, <2>2 DEF ItemInv
  <1>7. f \in [S -> T] BY <1>6
  <1> HIDE DEF S, T, f
  <1>8. PICK x \in S, y \in S : x # y /\ f[x] = f[y] BY <1>2, <1>3, <1>4, <1>7, FS_PigeonHole
  <1>9. table[x] = table[y] /\ table[x] \in Ids BY <1>6, <1>8 DEF f, T
  <1> QED BY <1>5, <1>8, <1>9 DEF ItemInv

\* A set of places has a first one.
LEMMA LeastPlace ==
  ASSUME NEW S, S \subseteq Nat, S # {}
  PROVE  \E i \in S : \A j \in S : i <= j
  <1> DEFINE R == OpToRel(<, Nat)
  <1>1. R = {p \in Nat \X Nat : p[1] < p[2]} BY Zenon DEF OpToRel
  <1>2. IsWellFoundedOn(R, Nat) BY NatLessThanWellFounded, Zenon
  <1> HIDE DEF R
  <1>3. PICK i \in S : \A j \in S : ~ (<<j, i>> \in R) BY <1>2, WFMin
  <1>4. ASSUME NEW j \in S PROVE i <= j
    <2>1. <<j, i>> \in Nat \X Nat /\ <<j, i>>[1] = j /\ <<j, i>>[2] = i OBVIOUS
    <2>2. ~(<<j, i>>[1] < <<j, i>>[2]) BY <1>1, <1>3, <2>1, Zenon
    <2> QED BY <2>1, <2>2
  <1> QED BY <1>4

\* A value is watched in the first free place.
LEMMA Watched ==
  ASSUME ItemInv(items), NEW id \in Ids
  PROVE  ItemInv(watch(id)) /\ Free(Table(id)) # {}
  <1> DEFINE u == Table(id)
  <1>1. ItemInv(u) /\ \A i \in 1 .. MaxItems : u[i] # id BY Unwatched DEF Table
  <1>2. Free(u) # {} BY <1>1, PlaceLeft
  <1> DEFINE k == CHOOSE i \in Free(u) : \A j \in Free(u) : i <= j
  <1>3. k \in Free(u)
    <2> HIDE DEF u
    <2>1. Free(u) \subseteq Nat BY <1>1 DEF Free, ItemInv
    <2>2. \E i \in Free(u) : \A j \in Free(u) : i <= j
      BY <2>1, <1>2, LeastPlace
    <2> QED BY <2>2
  <1>4. watch(id) = [u EXCEPT ![k] = id] BY <1>2 DEF watch
  <1> HIDE DEF u, k
  <1>5. k \in 1 .. MaxItems /\ u[k] = "free" BY <1>1, <1>3 DEF Free, ItemInv
  <1>6. "free" \notin Ids /\ "own" \notin Ids BY ItemsAssumption
  <1> DEFINE w == [u EXCEPT ![k] = id]
  <1>7. /\ w \in [1 .. MaxItems -> Ids \cup {"free", "own"}]
        /\ \A i \in 1 .. MaxItems : w[i] = IF i = k THEN id ELSE u[i]
    BY <1>1, <1>5 DEF ItemInv
  <1> HIDE DEF w
  <1>8. ItemInv(w) BY <1>1, <1>5, <1>6, <1>7 DEF ItemInv
  <1> QED BY <1>2, <1>4, <1>8 DEF u, w

\* A packet of the paired unit: its watches find a place.
LEMMA DataStep ==
  ASSUME BtInv, DataReceived
  PROVE  BtInv'
  <1> DEFINE asks == bt.data[1]
             id == bt.data[2]
             s == IF asks = "request" THEN sendDATA(Air) ELSE Air
             full == asks = "watch" /\ Free(Table(id)) = {}
             u == [s EXCEPT !.bt.event = "NULL"]
             f == s.hist.refused \/ full
             t == [u EXCEPT !.hist.refused = f]
  <1>1. /\ main.at = "remote" /\ main' = [main EXCEPT !.at = "menu"] /\ bt.event = "DATA"
        /\ rem' = rem /\ chk' = chk /\ RestInv /\ LinkInv /\ ~hist.refused /\ ItemInv(items)
    BY DEF DataReceived, BtInv, TableInv, Goto
  <1>2. Air \in Airs /\ AirInv(Air) /\ Told(Air, main, rem) /\ Commanded(Air, Air)
    BY <1>1, AirIsAir DEF LinkInv
  <1>3. Commanded(Air, s) BY <1>2, SendsData
  <1>4. /\ Put([s EXCEPT !.bt.event = "NULL", !.hist.refused = @ \/ full])
        /\ items' = CASE asks = "watch" -> watch(id)
                      [] asks = "unwatch" -> unWatch(id)
                      [] OTHER -> items
    BY DEF DataReceived
  <1>5. asks \in {"watch", "unwatch"} => id \in Ids
    <2>1. bt.data \in {<<"NULL">>} \cup (Asks \X Ids) BY <1>2, AirTypes DEF Bts
    <2>2. CASE bt.data = <<"NULL">> BY <2>2
    <2>3. CASE bt.data \in Asks \X Ids BY <2>3
    <2> QED BY <2>1, <2>2, <2>3
  <1>6. ~full /\ full \in BOOLEAN BY <1>1, <1>5, Watched
  <1>7. ItemInv(items')
    <2>1. CASE asks = "watch" BY <2>1, <1>1, <1>4, <1>5, Watched
    <2>2. CASE asks = "unwatch" BY <2>2, <1>1, <1>4, <1>5, Unwatched
    <2>3. CASE asks \notin {"watch", "unwatch"} BY <2>3, <1>1, <1>4
    <2> QED BY <2>1, <2>2, <2>3
  <1> HIDE DEF s, full
  <1>8. /\ s \in Airs /\ AirInv(s) /\ Told(s, main, rem) /\ ~s.hist.refused
        /\ s.bt.event = "DATA"
    BY <1>1, <1>2, <1>3, CommandedAir, CommandedTold, AirFields DEF Commanded, Unheard
  <1>9. /\ s.hist \in Hists /\ f \in BOOLEAN /\ ~f /\ "NULL" \in Events
    BY <1>6, <1>8 DEF Airs, Hists, Events
  <1>10. Put(t)
    <2>1. [s EXCEPT !.bt.event = "NULL", !.hist.refused = @ \/ full] = t BY <1>8 DEF Airs
    <2> QED BY <2>1, <1>4
  <1> HIDE DEF f
  <1>11. Same(s, u) /\ u.bt.state = s.bt.state /\ u.bt.mode = s.bt.mode /\ u.bt.event = "NULL"
    BY <1>8, <1>9, EventSame
  <1> HIDE DEF u
  <1>12. /\ t \in Airs /\ t.rx = u.rx /\ t.mod = u.mod /\ t.bt = u.bt /\ t.hist.refused = f
         /\ t.hist.eaten = u.hist.eaten /\ t.hist.dropped = u.hist.dropped
         /\ t.hist.skipped = u.hist.skipped
    BY <1>9, <1>11 DEF Same, Airs, Hists
  <1> HIDE DEF t
  <1>13. Air' \in Airs /\ Alike(t, Air') /\ Air'.bt = t.bt /\ hist' = t.hist
    BY <1>10, <1>12, Puts
  <1>14. Alike(s, Air') /\ Air'.bt.event = "NULL" BY <1>11, <1>12, <1>13 DEF Alike, Same
  <1>15. MainInv(main') /\ Outside(main') /\ main'.at = "menu" /\ main'.ask = main.ask
    BY <1>1 DEF RestInv, MainInv, Mains, Outside
  <1>16. Told(s, main', rem) BY <1>1, <1>8, <1>15, MovesOn
  <1>17. AirInv(Air') /\ Told(Air', main', rem) BY <1>8, <1>14, <1>15, <1>16, AlikeKeeps
  <1>18. LinkInv' BY <1>1, <1>13, <1>17 DEF LinkInv
  <1>19. RestInv' BY <1>1, <1>15 DEF RestInv, MotorInv
  <1>20. TableInv' BY <1>7, <1>9, <1>12, <1>13 DEF TableInv
  <1> QED BY <1>18, <1>19, <1>20 DEF BtInv

\* Remote::event is told of the loss.
LEMMA DisconnectedStep ==
  ASSUME BtInv, Disconnected
  PROVE  BtInv'
  <1>1. /\ main.at = "remote" /\ main' = [main EXCEPT !.at = "menu"] /\ bt.event = "DISCONNECT"
        /\ rem' = [rem EXCEPT !.connected = FALSE, !.nmx = FALSE]
        /\ hist' = [hist EXCEPT !.skipped = FALSE] /\ items' = WatchesOver
        /\ rx' = rx /\ mod' = mod /\ bt' = bt /\ chk' = chk
        /\ RestInv /\ LinkInv /\ ~hist.refused /\ ItemInv(items)
    BY DEF Disconnected, BtInv, TableInv, Goto
  <1>2. /\ Air \in Airs /\ AirInv(Air) /\ Told(Air, main, rem) /\ hist \in Hists
        /\ rx \in Seq(Lines) /\ mod \in Mods /\ bt \in Bts
    BY <1>1, AirTypes DEF LinkInv
  <1>3. /\ rem' \in Rems /\ ~rem'.connected /\ ~rem'.nmx /\ rem'.motors = rem.motors
        /\ rem'.checked = rem.checked
    BY <1>1 DEF RestInv, Rems
  <1>4. /\ hist' \in Hists /\ hist'.eaten = hist.eaten /\ hist'.dropped = hist.dropped
        /\ hist'.refused = hist.refused
    BY <1>1, <1>2 DEF Hists
  <1>5. Air' \in Airs BY <1>1, <1>2, <1>4 DEF Air, Airs
  <1>6. /\ Air'.rx = Air.rx /\ Air'.mod = Air.mod /\ Air'.bt = Air.bt
        /\ Air'.hist.eaten = Air.hist.eaten /\ Air'.hist.dropped = Air.hist.dropped
    BY <1>1, <1>4, AirFields
  <1>7. (First(Air') <=> First(Air)) /\ (Last(Air') <=> Last(Air))
        /\ (Parted(Air') <=> Parted(Air)) /\ (Ordered(Air') <=> Ordered(Air))
    BY <1>6 DEF First, Last, Parted, Ordered
  <1>8. AirInv(Air') BY <1>2, <1>6, <1>7 DEF AirInv
  <1>9. Air.bt.event = "DISCONNECT" /\ Air.bt.eventBuf = "NULL" /\ Air.bt.tmp = "NULL"
    BY <1>1, <1>2, AirFields DEF Told, BufferInv, Before
  <1>10. MainInv(main') /\ main'.at = "menu" /\ main'.ask = main.ask
    BY <1>1 DEF RestInv, MainInv, Mains
  <1>11. Told(Air', main', rem')
    BY <1>3, <1>6, <1>9, <1>10
    DEF Told, PendInv, ConnInv, FlagInv, StaleInv, BufferInv, Pending, Announced, Before
  <1>12. ItemInv(items')
    <2>1. /\ DOMAIN items = 1 .. MaxItems /\ "free" \notin Ids /\ "own" \notin Ids
          /\ \A i \in 1 .. MaxItems : items[i] \in Ids \cup {"free", "own"}
      BY <1>1, ItemsAssumption DEF ItemInv
    <2>2. /\ WatchesOver \in [1 .. MaxItems -> Ids \cup {"free", "own"}]
          /\ \A i \in 1 .. MaxItems :
               WatchesOver[i] = IF items[i] \in Ids THEN "free" ELSE items[i]
      BY <2>1 DEF WatchesOver
    <2>3. ItemInv(WatchesOver) BY <2>1, <2>2, <1>1 DEF ItemInv
    <2> QED BY <2>3, <1>1
  <1>13. LinkInv' BY <1>5, <1>8, <1>11 DEF LinkInv
  <1>14. RestInv' BY <1>1, <1>3, <1>10 DEF RestInv, MotorInv
  <1>15. TableInv' BY <1>1, <1>4, <1>12 DEF TableInv
  <1> QED BY <1>13, <1>14, <1>15 DEF BtInv

\* Remote::event is told of a connection.
LEMMA ConnectedStep ==
  ASSUME BtInv, NowConnected
  PROVE  BtInv'
  <1>1. /\ main.at = "remote" /\ main' = [main EXCEPT !.at = "menu"] /\ bt.event = "CONNECT"
        /\ items' = items /\ chk' = chk /\ RestInv /\ LinkInv /\ ~hist.refused /\ rem \in Rems
    BY DEF NowConnected, BtInv, TableInv, Goto, RestInv
  <1>2. Air \in Airs /\ Commanded(Air, Air) BY <1>1, AirIsAir DEF LinkInv
  <1>3. Commanded(Air, sendDATA(Air)) BY <1>2, SendsData
  <1> DEFINE s == IF bt.state = "CONNECTED" THEN sendDATA(Air) ELSE Air
  <1>4. Put(s) /\ Commanded(Air, s) BY <1>2, <1>3 DEF NowConnected
  <1> HIDE DEF s
  <1>5. /\ Air' \in Airs /\ AirInv(Air') /\ Told(Air', main, rem) /\ ~hist'.refused
        /\ bt'.event = "CONNECT"
    BY <1>1, <1>4, CommandKeeps
  <1>6. bt.state \in Connected => bt'.state = bt.state
    <2>1. bt'.state = s.bt.state BY <1>1, <1>4, CommandKeeps
    <2> QED BY <2>1, <1>4, AirFields DEF Commanded
  <1>7. MainInv(main') /\ Outside(main') /\ main'.at = "menu" /\ main'.ask = main.ask
    BY <1>1 DEF RestInv, MainInv, Mains, Outside
  <1>8. Told(Air', main', rem) BY <1>1, <1>5, <1>7, MovesOn, AirFields
  <1>9. /\ rem' \in Rems /\ rem'.motors = rem.motors /\ rem'.checked = rem.checked
        /\ rem'.connected => (rem.connected \/ bt'.state = "CONNECTED")
        /\ rem'.nmx => (rem.nmx \/ bt'.state \in Motorised)
    <2>1. CASE bt.state = "CONNECTED"
      <3>1. rem' = [rem EXCEPT !.connected = TRUE] BY <2>1 DEF NowConnected
      <3>2. bt'.state = "CONNECTED" BY <2>1, <1>6 DEF Connected
      <3> QED BY <3>1, <3>2, <1>1 DEF Rems
    <2>2. CASE bt.state # "CONNECTED"
      <3> DEFINE f == rem.nmx \/ bt.state \in {"CONNECTED_NMX", "CONNECTED_GM"}
      <3>1. f \in BOOLEAN /\ rem' = [rem EXCEPT !.nmx = f] BY <2>2, <1>1 DEF NowConnected, Rems
      <3>2. f => (rem.nmx \/ bt'.state \in Motorised) BY <1>6 DEF Connected, Motorised
      <3> HIDE DEF f
      <3> QED BY <3>1, <3>2, <1>1 DEF Rems
    <2> QED BY <2>1, <2>2
  <1>10. Told(Air', main', rem')
    <2>1. Air'.bt.event = "CONNECT" /\ Air'.bt.state = bt'.state BY <1>5, AirFields
    <2>2. ConnInv(Air') /\ Announced(Air') BY <1>5, <2>1 DEF Told, Announced
    <2>3. FlagInv(Air', main', rem')
      BY <2>1, <2>2, <1>8, <1>9 DEF Told, FlagInv, ConnInv
    <2>4. StaleInv(Air', main', rem') BY <2>1 DEF StaleInv
    <2> QED BY <2>3, <2>4, <1>8 DEF Told
  <1>11. LinkInv' BY <1>5, <1>10 DEF LinkInv
  <1>12. RestInv' BY <1>1, <1>7, <1>9 DEF RestInv, MotorInv
  <1>13. TableInv' BY <1>1, <1>5 DEF BtInv, TableInv
  <1> QED BY <1>11, <1>12, <1>13 DEF BtInv

-----------------------------------------------------------------------------

\* The invariant holds at the start.
LEMMA BtInit == Init => BtInv
  <1> SUFFICES ASSUME Init PROVE BtInv OBVIOUS
  <1>1. PICK adv \in BOOLEAN, asleep \in BOOLEAN :
         /\ mod = [link |-> "none", dial |-> "none", adv |-> adv, scan |-> FALSE,
                   data |-> FALSE, asleep |-> asleep, say |-> <<>>]
         /\ bt = [state |-> IF adv THEN "IDLE" ELSE "SLEEP", mode |-> "CMD",
                  event |-> "NULL", eventBuf |-> "NULL", tmp |-> "NULL",
                  data |-> <<"NULL">>]
    BY DEF Init
  <1>2. <<>> \in Seq(Lines) /\ rx = <<>> BY DEF Init
  <1>3. mod \in Mods BY <1>1, <1>2 DEF Mods
  <1>4. bt \in Bts BY <1>1 DEF Bts, States, Events
  <1>5. hist \in Hists /\ ~hist.refused BY DEF Init, Hists
  <1>6. Air \in Airs BY <1>2, <1>3, <1>4, <1>5, AirTypes
  <1>7. /\ Air.rx = <<>> /\ Air.mod.say = <<>> /\ Air.mod.link = "none"
        /\ Air.bt.state \in Low /\ Air.bt.mode = "CMD" /\ Air.bt.event = "NULL"
        /\ Air.bt.eventBuf = "NULL" /\ Air.bt.tmp = "NULL"
    BY <1>1, <1>2, AirFields DEF Low
  <1>8. ~Parts(<<>>) /\ ~Leading(<<>>) /\ Clear(<<>>) /\ \A G : ~Lasting(<<>>, G)
    BY DEF Parts, Leading, Clear, Lasting
  <1>9. Ordered(Air) /\ ~First(Air) BY <1>7, <1>8 DEF Ordered, Last, First
  <1>10. AirInv(Air) BY <1>7, <1>9, StatesDiffer DEF AirInv, Linked
  <1>11. /\ main = [at |-> "menu", back |-> "menu", ask |-> FALSE]
         /\ rem = [connected |-> FALSE, nmx |-> FALSE, motors |-> FALSE, checked |-> FALSE]
         /\ chk = [connected |-> FALSE, nmx |-> FALSE]
    BY DEF Init
  <1>12. Told(Air, main, rem)
    BY <1>7, <1>11
    DEF Told, PendInv, ConnInv, FlagInv, StaleInv, BufferInv, Pending, Announced, Before
  <1>13. RestInv BY <1>11 DEF RestInv, MainInv, Mains, Rems, MotorInv
  <1>14. ItemInv(items)
    <2>1. MaxItems \in Nat /\ OwnItems \in Nat /\ "free" \notin Ids /\ "own" \notin Ids
      BY ItemsAssumption
    <2>2. items = [i \in 1 .. MaxItems |-> IF i <= OwnItems THEN "own" ELSE "free"]
      BY DEF Init
    <2> QED BY <2>1, <2>2 DEF ItemInv
  <1> QED BY <1>5, <1>6, <1>10, <1>12, <1>13, <1>14 DEF BtInv, LinkInv, TableInv

\* It is about the variables only.
LEMMA BtStutter ==
  ASSUME BtInv, UNCHANGED vars
  PROVE  BtInv'
  BY DEF BtInv, LinkInv, RestInv, TableInv, Air, vars

\* The inductive invariant holds for every set of peers, every table and every number of
\* lines that may wait.
THEOREM BluetoothInvariant == Spec => []BtInv
  <1>1. Init => BtInv BY BtInit
  <1>2. BtInv /\ [Next]_vars => BtInv'
    <2> SUFFICES ASSUME BtInv, [Next]_vars PROVE BtInv' OBVIOUS
    <2>1. CASE ScreenOpens \/ ScreenCloses \/ Dial \/ HangUp BY <2>1, ScreenSteps
    <2>2. CASE ScreenEvent BY <2>2, ScreenEventStep
    <2>3. CASE Pass \/ MotorCommand BY <2>3, PassSteps
    <2>4. CASE BtTask BY <2>4, BtTaskStep
    <2>5. CASE Write BY <2>5, WriteStep
    <2>6. CASE Read BY <2>6, ReadStep
    <2>7. CASE Wait BY <2>7, WaitStep
    <2>8. CASE NotifyTask BY <2>8, NotifyStep
    <2>9. CASE Disconnected BY <2>9, DisconnectedStep
    <2>10. CASE NowConnected BY <2>10, ConnectedStep
    <2>11. CASE DataReceived BY <2>11, DataStep
    <2>12. CASE Emit \/ PeerDisconnects \/ PeerSends \/ ScanFinds \/ ScanEnds BY <2>12, RadioSteps
    <2>13. CASE PeerConnects BY <2>13, PeerConnectsStep
    <2>14. CASE UNCHANGED vars BY <2>14, BtStutter
    <2> QED BY <2>1, <2>2, <2>3, <2>4, <2>5, <2>6, <2>7, <2>8, <2>9, <2>10, <2>11, <2>12,
               <2>13, <2>14 DEF Next, Main, Radio
  <1> QED BY <1>1, <1>2, PTL DEF Spec

\* What waits holds a parting exactly if one of the queues does.
LEMMA WaitingLines ==
  /\ <<"DISCONNECT">> \in Waiting <=> Parted(Air)
  /\ Waiting = {} => ~Last(Air)
  <1>1. <<"DISCONNECT">> \in Waiting <=> Parted(Air)
    BY AirFields DEF Waiting, Parted, Parts, Parting
  <1>2. Waiting = {} => (\A i \in DOMAIN rx : FALSE) /\ (\A i \in DOMAIN mod.say : FALSE)
    BY DEF Waiting
  <1>3. Waiting = {} => ~Last(Air)
    BY <1>2, AirFields DEF Last, Lasting
  <1> QED BY <1>1, <1>3

\* Every variable keeps its type.
THEOREM BluetoothTypeCorrect == Spec => []TypeOK
  <1>1. BtInv => TypeOK
    <2> SUFFICES ASSUME BtInv PROVE TypeOK OBVIOUS
    <2>1. rx \in Seq(Lines) /\ mod \in Mods /\ bt \in Bts /\ hist \in Hists
      BY AirTypes DEF BtInv, LinkInv
    <2>2. /\ main \in Mains /\ rem \in Rems /\ chk \in [connected : BOOLEAN, nmx : BOOLEAN]
          /\ items \in [1 .. MaxItems -> Ids \cup {"free", "own"}]
      BY DEF BtInv, RestInv, MainInv, TableInv, ItemInv
    <2> QED BY <2>1, <2>2 DEF TypeOK, Mods, Bts, Hists, Mains, Rems
  <1> QED BY <1>1, BluetoothInvariant, PTL

\* The driver (bluetooth.cpp) believes in a connection that is gone only while the line
\* that says so is on its way, unless checkOK discarded it.
THEOREM GhostsAreNoticed == Spec => []NoGhostLink
  <1>1. BtInv => NoGhostLink
    BY WaitingLines, AirFields DEF BtInv, LinkInv, AirInv, NoGhostLink, Linked
  <1> QED BY <1>1, BluetoothInvariant, PTL

\* A connected peer is known to the driver once all lines are read, unless checkOK
\* discarded one or a command was given while the peer was examined.
THEOREM PeersAreKnown == Spec => []NoOrphanLink
  <1>1. BtInv => NoOrphanLink
    BY WaitingLines, AirFields DEF BtInv, LinkInv, AirInv, NoOrphanLink, Linked
  <1> QED BY <1>1, BluetoothInvariant, PTL

\* remote.connected and remote.nmx (remote.cpp) follow the driver's state up to a
\* DISCONNECT still to be delivered, through waitEvent and eventBuf too.
THEOREM FlagsFollowTheDriver == Spec => []FlagsFollow
  <1>1. BtInv => FlagsFollow
    <2> SUFFICES ASSUME BtInv PROVE FlagsFollow OBVIOUS
    <2>1. Pending(Air, main) => Undelivered
      BY AirFields DEF Pending, Undelivered, Before
    <2>2. FlagInv(Air, main, rem) BY DEF BtInv, LinkInv, Told
    <2> QED BY <2>1, <2>2, AirFields DEF FlagsFollow, FlagInv, Motorised
  <1> QED BY <1>1, BluetoothInvariant, PTL

\* Motors are known (nmx.cpp) only with the motion controller, or until the notification
\* that it went.
THEOREM MotorsFollowTheController == Spec => []MotorsFollow
  <1>1. BtInv => MotorsFollow BY DEF BtInv, RestInv, MotorInv, MotorsFollow
  <1> QED BY <1>1, BluetoothInvariant, PTL

\* A paired unit's watches never fill the table (notify.cpp): a value is watched once,
\* and there are places for all.
THEOREM WatchesAlwaysFit == Spec => []WatchesFit
  <1>1. BtInv => WatchesFit BY DEF BtInv, TableInv, WatchesFit
  <1> QED BY <1>1, BluetoothInvariant, PTL
-----------------------------------------------------------------------------
(* The watches.  A packet of a paired unit is read only on a connection    *)
(* that the rest of the firmware knows of, or is about to be told of: the  *)
(* invariant follows the packets through the queues.                       *)

\* A bid that has the last word is in the queue.
LEMMA BidMarks ==
  ASSUME NEW q
  PROVE  /\ Lasting(q, {Bid}) => Marked(q)
         /\ Parts(q) => Marked(q)
  BY Kinds DEF Lasting, Marked, Parts

\* u is s without its first line, x: what it does to packets and greetings.
Lessens(s, u, x) ==
    /\ Sound(u)
    /\ x = Parting => (~Unbidden(u) /\ (u.mod.link = "tlp" => Bound(u)))
    /\ x \notin Marks => ((Unbidden(u) => Unbidden(s)) /\ (Bound(s) => Bound(u)))
    /\ x \in Packets => Unbidden(s)
    /\ Half(s) => (x \in Replies \/ x \in Answers)
    /\ (Half(s) /\ x \in Replies) => Half(u)
    /\ x = Call => Half(u)

\* Reading a line.
LEMMA ReadingLessens ==
  ASSUME NEW s \in Airs, Sound(s), s.rx # <<>>, NEW u, u.rx = Tail(s.rx), u.mod = s.mod
  PROVE  Lessens(s, u, Head(s.rx))
  <1> DEFINE q == s.rx
             r == Tail(q)
             x == Head(q)
             a == s.mod.say
  <1>1. q \in Seq(Lines) /\ q # <<>> /\ r = Tail(q) /\ x = Head(q) BY DEF Airs
  <1>2. u.rx = r /\ u.mod.say = a /\ s.mod.say = a /\ s.rx = q /\ u.mod.link = s.mod.link
    OBVIOUS
  <1> HIDE DEF q, r, x, a
  <1>3. /\ Parts(q) <=> (x = Parting \/ Parts(r))
        /\ Lasting(q, {Bid}) <=> (Lasting(r, {Bid}) \/ (x = Bid /\ ~Parts(r)))
    <2>1. /\ Parts(q) <=> (x = Parting \/ Parts(r))
          /\ Lasting(q, {Bid}) <=> (Lasting(r, {Bid}) \/ (x \in {Bid} /\ ~Parts(r)))
      BY <1>1, TailOf, Zenon
    <2> QED BY <2>1
  <1>4. /\ Marked(q) <=> (x \in Marks \/ Marked(r))
        /\ Stray(q) <=> (x \in Packets \/ (x \notin Marks /\ Stray(r)))
        /\ Bidden(q) => (Bidden(r) /\ (x = Parting => ~Stray(r)))
        /\ Mute(q) <=> (x \in Replies /\ Mute(r))
        /\ Met(q) <=> (x \in Answers \/ (x \in Replies /\ Met(r)))
    BY <1>1, TailLeft, Zenon
  <1>5. Hanging(r) => Hanging(q) BY <1>1, TailLeft, Zenon
  <1>6. ASSUME x = Call, Mute(r) PROVE Hanging(q) BY <1>1, <1>6, TailLeft, Zenon
  <1>7. Tied(q) => (Tied(r) /\ (x = Call => (Met(r) \/ Mute(r)))) BY <1>1, TailLeft, Zenon
  <1>8. /\ Bidden(q) /\ Bidden(a) /\ ((Parts(q) /\ ~Lasting(q, {Bid})) => ~Stray(a))
        /\ Tied(q) /\ Tied(a) /\ ~Hanging(a) /\ (Hanging(q) => Met(a))
        /\ (s.mod.link = "tlp" /\ Parted(s)) => Bound(s)
    BY <1>2 DEF Sound
  <1>9. (Parted(u) => Parted(s)) /\ (x = Parting => Parted(s)) BY <1>2, <1>3 DEF Parted
  <1>10. x # Bid => (Bound(s) => Bound(u)) BY <1>2, <1>3 DEF Bound
  <1>11. Sound(u)
    <2>1. (u.mod.link = "tlp" /\ Parted(u)) => Bound(u)
      BY <1>2, <1>3, <1>8, <1>9 DEF Bound, Parted
    <2> QED BY <2>1, <1>2, <1>3, <1>4, <1>5, <1>7, <1>8 DEF Sound
  <1>12. ASSUME x = Parting PROVE ~Unbidden(u) /\ (u.mod.link = "tlp" => Bound(u))
    <2>1. ~Stray(r) BY <1>4, <1>8, <1>12
    <2>2. ~Marked(r) => ~Stray(a) BY <1>3, <1>8, <1>12, BidMarks, Kinds
    <2>3. u.mod.link = "tlp" => Bound(u) BY <1>2, <1>8, <1>9, <1>10, <1>12, Kinds
    <2> QED BY <2>1, <2>2, <2>3, <1>2 DEF Unbidden
  <1>13. x \notin Marks => ((Unbidden(u) => Unbidden(s)) /\ (Bound(s) => Bound(u)))
    BY <1>2, <1>4, <1>10, Kinds DEF Unbidden
  <1>14. x \in Packets => Unbidden(s) BY <1>2, <1>4 DEF Unbidden
  <1>15. /\ Half(s) => (x \in Replies \/ x \in Answers)
         /\ (Half(s) /\ x \in Replies) => Half(u)
    BY <1>2, <1>4, Kinds DEF Half
  <1>16. x = Call => Half(u) BY <1>2, <1>6, <1>7, <1>8 DEF Half
  <1>17. Lessens(s, u, x) BY <1>11, <1>12, <1>13, <1>14, <1>15, <1>16 DEF Lessens
  <1> QED BY <1>17 DEF x, q

\* What becomes of the driver when a line is read: no parting, a parting.
Obeys(u, x, t) ==
    /\ x # Parting => (Trail(u, t) /\ t.bt.event # "DISCONNECT")
    /\ x = Parting =>
         /\ t.rx = u.rx /\ t.mod = u.mod /\ ~t.hist.eaten
         /\ t.bt.state = "IDLE" /\ t.bt.mode = "CMD" /\ t.bt.event = "DISCONNECT"
    /\ t.bt.event = "DATA" => x \in Packets
    /\ (x = Bid /\ u.bt.mode = "CMD") => (t.bt.event = "CONNECT" /\ t.bt.state = "CONNECTED")
    /\ t.bt.mode = "DATA" => (u.bt.mode = "DATA" \/ (x = Bid /\ u.bt.mode = "CMD"))
    /\ (t.bt.state = "CONNECTED" /\ u.bt.mode = "CMD") =>
         \/ u.bt.state = "CONNECTED" /\ x # <<"BRSP0">>
         \/ x = Call \/ x = Bid \/ u.bt.state = "CHECKING_GM"
    /\ (x = <<"GATT_VAL">> /\ u.bt.mode = "CMD") => t.bt.state = u.bt.state

\* The line of the lost connection.
LEMMA LostObeys ==
  ASSUME NEW u \in Airs, NEW x, x = Parting
  PROVE  Obeys(u, x, Lost(u))
  <1> DEFINE t == Lost(u)
  <1>1. u.bt \in Bts /\ u.hist \in Hists BY DEF Airs
  <1>2. /\ t.rx = u.rx /\ t.mod = u.mod /\ ~t.hist.eaten
        /\ t.bt.state = "IDLE" /\ t.bt.mode = "CMD" /\ t.bt.event = "DISCONNECT"
    BY <1>1 DEF Lost, Now, Airs, Bts, Hists
  <1> HIDE DEF t
  <1>3. x # Bid /\ x # <<"GATT_VAL">> BY Kinds DEF Parting
  <1>4. Obeys(u, x, t) BY <1>2, <1>3 DEF Obeys
  <1> QED BY <1>4 DEF t

\* A change of state, mode and event, and a command after it.
LEMMA SameTrails ==
  ASSUME NEW u, NEW w, Same(u, w)
  PROVE  /\ Trail(u, w)
         /\ \A t : Direct(w, t) => (Trail(u, t) /\ t.bt.event = w.bt.event)
  <1>1. Trail(u, w) BY Still DEF Same
  <1>2. ASSUME NEW t, Direct(w, t) PROVE Trail(u, t) /\ t.bt.event = w.bt.event
    <2>1. Trail(w, t) /\ t.bt.event = w.bt.event BY <1>2 DEF Direct, Loose, Unheard
    <2> QED BY <1>1, <2>1, TrailsOn
  <1> QED BY <1>1, <1>2

\* Every line in command mode.
LEMMA CommandLineObeys ==
  ASSUME NEW u \in Airs, NEW x \in Lines, u.bt.mode = "CMD", u.bt.event = "NULL"
  PROVE  Obeys(u, x, CommandLine(u, x))
  <1> DEFINE t == CommandLine(u, x)
             l == x[1]
             state == u.bt.state
  <1>1. state \in States BY DEF Airs, Bts
  <1>2. /\ l = "DISCONNECT" <=> x = Parting
        /\ l = "BRSP1" <=> x = Bid
        /\ l = "BRSP0" <=> x = <<"BRSP0">>
        /\ l = "CONNECT" <=> x = Call
        /\ l = "GATT_VAL" <=> x = <<"GATT_VAL">>
    BY DEF Lines, Parting, Bid, Call
  <1>3. {"NULL", "DISCOVERY", "CONNECT", "DISCONNECT", "DATA", "SCAN_COMPLETE"} = Events
        /\ {"CONNECTED", "CONNECTED_NMX", "CONNECTED_GM", "CHECKING_NMX", "CHECKING_GM",
            "AUTHORIZING_GM"} \subseteq States
    BY DEF Events, States
  <1>4. Same(u, u) /\ Trail(u, u) BY Still DEF Same
  <1>5. CASE l \in {"DISCOVERY", "DONE"}
    <2> DEFINE e == IF l = "DISCOVERY" THEN "DISCOVERY" ELSE "SCAN_COMPLETE"
               w == [u EXCEPT !.bt.event = e]
    <2>1. t = w BY <1>5 DEF CommandLine
    <2>2. e \in Events /\ e \notin {"DISCONNECT", "DATA"} BY <1>3
    <2> HIDE DEF e
    <2>3. Same(u, w) /\ w.bt.state = state /\ w.bt.mode = "CMD" /\ w.bt.event = e
      BY <2>2, EventSame
    <2> HIDE DEF w
    <2>4. Trail(u, w) BY <2>3, SameTrails
    <2> HIDE DEF t, l, state
    <2> QED BY <2>1, <2>2, <2>3, <2>4, <1>2, <1>5 DEF Obeys, state, t
  <1>6. CASE l = "CONNECT"
    <2> DEFINE v == IF state = "SCAN" THEN cancelScan(u) ELSE u
    <2>1. t = [v EXCEPT !.bt.state = "CONNECTED"] BY <1>6 DEF CommandLine
    <2>2. Loose(u, u)
      <3>1. Heard(u, u) BY Tuned, Zenon
      <3> QED BY <3>1, HeardDirect DEF Direct
    <2>3. Loose(u, v) /\ v \in Airs BY <2>2, Cancels
    <2> HIDE DEF v
    <2>4. /\ Same(v, t) /\ t.bt.state = "CONNECTED" /\ t.bt.mode = v.bt.mode
          /\ t.bt.event = v.bt.event
      BY <2>1, <2>3, StateSame, StatesDiffer
    <2> HIDE DEF t, l, state
    <2>5. Trail(u, v) /\ v.bt.event = "NULL" /\ v.bt.mode = "CMD" BY <2>3 DEF Loose, Unheard
    <2>6. Trail(u, t) BY <2>4, <2>5, SameTrails, TrailsOn
    <2> QED BY <2>4, <2>5, <2>6, <1>2, <1>6 DEF Obeys, t
  <1>7. CASE l = "BRSP1"
    <2> DEFINE w == Now(u, "CONNECTED", "DATA", "CONNECT")
    <2>1. t = w BY <1>7 DEF CommandLine
    <2>2. Same(u, w) /\ w.bt.state = "CONNECTED" /\ w.bt.mode = "DATA" /\ w.bt.event = "CONNECT"
      BY <1>3, NowSame, SMTT(30)
    <2> HIDE DEF w
    <2>3. Trail(u, w) BY <2>2, SameTrails
    <2> HIDE DEF t, l, state
    <2> QED BY <2>1, <2>2, <2>3, <1>2, <1>7 DEF Obeys, t
  <1>8. CASE l = "BRSP0"
    <2> DEFINE w == Now(u, "CHECKING_NMX", "CMD", "NULL")
    <2>1. t = sendCMD(w, "findNMX") BY <1>8 DEF CommandLine
    <2>2. Same(u, w) /\ w.bt.state = "CHECKING_NMX" /\ w.bt.mode = "CMD" /\ w.bt.event = "NULL"
      BY <1>3, NowSame
    <2> HIDE DEF w
    <2>3. Direct(w, t) BY <2>1, <2>2, sendCMDDirect DEF Same
    <2> HIDE DEF t, l, state
    <2>4. Trail(u, t) /\ t.bt.event = "NULL" BY <2>2, <2>3, SameTrails
    <2>5. t.bt.state = "CHECKING_NMX" /\ t.bt.mode = "CMD" BY <2>2, <2>3 DEF Direct, Loose
    <2> QED BY <2>4, <2>5, <1>2, <1>8 DEF Obeys, t
  <1>9. CASE l = "DC_NMX" /\ state = "CHECKING_NMX"
    <2> DEFINE w == Now(u, "CONNECTED_NMX", "CMD", "CONNECT")
    <2>1. t = w BY <1>9 DEF CommandLine
    <2>2. Same(u, w) /\ w.bt.state = "CONNECTED_NMX" /\ w.bt.mode = "CMD" /\ w.bt.event = "CONNECT"
      BY <1>3, NowSame
    <2> HIDE DEF w
    <2>3. Trail(u, w) BY <2>2, SameTrails
    <2> HIDE DEF t, l, state
    <2> QED BY <2>1, <2>2, <2>3, <1>2, <1>9 DEF Obeys, t
  <1>10. CASE l = "DC_GM" /\ state = "CHECKING_GM"
    <2> DEFINE w == [u EXCEPT !.bt.state = "AUTHORIZING_GM"]
    <2>1. t = w BY <1>10 DEF CommandLine
    <2>2. Same(u, w) /\ w.bt.state = "AUTHORIZING_GM" /\ w.bt.mode = "CMD" /\ w.bt.event = "NULL"
      BY <1>3, StateSame
    <2> HIDE DEF w
    <2>3. Trail(u, w) BY <2>2, SameTrails
    <2> HIDE DEF t, l, state
    <2> QED BY <2>1, <2>2, <2>3, <1>2, <1>10 DEF Obeys, t
  <1>11. CASE l = "GATT_DONE"
    <2>0. t = GattDone(u) BY <1>11 DEF CommandLine
    <2>1. CASE state = "CHECKING_NMX"
      <3> DEFINE w == [u EXCEPT !.bt.state = "CHECKING_GM"]
      <3>1. t = sendCMD(w, "findGM") BY <2>0, <2>1 DEF GattDone
      <3>2. Same(u, w) /\ w.bt.state = "CHECKING_GM" /\ w.bt.mode = "CMD" /\ w.bt.event = "NULL"
        BY <1>3, StateSame
      <3> HIDE DEF w
      <3>3. Direct(w, t) BY <3>1, <3>2, sendCMDDirect DEF Same
      <3> HIDE DEF t, l, state
      <3>4. Trail(u, t) /\ t.bt.event = "NULL" BY <3>2, <3>3, SameTrails
      <3>5. t.bt.state = "CHECKING_GM" /\ t.bt.mode = "CMD" BY <3>2, <3>3 DEF Direct, Loose
      <3> QED BY <3>4, <3>5, <1>2, <1>11 DEF Obeys, t
    <2>2. CASE state = "CHECKING_GM"
      <3> DEFINE w == [u EXCEPT !.bt.state = "CONNECTED"]
      <3>1. t = disconnect(w) BY <2>0, <2>2 DEF GattDone
      <3>2. Same(u, w) /\ w.bt.state = "CONNECTED" /\ w.bt.mode = "CMD" /\ w.bt.event = "NULL"
        BY <1>3, StateSame
      <3> HIDE DEF w
      <3>3. Direct(w, t) BY <3>1, <3>2, Disconnects DEF Same
      <3> HIDE DEF t, l
      <3>4. Trail(u, t) /\ t.bt.event = "NULL" BY <3>2, <3>3, SameTrails
      <3>5. t.bt.state = "CONNECTED" /\ t.bt.mode = "CMD" BY <3>2, <3>3 DEF Direct, Loose
      <3> QED BY <2>2, <3>4, <3>5, <1>2, <1>11 DEF Obeys, t
    <2>3. CASE state = "AUTHORIZING_GM"
      <3> DEFINE w == Now(u, "CONNECTED_GM", "CMD", "CONNECT")
      <3>1. t = sendCMD(w, "write") BY <2>0, <2>3 DEF GattDone
      <3>2. Same(u, w) /\ w.bt.state = "CONNECTED_GM" /\ w.bt.mode = "CMD" /\ w.bt.event = "CONNECT"
        <4>1. "CONNECTED_GM" \in States /\ "CONNECT" \in Events /\ "CMD" \in {"CMD", "DATA"}
          BY <1>3
        <4> QED BY <4>1, NowSame
      <3> HIDE DEF w
      <3>3. Direct(w, t) BY <3>1, <3>2, sendCMDDirect DEF Same
      <3> HIDE DEF t, l, state
      <3>4. Trail(u, t) /\ t.bt.event = "CONNECT" BY <3>2, <3>3, SameTrails
      <3>5. t.bt.state = "CONNECTED_GM" /\ t.bt.mode = "CMD" BY <3>2, <3>3 DEF Direct, Loose
      <3> QED BY <3>4, <3>5, <1>2, <1>11 DEF Obeys, t
    <2>4. CASE state \notin {"CHECKING_NMX", "CHECKING_GM", "AUTHORIZING_GM"}
      <3>1. t = u BY <2>0, <2>4 DEF GattDone
      <3> HIDE DEF t, l, state
      <3> QED BY <3>1, <1>2, <1>4, <1>11 DEF Obeys, t
    <2> QED BY <2>1, <2>2, <2>3, <2>4
  <1>12. CASE l = "DISCONNECT"
    <2>1. t = Lost(u) BY <1>12 DEF CommandLine
    <2> QED BY <2>1, <1>2, <1>12, LostObeys
  <1>13. CASE /\ l \notin {"DISCOVERY", "DONE", "CONNECT", "BRSP1", "BRSP0", "GATT_DONE", "DISCONNECT"}
              /\ ~(l = "DC_NMX" /\ state = "CHECKING_NMX")
              /\ ~(l = "DC_GM" /\ state = "CHECKING_GM")
    <2>1. t = u BY <1>13 DEF CommandLine
    <2> HIDE DEF t, l, state
    <2> QED BY <2>1, <1>2, <1>4, <1>13 DEF Obeys, t
  <1> HIDE DEF l, state
  <1> QED BY <1>5, <1>6, <1>7, <1>8, <1>9, <1>10, <1>11, <1>12, <1>13

\* Every line in data mode.
LEMMA DataLineObeys ==
  ASSUME NEW u \in Airs, NEW x \in Lines, u.bt.mode = "DATA", u.bt.event = "NULL"
  PROVE  Obeys(u, x, DataLine(u, x))
  <1> DEFINE t == DataLine(u, x)
             w == [u EXCEPT !.bt.event = "DATA", !.bt.data = <<x[2], x[3]>>]
  <1>1. u.bt \in Bts /\ "DATA" \in Events BY DEF Airs, Events
  <1>2. /\ x[1] = "DISCONNECT" <=> x = Parting
        /\ x[1] = "DATA" => (x \in Packets /\ <<x[2], x[3]>> \in Asks \X Ids)
    BY DEF Lines, Parting, Packets
  <1>3. CASE x[1] = "DISCONNECT"
    <2>1. t = Lost(u) BY <1>3 DEF DataLine
    <2> QED BY <2>1, <1>2, <1>3, LostObeys
  <1>4. CASE x[1] = "DATA"
    <2>1. t = w BY <1>4 DEF DataLine
    <2>2. Same(u, w) /\ w.bt.state = u.bt.state /\ w.bt.mode = u.bt.mode /\ w.bt.event = "DATA"
      <3> DEFINE d == <<x[2], x[3]>>
      <3>1. d \in Asks \X Ids BY <1>2, <1>4
      <3> HIDE DEF d
      <3>2. LET y == [u EXCEPT !.bt.event = "DATA", !.bt.data = d]
            IN  Same(u, y) /\ y.bt.state = u.bt.state /\ y.bt.mode = u.bt.mode /\ y.bt.event = "DATA"
        BY <1>1, <3>1 DEF Same, Airs, Bts
      <3> QED BY <3>2 DEF d
    <2> HIDE DEF w
    <2>3. Trail(u, w) BY <2>2, SameTrails
    <2>4. x # Parting /\ x \in Packets BY <1>2, <1>4
    <2> HIDE DEF t
    <2> QED BY <2>1, <2>2, <2>3, <2>4 DEF Obeys, t
  <1>5. CASE x[1] \notin {"DISCONNECT", "DATA"}
    <2>1. t = u BY <1>5 DEF DataLine
    <2>2. Trail(u, u) BY Still
    <2> HIDE DEF t
    <2> QED BY <2>1, <2>2, <1>2, <1>5 DEF Obeys, t
  <1> QED BY <1>3, <1>4, <1>5

\* A peer that may send was met; a bid was passed over, which happens only in data mode,
\* or eaten.
Hails(t) == t.bt.event = "CONNECT" /\ t.bt.state = "CONNECTED"
Excused(s, t) == t.hist.eaten \/ Hails(t) \/ (s.bt.mode = "DATA" /\ First(s))

\* BT::task and the packets: after a parting there are none to come but with a bid, one
\* is read only if it was to come, and none comes that was not to come.
Heeds(s, t) ==
    /\ Sound(t)
    /\ t.bt.event = "DISCONNECT" =>
         /\ ~t.hist.eaten /\ t.bt.mode = "CMD" /\ t.bt.state = "IDLE"
         /\ ~Unbidden(t)
         /\ t.mod.link = "tlp" => Bound(t)
    /\ t.bt.event = "DATA" => Unbidden(s)
    /\ t.bt.mode = "DATA" => (s.bt.mode = "DATA" \/ Hails(t))
    /\ t.bt.event # "DISCONNECT" =>
         /\ t.mod.link = s.mod.link \/ t.mod.link = "none"
         /\ (t.mod.link # "none" /\ Bound(s)) => (Bound(t) \/ Excused(s, t))
         /\ Unbidden(t) => (Unbidden(s) \/ Excused(s, t))
    /\ (t.bt.event = "NULL" /\ s.bt.mode = "CMD" /\ t.bt.state = "CONNECTED" /\ ~t.hist.eaten) =>
         (~First(t) \/ Half(t) \/ (s.bt.state = "CONNECTED" /\ ~Half(s)))
    /\ ((s.rx = <<>> /\ s.mod.say = <<>>)
          \/ (s.bt.mode = "CMD" /\ s.rx # <<>> /\ Head(s.rx) = <<"GATT_VAL">>)) =>
         (t.bt.state = s.bt.state /\ ~Half(s))

\* With nothing to read.
LEMMA FreshHeeds ==
  ASSUME NEW s \in Airs, AirInv(s), Sound(s), s.rx = <<>>
  PROVE  Heeds(s, Fresh(s))
  <1> DEFINE t == Fresh(s)
  <1>1. /\ t.rx = s.rx /\ t.mod = s.mod /\ t.hist = s.hist
        /\ t.bt.event = "NULL" /\ t.bt.state = s.bt.state /\ t.bt.mode = s.bt.mode
    BY Freshens DEF Same
  <1> HIDE DEF t
  <1>2. /\ Sound(t) /\ (Unbidden(t) <=> Unbidden(s)) /\ (Bound(t) <=> Bound(s))
        /\ (Half(t) <=> Half(s)) /\ (First(t) <=> First(s))
    BY <1>1 DEF Sound, Unbidden, Bound, Half, First, Parted
  <1>3. s.mod.say = <<>> => ~Half(s)
    BY DEF Half, Met
  <1>4. s.bt.mode \in {"CMD", "DATA"} BY DEF Airs, Bts
  <1>5. Heeds(s, t)
    BY <1>1, <1>2, <1>3, <1>4 DEF Heeds, Excused
  <1> QED BY <1>5 DEF t

\* With a line to read.
LEMMA LineHeeds ==
  ASSUME NEW s \in Airs, AirInv(s), Sound(s), s.rx # <<>>, NEW u, NEW x, x = Head(s.rx),
         Reads(s, u, x), Lessens(s, u, x), NEW t, Obeys(u, x, t), TaskRel(s, t)
  PROVE  Heeds(s, t)
  <1>1. /\ u.mod = s.mod /\ u.hist = s.hist /\ u.bt.mode = s.bt.mode /\ u.bt.state = s.bt.state
        /\ x \in Lines
    BY DEF Reads
  <1>2. x = Bid => First(s) BY DEF Reads, Greetings, Answers, Bid, Parting
  <1>3. s.bt.mode \in {"CMD", "DATA"} BY DEF Airs, Bts
  <1>4. CASE x = Parting
    <2>1. /\ t.rx = u.rx /\ t.mod = u.mod /\ ~t.hist.eaten
          /\ t.bt.state = "IDLE" /\ t.bt.mode = "CMD" /\ t.bt.event = "DISCONNECT"
      BY <1>4 DEF Obeys
    <2>2. Sound(u) /\ ~Unbidden(u) /\ (u.mod.link = "tlp" => Bound(u))
      BY <1>4 DEF Lessens
    <2>3. Sound(t) /\ ~Unbidden(t) /\ (t.mod.link = "tlp" => Bound(t))
      BY <2>1, <2>2 DEF Sound, Unbidden, Bound, Parted
    <2>4. x # <<"GATT_VAL">> BY <1>4 DEF Parting
    <2>5. (s.rx = <<>> /\ s.mod.say = <<>>) => FALSE OBVIOUS
    <2> QED BY <2>1, <2>3, <2>4, <2>5 DEF Heeds
  <1>5. CASE x # Parting
    <2>1. Trail(u, t) /\ t.bt.event # "DISCONNECT" BY <1>5 DEF Obeys
    <2>2. Sound(t) BY <2>1 DEF Trail, Lessens
    <2>3. t.bt.event = "DATA" => Unbidden(s) BY DEF Obeys, Lessens
    <2>4. t.bt.mode = "DATA" => (s.bt.mode = "DATA" \/ Hails(t))
      BY <1>1 DEF Obeys, Hails
    <2>5. x = Bid => Excused(s, t) BY <1>1, <1>2, <1>3 DEF Obeys, Excused, Hails
    <2>6. x # Bid => x \notin Marks BY <1>5 DEF Marks
    <2>7. (t.mod.link # "none" /\ Bound(s)) => (Bound(t) \/ Excused(s, t))
      BY <2>1, <2>5, <2>6 DEF Trail, Lessens, Excused
    <2>8. Unbidden(t) => (Unbidden(s) \/ Excused(s, t))
      BY <2>1, <2>5, <2>6 DEF Trail, Lessens, Excused
    <2>9. t.mod.link = s.mod.link \/ t.mod.link = "none" BY <1>1, <2>1 DEF Trail
    <2>10. ASSUME t.bt.event = "NULL", s.bt.mode = "CMD", t.bt.state = "CONNECTED", ~t.hist.eaten
           PROVE  ~First(t) \/ Half(t) \/ (s.bt.state = "CONNECTED" /\ ~Half(s))
      <3>1. \/ s.bt.state = "CONNECTED" /\ x # <<"BRSP0">>
            \/ x = Call \/ x = Bid \/ s.bt.state = "CHECKING_GM"
        BY <1>1, <2>10 DEF Obeys
      <3>2. x # Bid BY <1>1, <2>10 DEF Obeys
      <3>3. Half(u) => Half(t) BY <2>1, <2>10 DEF Trail
      <3>4. CASE x = Call BY <3>3, <3>4 DEF Lessens
      <3>5. CASE s.bt.state = "CHECKING_GM"
        <4>1. s.hist.eaten => t.hist.eaten BY <1>1, <2>1 DEF Trail
        <4>2. ~First(s) BY <3>5, <4>1, <2>10 DEF AirInv, Checking
        <4> QED BY <4>2, <2>1, <2>10 DEF TaskRel
      <3>6. CASE s.bt.state = "CONNECTED" /\ x # <<"BRSP0">>
        <4>1. x \notin Answers BY <3>2, <3>6 DEF Answers
        <4> QED BY <4>1, <3>3, <3>6 DEF Lessens
      <3> QED BY <3>1, <3>2, <3>4, <3>5, <3>6
    <2>11. ASSUME s.bt.mode = "CMD", x = <<"GATT_VAL">>
           PROVE  t.bt.state = s.bt.state /\ ~Half(s)
      <3>1. t.bt.state = s.bt.state BY <1>1, <2>11 DEF Obeys
      <3>2. x \notin Replies /\ x \notin Answers BY <2>11 DEF Replies, Answers, Bid
      <3> QED BY <3>1, <3>2 DEF Lessens
    <2>12. (s.rx = <<>> /\ s.mod.say = <<>>) => FALSE OBVIOUS
    <2> QED BY <2>1, <2>2, <2>3, <2>4, <2>7, <2>8, <2>9, <2>10, <2>11, <2>12 DEF Heeds
  <1> QED BY <1>4, <1>5

\* BT::task, when no event is held back.
LEMMA TaskHeeds ==
  ASSUME NEW s \in Airs, AirInv(s), Sound(s), s.bt.eventBuf = "NULL"
  PROVE  Heeds(s, task(s))
  <1> DEFINE x == Head(s.rx)
             u == [Fresh(s) EXCEPT !.rx = Tail(@)]
  <1>1. task(s) = IF s.rx = <<>> THEN Fresh(s)
                  ELSE IF s.bt.mode = "CMD" THEN CommandLine(u, x) ELSE DataLine(u, x)
    BY DEF task, Fresh
  <1>2. CASE s.rx = <<>> BY <1>1, <1>2, FreshHeeds
  <1>3. CASE s.rx # <<>>
    <2>1. Reads(s, u, x) BY <1>3, Reading DEF AirInv
    <2>2. u.rx = Tail(s.rx) /\ u.mod = s.mod
      <3>1. Fresh(s) \in Airs /\ Fresh(s).rx = s.rx /\ Fresh(s).mod = s.mod BY Freshens DEF Same
      <3> QED BY <3>1 DEF Airs
    <2>3. x = Head(s.rx) OBVIOUS
    <2>4. TaskRel(s, task(s)) BY TaskReads
    <2> HIDE DEF u, x
    <2>5. Lessens(s, u, x) BY <1>3, <2>2, <2>3, ReadingLessens
    <2>6. s.bt.mode \in {"CMD", "DATA"} BY DEF Airs, Bts
    <2>7. u \in Airs /\ x \in Lines /\ u.bt.event = "NULL" /\ u.bt.mode = s.bt.mode
      BY <2>1 DEF Reads
    <2>8. CASE s.bt.mode = "CMD"
      <3>1. task(s) = CommandLine(u, x) BY <1>1, <1>3, <2>8
      <3>2. Obeys(u, x, CommandLine(u, x)) BY <2>7, <2>8, CommandLineObeys
      <3> QED BY <3>1, <3>2, <1>3, <2>1, <2>3, <2>4, <2>5, LineHeeds
    <2>9. CASE s.bt.mode = "DATA"
      <3>1. task(s) = DataLine(u, x) BY <1>1, <1>3, <2>9
      <3>2. Obeys(u, x, DataLine(u, x)) BY <2>7, <2>9, DataLineObeys
      <3> QED BY <3>1, <3>2, <1>3, <2>1, <2>3, <2>4, <2>5, LineHeeds
    <2> QED BY <2>6, <2>8, <2>9
  <1> QED BY <1>2, <1>3

\* BT::task, when an event is held back.
Hands(s, t) ==
    /\ t.bt.event = s.bt.eventBuf /\ t.bt.eventBuf = "NULL" /\ t.bt.tmp = s.bt.tmp
    /\ t.bt.state = s.bt.state /\ t.bt.mode = s.bt.mode
    /\ t.rx = s.rx /\ t.mod = s.mod /\ t.hist = s.hist

\* It is delivered, and nothing else happens.
LEMMA TaskHands ==
  ASSUME NEW s \in Airs, s.bt.eventBuf # "NULL"
  PROVE  Hands(s, task(s))
  <1> DEFINE v == s.bt.eventBuf
             b == [s.bt EXCEPT !.event = v, !.eventBuf = "NULL"]
             t == task(s)
  <1>1. s.bt \in Bts /\ "NULL" \in Events /\ v \in Events BY DEF Airs, Bts, Events
  <1>2. t = [s EXCEPT !.bt = b]
    BY <1>1 DEF task, Airs, Bts
  <1>3. /\ b \in Bts /\ b.event = v /\ b.eventBuf = "NULL" /\ b.tmp = s.bt.tmp
        /\ b.state = s.bt.state /\ b.mode = s.bt.mode
    <2> HIDE DEF v
    <2> QED BY <1>1 DEF Bts
  <1> HIDE DEF b
  <1>4. t.bt = b /\ t.rx = s.rx /\ t.mod = s.mod /\ t.hist = s.hist
    BY <1>2 DEF Airs
  <1> HIDE DEF t
  <1>5. Hands(s, t) BY <1>3, <1>4 DEF Hands
  <1> QED BY <1>5 DEF t

-----------------------------------------------------------------------------

\* A connection is known to the remote control, or a line about it went astray; a
\* connection that may send is about to be made known.
Known(s, r) == r.connected \/ s.hist.skipped \/ s.hist.eaten
Hailed(s, m) ==
    /\ s.bt.state = "CONNECTED"
    /\ \/ s.bt.eventBuf = "CONNECT" \/ s.bt.tmp = "CONNECT"
       \/ s.bt.event = "CONNECT" /\ Before(m)
Aware(s, m, r) == Known(s, r) \/ Hailed(s, m)

\* After a loss that is still to be handled no packet is to come but with a bid, and the
\* driver does not believe in a new peer, but inside waitEvent, half through its greeting.
LossInv(s, m) ==
    (Pending(s, m) /\ ~s.hist.eaten) =>
        /\ s.mod.link = "tlp" => Bound(s)
        /\ ~Unbidden(s)
        /\ s.bt.state = "CONNECTED" => (~First(s) \/ (m.at = "wait" /\ Half(s)))
\* waitEvent leaves the driver in command mode after a loss.
CalmInv(s) == "DISCONNECT" \in {s.bt.eventBuf, s.bt.tmp} => s.bt.mode = "CMD"
\* A peer that may send has a bid to come, or is known or about to be; data mode is
\* entered for a known peer; packets come from a known peer.
AwareInv(s, m, r) ==
    /\ (s.mod.link = "tlp" /\ ~Bound(s)) => Aware(s, m, r)
    /\ s.bt.mode = "DATA" => (Aware(s, m, r) \/ ~First(s))
    /\ Unbidden(s) => Aware(s, m, r)
\* A packet is delivered after its connection.
PacketInv(s, m, r) ==
    (s.bt.eventBuf = "DATA" \/ s.bt.tmp = "DATA" \/ (s.bt.event = "DATA" /\ Before(m)))
        => Known(s, r)
\* Values are watched, w, for a peer that is known, or was until a loss still to be
\* handled.
HoldInv(s, m, r, w) == w => (Known(s, r) \/ Pending(s, m))

Kept(s, m, r, w) == /\ Sound(s) /\ LossInv(s, m) /\ CalmInv(s) /\ AwareInv(s, m, r)
                    /\ PacketInv(s, m, r) /\ HoldInv(s, m, r, w)

\* A paired unit watches a value; the invariant.
Watching == \E i \in DOMAIN items : items[i] \in Ids
WatchInv == Kept(Air, main, rem, Watching)

\* Nothing of it is about ok, nor about an event that was handled.
LEMMA KeptAlike ==
  ASSUME NEW s, NEW t, NEW m, NEW r, NEW w, Kept(s, m, r, w), Alike(s, t),
         t.bt.event = s.bt.event \/ ~Before(m)
  PROVE  Kept(t, m, r, w)
  <1>1. /\ Sound(t) <=> Sound(s)
        /\ Unbidden(t) <=> Unbidden(s)
        /\ Bound(t) <=> Bound(s)
        /\ Half(t) <=> Half(s)
        /\ First(t) <=> First(s)
    BY DEF Alike, Sound, Unbidden, Bound, Half, First, Parted
  <1>2. /\ Pending(t, m) <=> Pending(s, m)
        /\ Known(t, r) <=> Known(s, r)
        /\ Aware(t, m, r) <=> Aware(s, m, r)
    BY DEF Alike, Pending, Known, Aware, Hailed
  <1>3. LossInv(t, m) BY <1>1, <1>2 DEF Kept, LossInv, Alike
  <1>4. AwareInv(t, m, r) BY <1>1, <1>2 DEF Kept, AwareInv, Alike
  <1>5. CalmInv(t) /\ PacketInv(t, m, r) /\ HoldInv(t, m, r, w)
    BY <1>2 DEF Kept, CalmInv, PacketInv, HoldInv, Alike
  <1> QED BY <1>1, <1>3, <1>4, <1>5 DEF Kept

\* The main loop moves on; a flag is set; a watch ends.
LEMMA KeptMoves ==
  ASSUME NEW s, NEW m, NEW n, NEW r, NEW q, NEW w, NEW v, Kept(s, m, r, w),
         m.at # "wait", r.connected => q.connected, v => w,
         \/ Before(m) <=> Before(n)
         \/ ~Before(n) /\ s.bt.event \notin {"CONNECT", "DISCONNECT", "DATA"}
  PROVE  Kept(s, n, q, v)
  <1>1. /\ Pending(s, n) <=> Pending(s, m)
        /\ Known(s, r) => Known(s, q)
        /\ Aware(s, m, r) => Aware(s, n, q)
    BY DEF Pending, Known, Aware, Hailed
  <1>2. LossInv(s, n) BY <1>1 DEF Kept, LossInv
  <1>3. AwareInv(s, n, q) BY <1>1 DEF Kept, AwareInv
  <1>4. PacketInv(s, n, q) /\ HoldInv(s, n, q, v) BY <1>1 DEF Kept, PacketInv, HoldInv
  <1> QED BY <1>2, <1>3, <1>4 DEF Kept

\* A command, which may enter data mode only for a known peer.
LEMMA KeptCommanded ==
  ASSUME NEW s, NEW t, NEW m, NEW r, NEW w, Kept(s, m, r, w), Commanded(s, t),
         \/ Loose(s, t)
         \/ /\ s.bt.eventBuf # "DISCONNECT" /\ s.bt.tmp # "DISCONNECT"
            /\ s.bt.state = "CONNECTED" => (Aware(s, m, r) \/ ~First(s))
  PROVE  Kept(t, m, r, w)
  <1>1. /\ t.bt.event = s.bt.event /\ t.bt.eventBuf = s.bt.eventBuf /\ t.bt.tmp = s.bt.tmp
        /\ t.hist.skipped = s.hist.skipped /\ (s.hist.eaten => t.hist.eaten)
        /\ First(t) => (First(s) \/ t.hist.eaten)
        /\ Sound(s) => Sound(t)
        /\ t.mod.link = s.mod.link \/ t.mod.link = "none"
        /\ Unbidden(t) => (Unbidden(s) \/ t.hist.eaten)
        /\ t.mod.link # "none" => (Bound(s) => (Bound(t) \/ t.hist.eaten))
        /\ Half(s) => (Half(t) \/ t.hist.eaten)
    BY DEF Commanded, Unheard, Flow, Trail
  <1>2. /\ s.bt.state = "CONNECTED" => t.bt.state = "CONNECTED"
        /\ t.bt.state = "CONNECTED" => s.bt.state = "CONNECTED"
    BY StatesDiffer DEF Commanded
  <1>3. /\ Pending(t, m) <=> Pending(s, m)
        /\ Known(s, r) => Known(t, r)
        /\ Aware(s, m, r) => Aware(t, m, r)
        /\ t.hist.eaten => Aware(t, m, r)
    BY <1>1, <1>2 DEF Pending, Known, Aware, Hailed
  <1>4. LossInv(t, m) BY <1>1, <1>2, <1>3 DEF Kept, LossInv
  <1>5. CalmInv(t) BY <1>1 DEF Kept, CalmInv, Loose
  <1>6. AwareInv(t, m, r)
    <2>1. (t.mod.link = "tlp" /\ ~Bound(t)) => Aware(t, m, r) BY <1>1, <1>3 DEF Kept, AwareInv
    <2>2. t.bt.mode = "DATA" => (Aware(t, m, r) \/ ~First(t))
      <3>1. t.bt.mode = "DATA" => (Aware(s, m, r) \/ ~First(s))
        BY DEF Kept, AwareInv, Commanded, Loose
      <3> QED BY <3>1, <1>1, <1>3
    <2>3. Unbidden(t) => Aware(t, m, r) BY <1>1, <1>3 DEF Kept, AwareInv
    <2> QED BY <2>1, <2>2, <2>3 DEF AwareInv
  <1>7. PacketInv(t, m, r) /\ HoldInv(t, m, r, w)
    BY <1>1, <1>3 DEF Kept, PacketInv, HoldInv
  <1> QED BY <1>1, <1>4, <1>5, <1>6, <1>7 DEF Kept

\* The event of this pass is read.
LEMMA TaskKept ==
  ASSUME NEW s, NEW t, NEW m, NEW n, NEW r, NEW w, Kept(s, m, r, w), Told(s, m, r),
         m.at = "task", n.at = "notify",
         \/ s.bt.eventBuf = "NULL" /\ TaskRel(s, t) /\ Heeds(s, t)
         \/ s.bt.eventBuf # "NULL" /\ Hands(s, t)
  PROVE  Kept(t, n, r, w)
  <1>1. /\ s.bt.tmp = "NULL" /\ ~Before(m) /\ Before(n)
        /\ t.bt.tmp = "NULL" /\ t.bt.eventBuf = "NULL"
    BY DEF Told, BufferInv, Before, TaskRel, Hands
  <1>2. /\ Pending(s, m) <=> s.bt.eventBuf = "DISCONNECT"
        /\ Pending(t, n) <=> t.bt.event = "DISCONNECT"
        /\ Hailed(s, m) <=> (s.bt.state = "CONNECTED" /\ s.bt.eventBuf = "CONNECT")
        /\ Hailed(t, n) <=> Hails(t)
    BY <1>1 DEF Pending, Hailed, Hails
  <1>3. CalmInv(t) BY <1>1 DEF CalmInv
  <1>4. CASE s.bt.eventBuf = "NULL" /\ TaskRel(s, t) /\ Heeds(s, t)
    <2>1. ~Pending(s, m) /\ ~Hailed(s, m) BY <1>2, <1>4
    <2>2. Aware(s, m, r) <=> Known(s, r) BY <2>1 DEF Aware
    <2>3. CASE t.bt.event = "DISCONNECT"
      <3>1. /\ t.bt.mode = "CMD" /\ t.bt.state = "IDLE" /\ ~Unbidden(t)
            /\ t.mod.link = "tlp" => Bound(t)
        BY <1>4, <2>3 DEF Heeds
      <3>2. LossInv(t, n) /\ AwareInv(t, n, r) BY <3>1 DEF LossInv, AwareInv
      <3>3. PacketInv(t, n, r) /\ HoldInv(t, n, r, w)
        BY <1>1, <1>2, <2>3 DEF PacketInv, HoldInv
      <3> QED BY <3>2, <3>3, <1>3, <1>4 DEF Kept, Heeds
    <2>4. CASE t.bt.event # "DISCONNECT"
      <3>1. Known(s, r) => Known(t, r) BY <1>4, <2>4 DEF Known, TaskRel
      <3>2. Excused(s, t) => Aware(t, n, r)
        BY <1>2, <2>2, <3>1 DEF Excused, Aware, Known, Kept, AwareInv
      <3>3. LossInv(t, n) BY <1>2, <2>4 DEF LossInv
      <3>4. AwareInv(t, n, r)
        <4>1. (t.mod.link = "tlp" /\ ~Bound(t)) => Aware(t, n, r)
          BY <1>4, <2>2, <2>4, <3>1, <3>2 DEF Heeds, Kept, AwareInv, Aware
        <4>2. t.bt.mode = "DATA" => (Aware(t, n, r) \/ ~First(t))
          <5>1. First(t) => (First(s) \/ t.hist.eaten) BY <1>4, <2>4 DEF TaskRel
          <5> QED BY <1>2, <1>4, <2>2, <3>1, <5>1 DEF Heeds, Kept, AwareInv, Aware, Known
        <4>3. Unbidden(t) => Aware(t, n, r)
          BY <1>4, <2>2, <2>4, <3>1, <3>2 DEF Heeds, Kept, AwareInv, Aware
        <4> QED BY <4>1, <4>2, <4>3 DEF AwareInv
      <3>5. PacketInv(t, n, r)
        BY <1>1, <1>4, <2>2, <3>1 DEF PacketInv, Heeds, Kept, AwareInv
      <3>6. HoldInv(t, n, r, w) BY <2>1, <3>1 DEF HoldInv, Kept
      <3> QED BY <3>3, <3>4, <3>5, <3>6, <1>3, <1>4 DEF Kept, Heeds
    <2> QED BY <2>3, <2>4
  <1>5. CASE s.bt.eventBuf # "NULL" /\ Hands(s, t)
    <2>1. /\ t.bt.event = s.bt.eventBuf /\ t.bt.state = s.bt.state /\ t.bt.mode = s.bt.mode
          /\ t.rx = s.rx /\ t.mod = s.mod /\ t.hist = s.hist
      BY <1>5 DEF Hands
    <2>2. /\ Sound(t) <=> Sound(s)
          /\ Unbidden(t) <=> Unbidden(s)
          /\ Bound(t) <=> Bound(s)
          /\ Half(t) <=> Half(s)
          /\ First(t) <=> First(s)
      BY <2>1 DEF Sound, Unbidden, Bound, Half, First, Parted
    <2>3. /\ Pending(t, n) <=> Pending(s, m)
          /\ Known(t, r) <=> Known(s, r)
          /\ Aware(t, n, r) <=> Aware(s, m, r)
      BY <1>2, <2>1 DEF Known, Aware, Hails
    <2>4. LossInv(t, n) BY <2>1, <2>2, <2>3 DEF Kept, LossInv
    <2>5. AwareInv(t, n, r) BY <2>1, <2>2, <2>3 DEF Kept, AwareInv
    <2>6. PacketInv(t, n, r) BY <1>1, <2>1, <2>3 DEF Kept, PacketInv
    <2>7. HoldInv(t, n, r, w) BY <2>3 DEF Kept, HoldInv
    <2> QED BY <1>3, <2>2, <2>4, <2>5, <2>6, <2>7 DEF Kept
  <1> QED BY <1>4, <1>5

\* One call of task inside waitEvent: a loss is kept until another event, which is
\* remembered as skipping it.
LEMMA WaitKept ==
  ASSUME NEW s, NEW t, NEW u, NEW m, NEW n, NEW r, NEW w, NEW over, over \in BOOLEAN,
         Kept(s, m, r, w), Told(s, m, r), m.at = "wait", Waits(s, t, u, m, n, over),
         s.bt.mode \in {"CMD", "DATA"}, t.bt.mode \in {"CMD", "DATA"},
         \/ s.bt.eventBuf = "NULL" /\ TaskRel(s, t) /\ Heeds(s, t)
         \/ s.bt.eventBuf # "NULL" /\ Hands(s, t),
         over => ((s.rx = <<>> /\ s.mod.say = <<>>)
                    \/ (s.bt.mode = "CMD" /\ s.rx # <<>> /\ Head(s.rx) = <<"GATT_VAL">>))
  PROVE  Kept(u, n, r, w)
  <1> DEFINE e == t.bt.event
             tmp == IF e = "NULL" THEN s.bt.tmp ELSE e
  <1>1. /\ ~Before(m) /\ (~over => ~Before(n)) /\ (over => e = "NULL")
        /\ t.bt.eventBuf = "NULL" /\ (over => s.bt.eventBuf = "NULL")
    BY DEF Before, Waits, TaskRel, Hands
  <1>2. /\ u.rx = t.rx /\ u.mod = t.mod /\ u.bt.state = t.bt.state /\ u.bt.mode = t.bt.mode
        /\ u.bt.event = e /\ u.hist.eaten = t.hist.eaten
    BY DEF Waits
  <1>3. /\ over => (u.bt.eventBuf = tmp /\ u.bt.tmp = "NULL")
        /\ ~over => (u.bt.eventBuf = "NULL" /\ u.bt.tmp = tmp /\ n.at = "wait")
    BY <1>1 DEF Waits
  <1>4. /\ t.hist.skipped => u.hist.skipped
        /\ (s.bt.tmp = "DISCONNECT" /\ tmp # "DISCONNECT") => u.hist.skipped
        /\ (s.bt.tmp = "CONNECT" /\ tmp \notin {"CONNECT", "DISCONNECT"}) => u.hist.skipped
    BY DEF Waits
  <1>5. /\ Sound(u) <=> Sound(t)
        /\ Unbidden(u) <=> Unbidden(t)
        /\ Bound(u) <=> Bound(t)
        /\ Half(u) <=> Half(t)
        /\ First(u) <=> First(t)
    BY <1>2 DEF Sound, Unbidden, Bound, Half, First, Parted
  <1>6. /\ Pending(u, n) <=> tmp = "DISCONNECT"
        /\ Pending(s, m) <=> (s.bt.eventBuf = "DISCONNECT" \/ s.bt.tmp = "DISCONNECT")
        /\ Hailed(u, n) <=> (t.bt.state = "CONNECTED" /\ tmp = "CONNECT")
        /\ Hailed(s, m) <=> (s.bt.state = "CONNECTED"
                               /\ (s.bt.eventBuf = "CONNECT" \/ s.bt.tmp = "CONNECT"))
    BY <1>1, <1>2, <1>3 DEF Pending, Hailed
  <1>7. CalmInv(u) <=> (tmp = "DISCONNECT" => t.bt.mode = "CMD")
    BY <1>2, <1>3 DEF CalmInv
  <1>8. PacketInv(u, n, r) <=> (tmp = "DATA" => Known(u, r))
    BY <1>1, <1>2, <1>3 DEF PacketInv
  <1>9. CASE s.bt.eventBuf = "NULL" /\ TaskRel(s, t) /\ Heeds(s, t)
    <2>0. Sound(u) BY <1>5, <1>9 DEF Heeds
    <2>1. CASE e = "DISCONNECT"
      <3>1. /\ t.bt.mode = "CMD" /\ t.bt.state = "IDLE" /\ ~Unbidden(t) /\ tmp = "DISCONNECT"
            /\ t.mod.link = "tlp" => Bound(t)
        BY <1>9, <2>1 DEF Heeds
      <3>2. LossInv(u, n) /\ AwareInv(u, n, r) BY <3>1, <1>2, <1>5 DEF LossInv, AwareInv
      <3>3. HoldInv(u, n, r, w) BY <3>1, <1>6 DEF HoldInv
      <3> QED BY <2>0, <3>1, <3>2, <3>3, <1>7, <1>8 DEF Kept
    <2>2. CASE e # "DISCONNECT"
      <3>1. /\ Known(s, r) => Known(u, r)
            /\ u.hist.eaten => Known(u, r)
            /\ u.hist.skipped => Known(u, r)
        <4>1. /\ s.hist.eaten => t.hist.eaten
              /\ t.hist.skipped = s.hist.skipped
          BY <1>9, <2>2 DEF TaskRel
        <4> QED BY <4>1, <1>2, <1>4 DEF Known
      <3>2. Hailed(s, m) => Aware(u, n, r)
        <4> SUFFICES ASSUME Hailed(s, m), ~Known(u, r) PROVE Hailed(u, n) BY DEF Aware
        <4>1. s.bt.state = "CONNECTED" /\ s.bt.tmp = "CONNECT" BY <1>6, <1>9
        <4>2. ~s.hist.eaten /\ ~s.hist.skipped BY <3>1 DEF Known
        <4>3. ~First(s) BY <4>1, <4>2 DEF Told, ConnInv, Announced
        <4>4. t.bt.state = "CONNECTED" BY <4>1, <4>3, <1>9, <2>2 DEF TaskRel, Connected
        <4>5. tmp = "CONNECT" BY <4>1, <3>1, <1>4, <2>2
        <4> QED BY <4>4, <4>5, <1>6
      <3>3. Aware(s, m, r) => Aware(u, n, r) BY <3>1, <3>2 DEF Aware
      <3>4. Hails(t) => Aware(u, n, r) BY <1>6 DEF Hails, Aware
      <3>5. Excused(s, t) => Aware(u, n, r)
        BY <1>2, <3>1, <3>3, <3>4 DEF Excused, Aware, Kept, AwareInv
      <3>6. First(t) => (First(s) \/ t.hist.eaten) BY <1>9, <2>2 DEF TaskRel
      <3>7. AwareInv(u, n, r)
        <4>1. (u.mod.link = "tlp" /\ ~Bound(u)) => Aware(u, n, r)
          BY <1>2, <1>5, <1>9, <2>2, <3>3, <3>5 DEF Heeds, Kept, AwareInv
        <4>2. u.bt.mode = "DATA" => (Aware(u, n, r) \/ ~First(u))
          <5>1. u.bt.mode = "DATA" => (s.bt.mode = "DATA" \/ Hails(t))
            BY <1>2, <1>9 DEF Heeds
          <5>2. s.bt.mode = "DATA" => (Aware(s, m, r) \/ ~First(s)) BY DEF Kept, AwareInv
          <5>3. t.hist.eaten => Aware(u, n, r) BY <1>2, <3>1 DEF Aware
          <5> QED BY <5>1, <5>2, <5>3, <1>5, <3>3, <3>4, <3>6
        <4>3. Unbidden(u) => Aware(u, n, r)
          BY <1>5, <1>9, <2>2, <3>3, <3>5 DEF Heeds, Kept, AwareInv
        <4> QED BY <4>1, <4>2, <4>3 DEF AwareInv
      <3>8. PacketInv(u, n, r)
        <4> SUFFICES ASSUME tmp = "DATA" PROVE Known(u, r) BY <1>8
        <4>1. CASE e = "NULL" /\ s.bt.tmp = "DATA" BY <4>1, <3>1 DEF Kept, PacketInv
        <4>2. CASE e = "DATA"
          <5>1. Aware(s, m, r) BY <4>2, <1>9 DEF Heeds, Kept, AwareInv
          <5>2. Hailed(s, m) => s.bt.tmp = "CONNECT" BY <1>6, <1>9
          <5> QED BY <5>1, <5>2, <1>4, <3>1 DEF Aware
        <4> QED BY <4>1, <4>2
      <3>9. HoldInv(u, n, r, w)
        <4>1. Pending(s, m) => (Pending(u, n) \/ Known(u, r)) BY <1>4, <1>6, <1>9, <3>1
        <4> QED BY <4>1, <3>1 DEF Kept, HoldInv
      <3>10. ASSUME tmp = "DISCONNECT"
             PROVE  /\ e = "NULL" /\ s.bt.tmp = "DISCONNECT" /\ Pending(s, m)
                    /\ s.bt.mode = "CMD" /\ t.bt.mode = "CMD" /\ ~Hails(t)
        <4>1. e = "NULL" /\ s.bt.tmp = "DISCONNECT" /\ Pending(s, m) BY <3>10, <2>2, <1>6
        <4>2. ~Hails(t) BY <4>1 DEF Hails
        <4>3. s.bt.mode = "CMD" BY <4>1 DEF Kept, CalmInv
        <4>4. t.bt.mode = "CMD" BY <4>2, <4>3, <1>9 DEF Heeds
        <4> QED BY <4>1, <4>2, <4>3, <4>4
      <3>11. LossInv(u, n)
        <4> SUFFICES ASSUME tmp = "DISCONNECT", ~u.hist.eaten
                     PROVE  /\ u.mod.link = "tlp" => Bound(u)
                            /\ ~Unbidden(u)
                            /\ u.bt.state = "CONNECTED" =>
                                 (~First(u) \/ (n.at = "wait" /\ Half(u)))
          BY <1>6 DEF LossInv
        <4>1. ~Excused(s, t) /\ ~t.hist.eaten BY <3>10, <1>2 DEF Excused
        <4>2. ~s.hist.eaten BY <4>1, <1>9, <2>2 DEF TaskRel
        <4>3. /\ s.mod.link = "tlp" => Bound(s)
              /\ ~Unbidden(s)
              /\ s.bt.state = "CONNECTED" => (~First(s) \/ Half(s))
          BY <4>2, <3>10 DEF Kept, LossInv
        <4>4. (u.mod.link = "tlp" => Bound(u)) /\ ~Unbidden(u)
          BY <4>1, <4>3, <1>2, <1>5, <1>9, <2>2 DEF Heeds
        <4>5. ASSUME u.bt.state = "CONNECTED"
              PROVE  ~First(u) \/ (n.at = "wait" /\ Half(u))
          <5>1. CASE over
            <6>1. t.bt.state = s.bt.state /\ ~Half(s) BY <5>1, <1>9 DEF Heeds
            <6> QED BY <6>1, <4>1, <4>3, <4>5, <1>2, <1>5, <3>6
          <5>2. CASE ~over
            <6>1. ~First(t) \/ Half(t) \/ (s.bt.state = "CONNECTED" /\ ~Half(s))
              BY <4>1, <4>5, <3>10, <1>2, <1>9 DEF Heeds
            <6> QED BY <6>1, <5>2, <4>1, <4>3, <1>3, <1>5, <3>6
          <5> QED BY <5>1, <5>2
        <4> QED BY <4>4, <4>5
      <3> QED BY <2>0, <3>7, <3>8, <3>9, <3>10, <3>11, <1>7 DEF Kept
    <2> QED BY <2>1, <2>2
  <1>10. CASE s.bt.eventBuf # "NULL" /\ Hands(s, t)
    <2>1. /\ e = s.bt.eventBuf /\ tmp = e /\ t.bt.state = s.bt.state /\ t.bt.mode = s.bt.mode
          /\ t.rx = s.rx /\ t.mod = s.mod /\ t.hist = s.hist /\ ~over
      BY <1>1, <1>10 DEF Hands
    <2>2. /\ Sound(t) <=> Sound(s)
          /\ Unbidden(t) <=> Unbidden(s)
          /\ Bound(t) <=> Bound(s)
          /\ Half(t) <=> Half(s)
          /\ First(t) <=> First(s)
      BY <2>1 DEF Sound, Unbidden, Bound, Half, First, Parted
    <2>3. /\ Known(s, r) => Known(u, r)
          /\ u.hist.skipped => Known(u, r)
          /\ Pending(u, n) => Pending(s, m)
      BY <2>1, <1>2, <1>4, <1>6 DEF Known
    <2>4. LossInv(u, n) BY <2>1, <2>2, <2>3, <1>2, <1>3, <1>5 DEF Kept, LossInv
    <2>5. CalmInv(u) BY <2>1, <1>7 DEF Kept, CalmInv
    <2>6. PacketInv(u, n, r) BY <2>1, <2>3, <1>8 DEF Kept, PacketInv
    <2>7. HoldInv(u, n, r, w)
      <3>1. Pending(s, m) => (Pending(u, n) \/ Known(u, r)) BY <2>1, <2>3, <1>4, <1>6
      <3> QED BY <3>1, <2>3 DEF Kept, HoldInv
    <2>8. AwareInv(u, n, r)
      <3>1. CASE tmp = "DISCONNECT" /\ ~u.hist.eaten
        <4>1. ~s.hist.eaten /\ Pending(s, m) BY <3>1, <2>1, <1>2, <1>6
        <4>2. (s.mod.link = "tlp" => Bound(s)) /\ ~Unbidden(s) BY <4>1 DEF Kept, LossInv
        <4>3. u.bt.mode = "CMD" BY <3>1, <1>2, <1>7, <2>5
        <4> QED BY <4>2, <4>3, <2>1, <2>2, <1>2, <1>5 DEF AwareInv
      <3>2. CASE u.hist.eaten BY <3>2 DEF AwareInv, Aware, Known
      <3>3. CASE tmp # "DISCONNECT"
        <4>1. Hailed(s, m) => Aware(u, n, r)
          BY <3>3, <2>1, <2>3, <1>4, <1>6 DEF Aware
        <4>2. Aware(s, m, r) => Aware(u, n, r) BY <4>1, <2>3 DEF Aware
        <4> QED BY <4>2, <2>1, <2>2, <1>2, <1>5 DEF Kept, AwareInv
      <3> QED BY <3>1, <3>2, <3>3
    <2> QED BY <2>2, <2>4, <2>5, <2>6, <2>7, <2>8, <1>5 DEF Kept
  <1> QED BY <1>9, <1>10

-----------------------------------------------------------------------------

\* A command of the main loop, the step of which ends elsewhere.
LEMMA WatchCommanded ==
  ASSUME WatchInv, NEW s, Commanded(Air, s), Put(s),
         \/ Loose(Air, s)
         \/ /\ Air.bt.eventBuf # "DISCONNECT" /\ Air.bt.tmp # "DISCONNECT"
            /\ Air.bt.state = "CONNECTED" => (Aware(Air, main, rem) \/ ~First(Air))
  PROVE  Kept(Air', main, rem, Watching)
  <1>1. Kept(s, main, rem, Watching) BY KeptCommanded DEF WatchInv
  <1>2. s \in Airs BY DEF Commanded, Unheard
  <1>3. Alike(s, Air') /\ Air'.bt = s.bt BY <1>2, Puts
  <1> QED BY <1>1, <1>3, KeptAlike

\* Where the main loop is tells whether the event is still to be handled.
LEMMA Places ==
  ASSUME NEW m
  PROVE  /\ Outside(m) => (~Before(m) /\ m.at # "wait")
         /\ Before(m) => m.at # "wait"
  BY DEF Outside, Before

\* The screens.
LEMMA ScreenWatch ==
  ASSUME BtInv, WatchInv, ScreenOpens \/ ScreenCloses \/ Dial \/ HangUp
  PROVE  WatchInv'
  <1>1. /\ main.at = "menu" /\ main' = [main EXCEPT !.at = "timer"] /\ items' = items /\ LinkInv
        /\ main \in Mains /\ rem \in Rems
    BY DEF BtInv, RestInv, MainInv, ScreenOpens, ScreenCloses, Dial, HangUp, Goto
  <1>2. rem'.connected = rem.connected
    <2>1. rem' = rem \/ rem' = [rem EXCEPT !.nmx = FALSE]
      BY DEF ScreenOpens, ScreenCloses, Dial, HangUp
    <2> QED BY <1>1, <2>1 DEF Rems
  <1>3. Kept(Air', main, rem, Watching) BY <1>1, ScreenCommands, WatchCommanded
  <1>4. ~Before(main) /\ ~Before(main') BY <1>1 DEF Before, Mains
  <1>5. Watching' = Watching BY <1>1 DEF Watching
  <1>6. Kept(Air', main', rem', Watching) BY <1>1, <1>2, <1>3, <1>4, KeptMoves
  <1> QED BY <1>5, <1>6 DEF WatchInv

\* The screen takes an event.
LEMMA ScreenEventWatch ==
  ASSUME BtInv, WatchInv, ScreenEvent
  PROVE  WatchInv'
  <1> DEFINE s == CASE bt.event = "SCAN_COMPLETE" /\ bt.state \notin Connected -> scan(advertise(Air))
                    [] bt.event = "DISCONNECT" -> scan(Air)
                    [] OTHER -> Air
             t == [s EXCEPT !.bt.event = "NULL"]
  <1>1. /\ main.at = "menu" /\ main' = [main EXCEPT !.at = "timer"] /\ Put(t)
        /\ rem' = rem /\ items' = items /\ main \in Mains
    BY DEF ScreenEvent, Goto, BtInv, RestInv, MainInv
  <1>2. Air \in Airs /\ Commanded(Air, Air) /\ Loose(Air, Air)
    BY AirIsAir DEF BtInv, LinkInv
  <1>3. Commanded(Air, s) /\ Loose(Air, s)
    <2>1. /\ Commanded(Air, advertise(Air)) /\ Loose(Air, advertise(Air))
          /\ advertise(Air) \in Airs
      BY <1>2, Advertises
    <2>2. /\ Commanded(advertise(Air), scan(advertise(Air)))
          /\ Loose(advertise(Air), scan(advertise(Air)))
      BY <2>1, Scans
    <2>3. Commanded(Air, scan(advertise(Air))) /\ Loose(Air, scan(advertise(Air)))
      BY <2>1, <2>2, CommandedOn, LooseOn
    <2>4. Commanded(Air, scan(Air)) /\ Loose(Air, scan(Air)) BY <1>2, Scans
    <2>5. s \in {scan(advertise(Air)), scan(Air), Air} OBVIOUS
    <2> HIDE DEF s
    <2> QED BY <2>3, <2>4, <2>5, <1>2
  <1> HIDE DEF s
  <1>4. s \in Airs /\ Kept(s, main, rem, Watching)
    BY <1>3, KeptCommanded DEF WatchInv, Loose, Unheard
  <1>5. "NULL" \in Events BY DEF Events
  <1>6. Same(s, t) /\ t.bt.state = s.bt.state /\ t.bt.mode = s.bt.mode
    BY <1>4, <1>5, EventSame
  <1> HIDE DEF t
  <1>7. Alike(t, Air') BY <1>1, <1>6, Puts DEF Same
  <1>8. Alike(s, Air') BY <1>6, <1>7 DEF Alike, Same
  <1>9. ~Before(main) /\ ~Before(main') BY <1>1 DEF Before, Mains
  <1>10. Kept(Air', main, rem, Watching) BY <1>4, <1>8, <1>9, KeptAlike
  <1>11. Watching' = Watching BY <1>1 DEF Watching
  <1>12. Kept(Air', main', rem, Watching) BY <1>1, <1>9, <1>10, KeptMoves
  <1> QED BY <1>1, <1>11, <1>12 DEF WatchInv

\* The main loop only moves on: past Remote::event with an event it does not handle.
LEMMA PassWatch ==
  ASSUME BtInv, WatchInv, Pass \/ MotorCommand
  PROVE  WatchInv'
  <1>1. Air' = Air /\ rem' = rem /\ items' = items BY DEF Pass, MotorCommand, Air
  <1>2. main \in Mains BY DEF BtInv, RestInv, MainInv
  <1>3. /\ main.at # "wait" /\ ~Before(main')
        /\ ~Before(main) \/ Air.bt.event \notin {"CONNECT", "DISCONNECT", "DATA"}
    <2>1. CASE Pass
      BY <2>1, <1>2, AirFields DEF Pass, Mains, Before, Goto
    <2>2. CASE MotorCommand
      BY <2>2, <1>2 DEF MotorCommand, Mains, Before
    <2> QED BY <2>1, <2>2
  <1>4. Kept(Air, main', rem, Watching) BY <1>3, KeptMoves DEF WatchInv
  <1>5. Watching' = Watching BY <1>1 DEF Watching
  <1> QED BY <1>1, <1>4, <1>5 DEF WatchInv

\* BT::task, in both of its cases.
LEMMA TaskBoth ==
  ASSUME BtInv, WatchInv
  PROVE  /\ task(Air) \in Airs
         /\ \/ Air.bt.eventBuf = "NULL" /\ TaskRel(Air, task(Air)) /\ Heeds(Air, task(Air))
            \/ Air.bt.eventBuf # "NULL" /\ Hands(Air, task(Air))
  <1> DEFINE s == Air
  <1>1. s \in Airs /\ AirInv(s) /\ Sound(s) BY DEF BtInv, LinkInv, WatchInv, Kept
  <1> HIDE DEF s
  <1>2. CASE s.bt.eventBuf = "NULL"
    <2>1. TaskRel(s, task(s)) /\ Heeds(s, task(s)) BY <1>1, <1>2, TaskReads, TaskHeeds
    <2> QED BY <2>1, <1>2 DEF TaskRel, s
  <1>3. CASE s.bt.eventBuf # "NULL"
    <2>1. Hands(s, task(s)) /\ task(s) \in Airs
      BY <1>1, <1>3, TaskHands, TaskDelivers DEF Delivers
    <2> QED BY <2>1, <1>3 DEF s
  <1> QED BY <1>2, <1>3

\* BT::task is called by the main loop.
LEMMA BtTaskWatch ==
  ASSUME BtInv, WatchInv, BtTask
  PROVE  WatchInv'
  <1> DEFINE s == Air
             t == task(s)
  <1>1. /\ main.at = "task" /\ main' = [main EXCEPT !.at = "notify"] /\ Put(t)
        /\ rem' = rem /\ items' = items /\ main \in Mains
    BY DEF BtTask, Goto, BtInv, RestInv, MainInv
  <1>2. Kept(s, main, rem, Watching) /\ Told(s, main, rem) BY DEF WatchInv, BtInv, LinkInv
  <1>3. /\ t \in Airs
        /\ \/ s.bt.eventBuf = "NULL" /\ TaskRel(s, t) /\ Heeds(s, t)
           \/ s.bt.eventBuf # "NULL" /\ Hands(s, t)
    BY TaskBoth
  <1>4. main'.at = "notify" BY <1>1 DEF Mains
  <1> HIDE DEF t
  <1>5. Alike(t, Air') /\ Air'.bt = t.bt BY <1>1, <1>3, Puts
  <1> HIDE DEF s
  <1>6. Kept(t, main', rem, Watching) BY <1>1, <1>2, <1>3, <1>4, TaskKept
  <1>7. Kept(Air', main', rem, Watching) BY <1>5, <1>6, KeptAlike
  <1>8. Watching' = Watching BY <1>1 DEF Watching
  <1> QED BY <1>1, <1>7, <1>8 DEF WatchInv

\* A query ends where the event is as much to be handled as before.
LEMMA ReturnWatch ==
  ASSUME RestInv, main.at \in {"write", "read"}, Return, QueryFails, items' = items,
         Kept(Air', main, rem, Watching)
  PROVE  WatchInv'
  <1>1. main.at # "wait" /\ (Before(main) <=> Before(main')) BY Returns, Places
  <1>2. rem'.connected = rem.connected BY Fails
  <1>3. Kept(Air', main', rem', Watching) BY <1>1, <1>2, KeptMoves
  <1>4. Watching' = Watching BY DEF Watching
  <1> QED BY <1>3, <1>4 DEF WatchInv

\* A command or a query is written.
LEMMA WriteWatch ==
  ASSUME BtInv, WatchInv, Write
  PROVE  WatchInv'
  <1>1. main.at = "write" /\ items' = items /\ RestInv /\ LinkInv /\ main \in Mains
    BY DEF Write, BtInv, RestInv, MainInv
  <1>2. Air \in Airs /\ Commanded(Air, Air) /\ Loose(Air, Air) BY <1>1, AirIsAir DEF LinkInv
  <1> DEFINE s == Command(Air, "write")
  <1>3. \/ Put(Air) /\ Return /\ QueryFails
        \/ Put(s) /\ Return /\ QueryFails
        \/ Put(s) /\ Goto("read") /\ rem' = rem
    BY DEF Write
  <1>4. Commanded(Air, s) /\ Loose(Air, s) BY <1>2, CommandDirect, DirectCommanded DEF Direct
  <1> HIDE DEF s
  <1>5. Kept(Air', main, rem, Watching) BY <1>2, <1>3, <1>4, WatchCommanded
  <1>6. CASE Return /\ QueryFails BY <1>1, <1>5, <1>6, ReturnWatch
  <1>7. CASE Goto("read") /\ rem' = rem
    <2>1. main' = [main EXCEPT !.at = "read"] BY <1>7 DEF Goto
    <2>2. Before(main) <=> Before(main') BY <2>1, <1>1 DEF Mains, Before
    <2>3. Kept(Air', main', rem, Watching) BY <2>2, <1>1, <1>5, KeptMoves
    <2>4. Watching' = Watching BY <1>1 DEF Watching
    <2> QED BY <2>3, <2>4, <1>7 DEF WatchInv
  <1> QED BY <1>3, <1>6, <1>7

\* The answer of a query is asked for: a loss that is forgotten here was skipped before.
LEMMA ReadWatch ==
  ASSUME BtInv, WatchInv, Read
  PROVE  WatchInv'
  <1>1. main.at = "read" /\ items' = items /\ RestInv /\ LinkInv /\ main \in Mains
    BY DEF Read, BtInv, RestInv, MainInv
  <1>2. Air \in Airs /\ Air.bt.tmp = "NULL" /\ Air.bt.state = "CONNECTED_NMX"
    BY <1>1 DEF LinkInv, Told, BufferInv
  <1> DEFINE s == Command(Air, "read")
             t == [s EXCEPT !.bt.tmp = "NULL"]
  <1>3. Put(t) /\ ((Goto("wait") /\ rem' = rem) \/ (Return /\ QueryFails))
    BY DEF Read
  <1>4. /\ Commanded(Air, s) /\ Loose(Air, s) /\ s \in Airs /\ s.bt.tmp = "NULL"
        /\ s.bt.state = "CONNECTED_NMX"
    BY <1>2, CommandDirect, DirectCommanded DEF Direct, Loose, Unheard
  <1> HIDE DEF s
  <1>5. t = s BY <1>4 DEF Airs, Bts
  <1>6. Kept(Air', main, rem, Watching) BY <1>3, <1>4, <1>5, WatchCommanded
  <1>7. CASE Return /\ QueryFails BY <1>1, <1>6, <1>7, ReturnWatch
  <1>8. CASE Goto("wait") /\ rem' = rem
    <2>1. main'.at = "wait" BY <1>1, <1>8 DEF Goto, Mains
    <2>2. Told(s, main, rem) /\ Alike(s, Air') /\ Air'.bt = s.bt
      BY <1>1, <1>3, <1>4, <1>5, CommandedTold, Puts DEF LinkInv
    <2>3. Told(Air', main, rem) /\ Air'.bt.state = "CONNECTED_NMX"
      BY <2>2, <1>4, AlikeKeeps
    <2> DEFINE a == Air'
               m == main'
    <2>4. /\ Kept(a, main, rem, Watching) /\ Told(a, main, rem) /\ m.at = "wait"
          /\ a.bt.state = "CONNECTED_NMX"
      BY <2>1, <2>3, <1>6
    <2> HIDE DEF a, m
    <2>5. ~Before(m) BY <2>4 DEF Before
    <2>6. Pending(a, main) => a.hist.skipped BY <2>4 DEF Told, PendInv, Motorised
    <2>7. /\ Pending(a, m) => Pending(a, main)
          /\ Aware(a, main, rem) => Known(a, rem)
          /\ Pending(a, main) => Known(a, rem)
      BY <2>4, <2>5, <2>6 DEF Pending, Aware, Hailed, Known
    <2>8. LossInv(a, m) BY <2>4, <2>7 DEF Kept, LossInv
    <2>9. AwareInv(a, m, rem) BY <2>4, <2>7 DEF Kept, AwareInv, Aware
    <2>10. PacketInv(a, m, rem) /\ HoldInv(a, m, rem, Watching)
      BY <2>4, <2>5, <2>7 DEF Kept, PacketInv, HoldInv
    <2>11. Kept(a, m, rem, Watching) BY <2>4, <2>8, <2>9, <2>10 DEF Kept
    <2>12. Watching' = Watching BY <1>1 DEF Watching
    <2> QED BY <2>11, <2>12, <1>8 DEF WatchInv, a, m
  <1> QED BY <1>3, <1>7, <1>8

\* waitEvent.
LEMMA WaitWatch ==
  ASSUME BtInv, WatchInv, Wait
  PROVE  WatchInv'
  <1> DEFINE s == Air
             t == task(s)
  <1>1. main.at = "wait" BY DEF Wait
  <1>2. Kept(s, main, rem, Watching) /\ Told(s, main, rem) /\ s \in Airs
    BY DEF WatchInv, BtInv, LinkInv
  <1>3. /\ items' = items /\ rem'.connected = rem.connected
        /\ \E over \in BOOLEAN :
              /\ Waits(s, t, Air', main, main', over)
              /\ over => ((s.rx = <<>> /\ s.mod.say = <<>>)
                            \/ (s.bt.mode = "CMD" /\ s.rx # <<>> /\ Head(s.rx) = <<"GATT_VAL">>))
    BY WaitWaits
  <1>4. /\ t \in Airs
        /\ \/ s.bt.eventBuf = "NULL" /\ TaskRel(s, t) /\ Heeds(s, t)
           \/ s.bt.eventBuf # "NULL" /\ Hands(s, t)
    BY TaskBoth
  <1>5. PICK over \in BOOLEAN :
              /\ Waits(s, t, Air', main, main', over)
              /\ over => ((s.rx = <<>> /\ s.mod.say = <<>>)
                            \/ (s.bt.mode = "CMD" /\ s.rx # <<>> /\ Head(s.rx) = <<"GATT_VAL">>))
    BY <1>3
  <1> HIDE DEF t, s
  <1>6. s.bt.mode \in {"CMD", "DATA"} /\ t.bt.mode \in {"CMD", "DATA"} BY <1>2, <1>4 DEF Airs, Bts
  <1>7. Kept(Air', main', rem, Watching) BY <1>1, <1>2, <1>4, <1>5, <1>6, WaitKept
  <1>8. Watching' = Watching BY <1>3 DEF Watching
  <1>9. Kept(Air', main', rem', Watching)
    BY <1>3, <1>7 DEF Kept, AwareInv, PacketInv, HoldInv, Aware, Known
  <1> QED BY <1>8, <1>9 DEF WatchInv

\* Notify::task: the paired unit is told only if it is known, or the loss of it is the
\* event of this pass.
LEMMA NotifyWatch ==
  ASSUME BtInv, WatchInv, NotifyTask
  PROVE  WatchInv'
  <1>1. /\ main.at = "notify" /\ items' = items /\ LinkInv /\ main \in Mains /\ rem \in Rems
    BY DEF NotifyTask, BtInv, RestInv, MainInv
  <1>2. Air \in Airs /\ Commanded(Air, Air) /\ Loose(Air, Air) BY <1>1, AirIsAir DEF LinkInv
  <1>3. /\ Before(main) /\ Air.bt.eventBuf = "NULL" /\ Air.bt.tmp = "NULL"
    BY <1>1 DEF LinkInv, Told, BufferInv, Before
  <1>4. Kept(Air, main, rem, Watching) BY DEF WatchInv
  <1>5. PICK tell \in {FALSE, Watching} :
            LET told == IF tell THEN sendDATA(Air) ELSE Air
            IN  Put(IF chk.connected /\ ~rem.connected THEN advertise(told) ELSE told)
    BY DEF NotifyTask, Watching
  <1> DEFINE told == IF tell THEN sendDATA(Air) ELSE Air
  <1>6. Commanded(Air, sendDATA(Air)) /\ sendDATA(Air) \in Airs BY <1>2, SendsData
  <1>7. Put(advertise(told)) \/ Put(told) BY <1>5
  <1>8. told \in Airs /\ Kept(told, main, rem, Watching)
    <2>1. CASE tell
      <3>1. Watching BY <2>1
      <3>2. Air.bt.state = "CONNECTED" => (Aware(Air, main, rem) \/ ~First(Air))
        <4>1. CASE Known(Air, rem) BY <4>1 DEF Aware
        <4>2. CASE Pending(Air, main) /\ ~Air.hist.eaten
          BY <4>2, <1>1, <1>4 DEF Kept, LossInv
        <4> QED BY <3>1, <4>1, <4>2, <1>4 DEF Kept, HoldInv, Known
      <3>3. Kept(sendDATA(Air), main, rem, Watching)
        BY <3>2, <1>3, <1>4, <1>6, KeptCommanded
      <3> QED BY <3>3, <2>1, <1>6
    <2>2. CASE ~tell BY <2>2, <1>2, <1>4
    <2> QED BY <2>1, <2>2
  <1> HIDE DEF told
  <1>9. /\ Commanded(told, advertise(told)) /\ Loose(told, advertise(told))
        /\ advertise(told) \in Airs
    BY <1>8, Advertises
  <1>10. Kept(advertise(told), main, rem, Watching) BY <1>8, <1>9, KeptCommanded
  <1>11. PICK u : u \in Airs /\ Put(u) /\ Kept(u, main, rem, Watching)
    BY <1>7, <1>8, <1>9, <1>10
  <1>12. Alike(u, Air') /\ Air'.bt = u.bt BY <1>11, Puts
  <1>13. Kept(Air', main, rem, Watching) BY <1>11, <1>12, KeptAlike
  <1>14. Before(main') /\ rem'.connected = rem.connected
    <2>1. \/ main' = [at |-> "write", back |-> "remote", ask |-> TRUE]
          \/ main' = [main EXCEPT !.at = "remote"]
      BY DEF NotifyTask, Goto
    <2>2. \/ rem' = rem \/ rem' = [rem EXCEPT !.checked = TRUE, !.motors = TRUE]
          \/ rem' = [rem EXCEPT !.checked = FALSE, !.motors = FALSE]
      BY DEF NotifyTask, MotorsGone
    <2>3. Before(main') BY <2>1, <1>1 DEF Before, Mains
    <2> QED BY <2>2, <2>3, <1>1 DEF Rems
  <1>15. Kept(Air', main', rem', Watching) BY <1>1, <1>3, <1>13, <1>14, KeptMoves
  <1>16. Watching' = Watching BY <1>1 DEF Watching
  <1> QED BY <1>15, <1>16 DEF WatchInv

\* While a peer is known and no loss waits, whatever is watched may be.
LEMMA KeptKnown ==
  ASSUME NEW s, NEW m, NEW r, NEW w, Sound(s), Known(s, r), ~Before(m),
         s.bt.eventBuf = "NULL", s.bt.tmp = "NULL"
  PROVE  Kept(s, m, r, w)
  <1>1. ~Pending(s, m) BY DEF Pending
  <1> QED BY <1>1 DEF Kept, LossInv, CalmInv, AwareInv, Aware, PacketInv, HoldInv

\* Remote::event is told of the loss: the watches end.
LEMMA DisconnectedWatch ==
  ASSUME BtInv, WatchInv, Disconnected
  PROVE  WatchInv'
  <1> DEFINE s == Air
             t == Air'
             n == main'
  <1>1. /\ main.at = "remote" /\ main' = [main EXCEPT !.at = "menu"] /\ bt.event = "DISCONNECT"
        /\ hist' = [hist EXCEPT !.skipped = FALSE] /\ items' = WatchesOver
        /\ rx' = rx /\ mod' = mod /\ bt' = bt
        /\ main \in Mains /\ LinkInv /\ ItemInv(items)
    BY DEF Disconnected, BtInv, TableInv, RestInv, MainInv, Goto
  <1>2. ~Watching'
    <2>1. "free" \notin Ids BY ItemsAssumption
    <2>2. \A i \in DOMAIN items' : items'[i] \notin Ids
      BY <2>1, <1>1 DEF WatchesOver
    <2> QED BY <2>2 DEF Watching
  <1>3. hist \in Hists /\ s \in Airs /\ AirInv(s) /\ Told(s, main, rem) /\ Kept(s, main, rem, Watching)
    BY <1>1, AirTypes DEF LinkInv, WatchInv
  <1>4. /\ t.rx = s.rx /\ t.mod = s.mod /\ t.bt = s.bt /\ t.hist.eaten = s.hist.eaten
        /\ s.bt.event = "DISCONNECT" /\ n.at = "menu"
    <2>1. hist'.eaten = hist.eaten /\ main'.at = "menu" BY <1>1, <1>3 DEF Hists, Mains
    <2> QED BY <2>1, <1>1, AirFields
  <1> HIDE DEF s, t, n
  <1>5. s.bt.eventBuf = "NULL" /\ s.bt.tmp = "NULL" /\ Before(main) /\ ~Before(n)
    BY <1>1, <1>3, <1>4 DEF Told, BufferInv, Before
  <1>6. /\ Sound(t) <=> Sound(s)
        /\ Unbidden(t) <=> Unbidden(s)
        /\ Bound(t) <=> Bound(s)
        /\ First(t) <=> First(s)
    BY <1>4 DEF Sound, Unbidden, Bound, First, Parted
  <1>7. Pending(s, main) /\ ~Pending(t, n) BY <1>4, <1>5 DEF Pending
  <1>8. AwareInv(t, n, rem')
    <2>1. CASE s.hist.eaten BY <2>1, <1>4 DEF AwareInv, Aware, Known
    <2>2. CASE ~s.hist.eaten
      <3>1. /\ s.mod.link = "tlp" => Bound(s)
            /\ ~Unbidden(s)
            /\ s.bt.state = "CONNECTED" => ~First(s)
        BY <2>2, <1>1, <1>3, <1>7 DEF Kept, LossInv
      <3>2. s.bt.mode = "DATA" => s.bt.state = "CONNECTED" BY <1>3 DEF AirInv
      <3> QED BY <3>1, <3>2, <1>4, <1>6 DEF AwareInv
    <2> QED BY <2>1, <2>2
  <1>9. LossInv(t, n) BY <1>7 DEF LossInv
  <1>10. CalmInv(t) /\ PacketInv(t, n, rem') BY <1>4, <1>5 DEF CalmInv, PacketInv
  <1>11. HoldInv(t, n, rem', Watching') BY <1>2 DEF HoldInv
  <1>12. Kept(t, n, rem', Watching') BY <1>3, <1>6, <1>8, <1>9, <1>10, <1>11 DEF Kept
  <1> QED BY <1>12 DEF WatchInv, t, n

\* Remote::event is told of a connection.
LEMMA ConnectedWatch ==
  ASSUME BtInv, WatchInv, NowConnected
  PROVE  WatchInv'
  <1>1. /\ main.at = "remote" /\ main' = [main EXCEPT !.at = "menu"] /\ bt.event = "CONNECT"
        /\ items' = items /\ LinkInv /\ rem \in Rems /\ main \in Mains
    BY DEF NowConnected, BtInv, Goto, RestInv, MainInv
  <1>2. Air \in Airs /\ Commanded(Air, Air) /\ Loose(Air, Air) BY <1>1, AirIsAir DEF LinkInv
  <1>3. /\ Before(main) /\ ~Before(main')
        /\ Air.bt.event = "CONNECT" /\ Air.bt.eventBuf = "NULL" /\ Air.bt.tmp = "NULL"
    BY <1>1, AirFields DEF LinkInv, Told, BufferInv, Before, Mains
  <1>4. Watching' = Watching BY <1>1 DEF Watching
  <1>5. CASE bt.state = "CONNECTED"
    <2>1. Put(sendDATA(Air)) /\ rem' = [rem EXCEPT !.connected = TRUE] BY <1>5 DEF NowConnected
    <2>2. Commanded(Air, sendDATA(Air)) BY <1>2, SendsData
    <2>3. Aware(Air, main, rem) BY <1>3, <1>5, AirFields DEF Aware, Hailed
    <2>4. Kept(Air', main, rem, Watching) BY <2>1, <2>2, <2>3, <1>3, WatchCommanded
    <2>5. Air'.bt.eventBuf = "NULL" /\ Air'.bt.tmp = "NULL"
      BY <2>1, <2>2, <1>3, Puts DEF Commanded, Unheard
    <2>6. rem'.connected BY <2>1, <1>1 DEF Rems
    <2>7. Sound(Air') /\ Known(Air', rem') BY <2>4, <2>6 DEF Kept, Known
    <2>8. Kept(Air', main', rem', Watching) BY <2>5, <2>7, <1>3, KeptKnown
    <2> QED BY <2>8, <1>4 DEF WatchInv
  <1>6. CASE bt.state # "CONNECTED"
    <2> DEFINE f == rem.nmx \/ bt.state \in {"CONNECTED_NMX", "CONNECTED_GM"}
               s == Air'
               n == main'
               q == rem'
    <2>1. Put(Air) /\ rem' = [rem EXCEPT !.nmx = f] BY <1>6 DEF NowConnected
    <2>2. q.connected = rem.connected
      <3> HIDE DEF f
      <3> QED BY <2>1, <1>1 DEF Rems
    <2>3. Kept(s, main, rem, Watching) BY <2>1, <1>2, WatchCommanded
    <2>4. s.bt.event = "CONNECT" /\ s.bt.state # "CONNECTED" /\ ~Before(n)
      BY <2>1, <1>2, <1>3, <1>6, Puts, AirFields
    <2> HIDE DEF s, n, q, f
    <2>5. /\ Pending(s, n) <=> Pending(s, main)
          /\ Known(s, rem) <=> Known(s, q)
          /\ Aware(s, main, rem) => Aware(s, n, q)
      BY <2>2, <2>4 DEF Pending, Known, Aware, Hailed
    <2>6. LossInv(s, n) BY <2>3, <2>5, <1>1 DEF Kept, LossInv
    <2>7. AwareInv(s, n, q) BY <2>3, <2>5 DEF Kept, AwareInv
    <2>8. PacketInv(s, n, q) /\ HoldInv(s, n, q, Watching)
      BY <2>3, <2>4, <2>5 DEF Kept, PacketInv, HoldInv
    <2>9. Kept(s, n, q, Watching) BY <2>3, <2>6, <2>7, <2>8 DEF Kept
    <2> QED BY <2>9, <1>4 DEF WatchInv, s, n, q
  <1> QED BY <1>5, <1>6

\* A packet of the paired unit, which is known: what it watches may be watched.
LEMMA DataWatch ==
  ASSUME BtInv, WatchInv, DataReceived
  PROVE  WatchInv'
  <1> DEFINE asks == bt.data[1]
             id == bt.data[2]
             s == IF asks = "request" THEN sendDATA(Air) ELSE Air
             full == asks = "watch" /\ Free(Table(id)) = {}
             u == [s EXCEPT !.bt.event = "NULL"]
             f == s.hist.refused \/ full
             t == [u EXCEPT !.hist.refused = f]
  <1>1. /\ main.at = "remote" /\ main' = [main EXCEPT !.at = "menu"] /\ bt.event = "DATA"
        /\ rem' = rem /\ LinkInv /\ main \in Mains
    BY DEF DataReceived, BtInv, Goto, RestInv, MainInv
  <1>2. Air \in Airs /\ Commanded(Air, Air) BY <1>1, AirIsAir DEF LinkInv
  <1>3. /\ Before(main) /\ ~Before(main')
        /\ Air.bt.event = "DATA" /\ Air.bt.eventBuf = "NULL" /\ Air.bt.tmp = "NULL"
    BY <1>1, AirFields DEF LinkInv, Told, BufferInv, Before, Mains
  <1>4. Known(Air, rem) /\ Sound(Air) BY <1>3 DEF WatchInv, Kept, PacketInv
  <1>5. Commanded(Air, s) /\ full \in BOOLEAN BY <1>2, SendsData
  <1>6. Put([s EXCEPT !.bt.event = "NULL", !.hist.refused = @ \/ full]) BY DEF DataReceived
  <1> HIDE DEF s, full
  <1>7. /\ s \in Airs /\ s.bt.eventBuf = "NULL" /\ s.bt.tmp = "NULL"
        /\ Sound(s) /\ Known(s, rem)
    BY <1>3, <1>4, <1>5 DEF Commanded, Unheard, Trail, Known
  <1>8. s.hist \in Hists /\ f \in BOOLEAN /\ "NULL" \in Events
    BY <1>5, <1>7 DEF Airs, Hists, Events
  <1>9. Put(t)
    <2>1. [s EXCEPT !.bt.event = "NULL", !.hist.refused = @ \/ full] = t BY <1>7 DEF Airs
    <2> QED BY <2>1, <1>6
  <1> HIDE DEF f
  <1>10. Same(s, u) /\ u.bt.state = s.bt.state /\ u.bt.mode = s.bt.mode /\ u.bt.event = "NULL"
    BY <1>7, <1>8, EventSame
  <1> HIDE DEF u
  <1>11. /\ t \in Airs /\ t.rx = u.rx /\ t.mod = u.mod /\ t.bt = u.bt
         /\ t.hist.eaten = u.hist.eaten /\ t.hist.dropped = u.hist.dropped
         /\ t.hist.skipped = u.hist.skipped
    BY <1>8, <1>10 DEF Same, Airs, Hists
  <1> HIDE DEF t
  <1>12. Alike(t, Air') BY <1>9, <1>11, Puts
  <1>13. Alike(s, Air') BY <1>10, <1>11, <1>12 DEF Alike, Same
  <1>14. /\ Air'.bt.eventBuf = "NULL" /\ Air'.bt.tmp = "NULL"
         /\ Sound(Air') /\ Known(Air', rem')
    BY <1>1, <1>7, <1>13 DEF Alike, Sound, Bound, Parted, Known
  <1>15. Kept(Air', main', rem', Watching') BY <1>3, <1>14, KeptKnown
  <1> QED BY <1>15 DEF WatchInv

-----------------------------------------------------------------------------

\* A line passes from one queue to the other, or a peer goes or is found.
LEMMA RadioWatch ==
  ASSUME BtInv, WatchInv, Emit \/ PeerDisconnects \/ ScanFinds \/ ScanEnds
  PROVE  WatchInv'
  <1>1. Heard(Air, Air') /\ UNCHANGED <<rem, items, chk, main>> BY EmitHeard, PeerHeard
  <1>2. Loose(Air, Air') /\ Commanded(Air, Air')
    BY <1>1, HeardDirect, DirectCommanded DEF Direct
  <1>3. Kept(Air', main, rem, Watching) BY <1>2, KeptCommanded DEF WatchInv
  <1>4. Watching' = Watching BY <1>1 DEF Watching
  <1> QED BY <1>1, <1>3, <1>4 DEF WatchInv

\* The radio changed the lines that wait and left the firmware alone.
LEMMA KeptRadio ==
  ASSUME NEW s, NEW t, NEW m, NEW r, NEW w, Kept(s, m, r, w), t.bt = s.bt, t.hist = s.hist,
         Sound(t),
         Unbidden(t) => (Unbidden(s) \/ (s.mod.link = "tlp" /\ ~Bound(s))),
         t.mod.link = "tlp" => (Bound(t) \/ (s.mod.link = "tlp" /\ ~Bound(s))),
         (s.bt.state = "CONNECTED" /\ ~s.hist.eaten /\ First(t)) => First(s),
         Half(s) => Half(t),
         s.bt.mode = "DATA" => s.bt.state = "CONNECTED"
  PROVE  Kept(t, m, r, w)
  <1>1. /\ Pending(t, m) <=> Pending(s, m)
        /\ Known(t, r) <=> Known(s, r)
        /\ Aware(t, m, r) <=> Aware(s, m, r)
        /\ s.hist.eaten => Aware(t, m, r)
    BY DEF Pending, Known, Aware, Hailed
  <1>2. LossInv(t, m) BY <1>1 DEF Kept, LossInv
  <1>3. AwareInv(t, m, r) BY <1>1 DEF Kept, AwareInv
  <1>4. CalmInv(t) /\ PacketInv(t, m, r) /\ HoldInv(t, m, r, w)
    BY <1>1 DEF Kept, CalmInv, PacketInv, HoldInv
  <1> QED BY <1>2, <1>3, <1>4 DEF Kept

\* Nothing waits in an empty queue.
LEMMA Empty ==
  /\ ~Parts(<<>>) /\ ~Leading(<<>>) /\ ~Lasting(<<>>, {Bid}) /\ ~Marked(<<>>) /\ ~Stray(<<>>)
  /\ Bidden(<<>>) /\ Mute(<<>>) /\ ~Met(<<>>) /\ ~Hanging(<<>>) /\ Tied(<<>>)
  BY DEF Parts, Leading, Lasting, Marked, Stray, Bidden, Mute, Met, Hanging, Tied

\* A peer sends a packet: its bid was read, or is still to be read before it.
LEMMA PacketWatch ==
  ASSUME BtInv, WatchInv, PeerSends
  PROVE  WatchInv'
  <1> DEFINE s == Air
             t == Air'
             q == s.rx
             a == s.mod.say
             b == t.mod.say
  <1>1. /\ t \in Airs /\ t.bt = s.bt /\ t.hist = s.hist /\ t.rx = q
        /\ s.mod.link = "tlp" /\ t.mod.link = "tlp" /\ a = <<>>
        /\ UNCHANGED <<rem, items, chk, main>>
        /\ \E x \in Packets : b = Append(a, x)
    BY PeerPackets, AirFields
  <1>2. PICK x \in Packets : b = Append(a, x) BY <1>1
  <1>3. s \in Airs /\ AirInv(s) /\ Kept(s, main, rem, Watching) BY DEF BtInv, LinkInv, WatchInv
  <1>4. s.rx = q /\ s.mod.say = a /\ t.mod.say = b OBVIOUS
  <1> HIDE DEF s, t, q, a, b
  <1>5. /\ x \in Lines /\ x # Parting /\ x \notin Greetings /\ x \notin {Bid} /\ x \notin Marks
        /\ x \notin Answers /\ x \notin Replies /\ x # Call
    BY Kinds, PartingIsNone
  <1>6. a \in Seq(Lines) BY <1>1
  <1>7. ~Parts(b) /\ ~Lasting(b, {Bid}) /\ ~Leading(b)
    <2>1. (Parts(b) <=> Parts(a)) /\ (Leading(b) <=> Leading(a))
          /\ (Lasting(b, {Bid}) <=> Lasting(a, {Bid}))
      BY <1>2, <1>5, <1>6, Appended, Zenon
    <2> QED BY <2>1, <1>1, Empty
  <1>8. ~Marked(b) /\ Stray(b) /\ Bidden(b) /\ ~Mute(b) /\ ~Met(b) /\ ~Hanging(b) /\ Tied(b)
    <2>1. /\ Marked(b) <=> Marked(a)
          /\ ~Marked(a) => Stray(b)
          /\ (Bidden(a) /\ ~Parts(a)) => Bidden(b)
          /\ ~Mute(b)
          /\ Met(b) <=> Met(a)
          /\ ~Hanging(b)
          /\ (Tied(a) /\ ~Hanging(a)) => Tied(b)
      BY <1>2, <1>5, <1>6, AppendedTo, Zenon
    <2> QED BY <2>1, <1>1, Empty
  <1>9. /\ ~Parts(a) /\ ~Lasting(a, {Bid}) /\ ~Leading(a) /\ ~Stray(a) /\ ~Met(a)
    BY <1>1, Empty
  <1>10. /\ Bound(t) <=> Bound(s)
         /\ Parted(t) <=> Parted(s)
         /\ First(t) <=> First(s)
         /\ Half(t) <=> Half(s)
         /\ Parted(s) <=> Parts(q)
         /\ Bound(s) <=> Lasting(q, {Bid})
    BY <1>1, <1>4, <1>7, <1>8, <1>9 DEF Bound, Parted, First, Half
  <1>11. Unbidden(t) => (Unbidden(s) \/ ~Bound(s))
    BY <1>1, <1>4, <1>10, BidMarks DEF Unbidden
  <1>12. Sound(t)
    <2>1. /\ Bidden(q) /\ Tied(q) /\ (Hanging(q) => Met(a)) /\ (Parted(s) => Bound(s))
      BY <1>1, <1>3, <1>4 DEF Kept, Sound
    <2> QED BY <2>1, <1>1, <1>4, <1>8, <1>9, <1>10 DEF Sound
  <1>13. s.bt.mode = "DATA" => s.bt.state = "CONNECTED" BY <1>3 DEF AirInv
  <1>14. Kept(t, main, rem, Watching)
    BY <1>1, <1>3, <1>10, <1>11, <1>12, <1>13, KeptRadio
  <1>15. Watching' = Watching BY <1>1 DEF Watching
  <1> QED BY <1>1, <1>14, <1>15 DEF WatchInv, t

\* A peer comes: one that may send bids, after the parting of the peer before.
LEMMA PeerWatch ==
  ASSUME BtInv, WatchInv, PeerConnects
  PROVE  WatchInv'
  <1> DEFINE s == Air
             t == Air'
             q == s.rx
             a == s.mod.say
             b == Append(a, Call)
             c == t.mod.say
  <1>1. PICK p \in Peers, y \in Answers :
          /\ s.mod.link = "none" /\ t.mod.link = p /\ c = Append(b, y) /\ (p = "tlp" => y = Bid)
          /\ t \in Airs /\ t.rx = q /\ t.bt = s.bt /\ t.hist = s.hist
          /\ UNCHANGED <<rem, items, chk, main>>
    BY PeerGreets
  <1>2. s \in Airs /\ AirInv(s) /\ Kept(s, main, rem, Watching) BY DEF BtInv, LinkInv, WatchInv
  <1>3. /\ s.rx = q /\ s.mod.say = a /\ t.mod.say = c /\ b = Append(a, Call)
        /\ a \in Seq(Lines)
    BY <1>2 DEF Airs, Mods
  <1> HIDE DEF s, t, q, a, b, c
  <1>4. /\ Call \in Lines /\ Call \in Greetings /\ Call # Parting /\ Call \notin {Bid}
        /\ Call \notin Marks /\ Call \notin Packets /\ Call \notin Replies /\ Call \notin Answers
        /\ y \in Lines /\ y \in Greetings /\ y # Parting /\ y \notin Packets /\ y \notin Replies
        /\ y # Call /\ y \in Answers
    BY Kinds, PlainLines, PartingIsNone
  <1>5. b \in Seq(Lines) BY <1>3, <1>4
  <1>6. /\ Parts(b) <=> Parts(a)
        /\ Leading(b) <=> (Leading(a) \/ ~Parts(a))
    BY <1>3, <1>4, Appended, Zenon
  <1>7. /\ Parts(c) <=> Parts(b)
        /\ Leading(c) <=> (Leading(b) \/ ~Parts(b))
        /\ Lasting(c, {Bid}) <=> (y \in {Bid} \/ Lasting(b, {Bid}))
    BY <1>1, <1>4, <1>5, Appended, Zenon
  <1>8. /\ Stray(b) <=> Stray(a)
        /\ Bidden(a) => Bidden(b)
        /\ Met(a) => Met(b)
        /\ (Tied(a) /\ ~Hanging(a)) => Tied(b)
    BY <1>3, <1>4, AppendedTo, Zenon
  <1>9. /\ Stray(c) <=> Stray(b)
        /\ Bidden(b) => Bidden(c)
        /\ Met(b) => Met(c)
        /\ ~Hanging(c)
        /\ Tied(b) => Tied(c)
    BY <1>1, <1>4, <1>5, AppendedTo, Zenon
  <1>10. t.mod.link = "tlp" => Bound(t) BY <1>1, <1>3, <1>7, Kinds DEF Bound
  <1>11. Unbidden(t) <=> Unbidden(s) BY <1>1, <1>3, <1>8, <1>9 DEF Unbidden
  <1>12. Half(s) => Half(t) BY <1>1, <1>3, <1>8, <1>9 DEF Half
  <1>13. First(t) => (First(s) \/ ~Parted(s)) BY <1>1, <1>3, <1>6, <1>7 DEF First, Parted
  <1>14. (s.bt.state = "CONNECTED" /\ ~s.hist.eaten /\ First(t)) => First(s)
    BY <1>1, <1>2, <1>13 DEF AirInv, Linked, Connected
  <1>15. Sound(t)
    <2>1. /\ Bidden(q) /\ Bidden(a) /\ ((Parts(q) /\ ~Lasting(q, {Bid})) => ~Stray(a))
          /\ Tied(q) /\ Tied(a) /\ ~Hanging(a) /\ (Hanging(q) => Met(a))
      BY <1>2, <1>3 DEF Kept, Sound
    <2> QED BY <2>1, <1>1, <1>3, <1>8, <1>9, <1>10 DEF Sound
  <1>16. s.bt.mode = "DATA" => s.bt.state = "CONNECTED" BY <1>2 DEF AirInv
  <1>17. Kept(t, main, rem, Watching)
    BY <1>1, <1>2, <1>10, <1>11, <1>12, <1>14, <1>15, <1>16, KeptRadio
  <1>18. Watching' = Watching BY <1>1 DEF Watching
  <1> QED BY <1>1, <1>17, <1>18 DEF WatchInv, t

-----------------------------------------------------------------------------

\* The invariant of the watches holds at the start.
LEMMA WatchInit == Init => WatchInv
  <1> SUFFICES ASSUME Init PROVE WatchInv OBVIOUS
  <1>1. /\ Air.rx = <<>> /\ Air.mod.say = <<>> /\ Air.mod.link = "none"
        /\ Air.bt.mode = "CMD" /\ Air.bt.eventBuf = "NULL" /\ Air.bt.tmp = "NULL"
    BY AirFields DEF Init
  <1>2. ~Before(main) BY DEF Init, Before
  <1>3. ~Watching
    <2>1. "free" \notin Ids /\ "own" \notin Ids BY ItemsAssumption
    <2>2. \A i \in DOMAIN items : items[i] \in {"own", "free"} BY DEF Init
    <2> QED BY <2>1, <2>2 DEF Watching
  <1>4. Sound(Air) /\ ~Unbidden(Air) BY <1>1, Empty DEF Sound, Parted, Unbidden
  <1>5. ~Pending(Air, main) BY <1>1, <1>2 DEF Pending
  <1> QED BY <1>1, <1>2, <1>3, <1>4, <1>5
          DEF WatchInv, Kept, LossInv, CalmInv, AwareInv, PacketInv, HoldInv

\* The invariant of the watches holds for every set of peers, every table and every
\* number of lines that may wait.
THEOREM WatchInvariant == Spec => []WatchInv
  <1>1. Init => WatchInv BY WatchInit
  <1>2. BtInv /\ WatchInv /\ [Next]_vars => WatchInv'
    <2> SUFFICES ASSUME BtInv, WatchInv, [Next]_vars PROVE WatchInv' OBVIOUS
    <2>1. CASE ScreenOpens \/ ScreenCloses \/ Dial \/ HangUp BY <2>1, ScreenWatch
    <2>2. CASE ScreenEvent BY <2>2, ScreenEventWatch
    <2>3. CASE Pass \/ MotorCommand BY <2>3, PassWatch
    <2>4. CASE BtTask BY <2>4, BtTaskWatch
    <2>5. CASE Write BY <2>5, WriteWatch
    <2>6. CASE Read BY <2>6, ReadWatch
    <2>7. CASE Wait BY <2>7, WaitWatch
    <2>8. CASE NotifyTask BY <2>8, NotifyWatch
    <2>9. CASE Disconnected BY <2>9, DisconnectedWatch
    <2>10. CASE NowConnected BY <2>10, ConnectedWatch
    <2>11. CASE DataReceived BY <2>11, DataWatch
    <2>12. CASE Emit \/ PeerDisconnects \/ ScanFinds \/ ScanEnds BY <2>12, RadioWatch
    <2>13. CASE PeerSends BY <2>13, PacketWatch
    <2>14. CASE PeerConnects BY <2>14, PeerWatch
    <2>15. CASE UNCHANGED vars BY <2>15 DEF WatchInv, Air, Watching, vars
    <2> QED BY <2>1, <2>2, <2>3, <2>4, <2>5, <2>6, <2>7, <2>8, <2>9, <2>10, <2>11, <2>12,
               <2>13, <2>14, <2>15 DEF Next, Main, Radio
  <1> QED BY <1>1, <1>2, BluetoothInvariant, PTL DEF Spec

\* Values are watched for a paired unit (notify.cpp) only while remote.connected says that
\* it is there, unless its loss is still to be delivered, or a line about a connection
\* was discarded or an event skipped.
THEOREM WatchesFollowTheConnection == Spec => []WatchesFollow
  <1>1. WatchInv => WatchesFollow
    <2> SUFFICES ASSUME WatchInv PROVE WatchesFollow OBVIOUS
    <2>1. Pending(Air, main) => Undelivered
      BY AirFields DEF Pending, Undelivered, Before
    <2>2. HoldInv(Air, main, rem, Watching) BY DEF WatchInv, Kept
    <2> QED BY <2>1, <2>2, AirFields DEF WatchesFollow, HoldInv, Known, Watching
  <1> QED BY <1>1, WatchInvariant, PTL

=============================================================================
