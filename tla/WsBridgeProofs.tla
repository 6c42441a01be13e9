-------------------------- MODULE WsBridgeProofs --------------------------
(***************************************************************************)
(* For any number of subscribers and events, and any capacity: the types,   *)
(* that nobody is lost from the table but by the overwrite at the end of a  *)
(* dispatch, that a stream keeps the daemon's order, and that terminal      *)
(* events give way to terminal events only, and whose topics a connection   *)
(* asks for.  `Connection` is the daemon's end: the types, that the lease   *)
(* outlives the tasks, and that nobody but a client that is gone, or parts  *)
(* by a frame of its own, loses it.                                         *)
(***************************************************************************)
EXTENDS WsBridge, FiniteSetTheorems, TLAPS

-----------------------------------------------------------------------------
(* Queues.                                                                  *)

\* What Tail and Head do to the elements.
LEMMA TailOf ==
  ASSUME NEW S, NEW q \in Seq(S), q # <<>>
  PROVE  /\ Tail(q) \in Seq(S) /\ Len(Tail(q)) = Len(q) - 1
         /\ Head(q) \in Elements(q) /\ Head(q) \in S
         /\ Elements(q) = {Head(q)} \cup Elements(Tail(q))
         /\ Rises(q) => Rises(Tail(q)) /\ \A x \in Elements(Tail(q)) : Head(q).id < x.id
  <1>1. /\ Tail(q) \in Seq(S) /\ Len(Tail(q)) = Len(q) - 1 /\ Len(q) \in Nat /\ Len(q) > 0
        /\ Head(q) = q[1] /\ \A i \in 1..(Len(q) - 1) : Tail(q)[i] = q[i + 1]
    OBVIOUS
  <1>2. DOMAIN q = 1..Len(q) /\ DOMAIN Tail(q) = 1..(Len(q) - 1)
    BY <1>1
  <1>3. Head(q) \in Elements(q) /\ Head(q) \in S
    BY <1>1, <1>2 DEF Elements
  <1>4. Elements(q) = {Head(q)} \cup Elements(Tail(q))
    <2>1. ASSUME NEW i \in DOMAIN q PROVE q[i] \in {Head(q)} \cup Elements(Tail(q))
      <3>1. CASE i = 1 BY <3>1, <1>1
      <3>2. CASE i # 1
        <4>1. i - 1 \in DOMAIN Tail(q) /\ Tail(q)[i - 1] = q[i] BY <3>2, <1>1, <1>2
        <4>2. QED BY <4>1 DEF Elements
      <3>3. QED BY <3>1, <3>2
    <2>2. ASSUME NEW i \in DOMAIN Tail(q) PROVE Tail(q)[i] \in Elements(q)
      <3>1. i + 1 \in DOMAIN q /\ Tail(q)[i] = q[i + 1] BY <1>1, <1>2
      <3>2. QED BY <3>1 DEF Elements
    <2>3. QED BY <2>1, <2>2, <1>3 DEF Elements
  <1>5. ASSUME Rises(q)
        PROVE  Rises(Tail(q)) /\ \A x \in Elements(Tail(q)) : Head(q).id < x.id
    BY <1>1, <1>2, <1>5 DEF Rises, Elements
  <1>6. QED BY <1>1, <1>3, <1>4, <1>5

\* What Append does to them.
LEMMA AppendOf ==
  ASSUME NEW S, NEW q \in Seq(S), NEW e \in S
  PROVE  /\ Append(q, e) \in Seq(S) /\ Len(Append(q, e)) = Len(q) + 1
         /\ Elements(Append(q, e)) = Elements(q) \cup {e}
         /\ Rises(q) /\ (\A x \in Elements(q) : x.id < e.id) => Rises(Append(q, e))
  <1>1. /\ Append(q, e) \in Seq(S) /\ Len(Append(q, e)) = Len(q) + 1 /\ Len(q) \in Nat
        /\ \A i \in 1..Len(q) : Append(q, e)[i] = q[i]
        /\ Append(q, e)[Len(q) + 1] = e
    OBVIOUS
  <1>2. DOMAIN q = 1..Len(q) /\ DOMAIN Append(q, e) = 1..(Len(q) + 1)
    BY <1>1
  <1>3. Elements(Append(q, e)) = Elements(q) \cup {e}
    <2>1. ASSUME NEW i \in DOMAIN Append(q, e) PROVE Append(q, e)[i] \in Elements(q) \cup {e}
      BY <1>1, <1>2 DEF Elements
    <2>2. ASSUME NEW i \in DOMAIN q PROVE q[i] \in Elements(Append(q, e))
      <3>1. i \in DOMAIN Append(q, e) /\ Append(q, e)[i] = q[i] BY <1>1, <1>2
      <3>2. QED BY <3>1 DEF Elements
    <2>3. e \in Elements(Append(q, e))
      <3>1. Len(q) + 1 \in DOMAIN Append(q, e) BY <1>1, <1>2
      <3>2. QED BY <3>1, <1>1 DEF Elements
    <2>4. QED BY <2>1, <2>2, <2>3 DEF Elements
  <1>4. ASSUME Rises(q), \A x \in Elements(q) : x.id < e.id
        PROVE  Rises(Append(q, e))
    BY <1>1, <1>2, <1>4 DEF Rises, Elements
  <1>5. QED BY <1>1, <1>3, <1>4

\* A queue without one of its events.
LEMMA WithoutOf ==
  ASSUME NEW S, NEW q \in Seq(S), NEW i \in 1..Len(q)
  PROVE  /\ Without(q, i) \in Seq(S) /\ Len(Without(q, i)) = Len(q) - 1
         /\ Elements(q) = Elements(Without(q, i)) \cup {q[i]}
         /\ Rises(q) => Rises(Without(q, i))
  <1> DEFINE w == Without(q, i)
  <1>1. /\ Len(q) \in Nat /\ Len(q) - 1 \in Nat /\ DOMAIN q = 1..Len(q)
        /\ \A j \in 1..Len(q) : q[j] \in S
    OBVIOUS
  <1>2. /\ DOMAIN w = 1..(Len(q) - 1)
        /\ \A j \in 1..(Len(q) - 1) : w[j] = IF j < i THEN q[j] ELSE q[j + 1]
    BY DEF Without
  <1>3. w \in Seq(S) /\ Len(w) = Len(q) - 1
    <2>1. w = [j \in 1..(Len(q) - 1) |-> IF j < i THEN q[j] ELSE q[j + 1]]
      BY DEF Without
    <2>2. \A j \in 1..(Len(q) - 1) : (IF j < i THEN q[j] ELSE q[j + 1]) \in S
      BY <1>1
    <2>3. QED BY <2>1, <2>2, <1>1
  <1> HIDE DEF w
  <1>4. Elements(q) = Elements(w) \cup {q[i]}
    <2>1. ASSUME NEW j \in DOMAIN q PROVE q[j] \in Elements(w) \cup {q[i]}
      <3>1. CASE j = i BY <3>1
      <3>2. CASE j < i
        <4>1. j \in DOMAIN w /\ w[j] = q[j] BY <3>2, <1>1, <1>2
        <4>2. QED BY <4>1 DEF Elements
      <3>3. CASE j > i
        <4>1. j - 1 \in DOMAIN w /\ w[j - 1] = q[j] BY <3>3, <1>1, <1>2
        <4>2. QED BY <4>1 DEF Elements
      <3>4. QED BY <3>1, <3>2, <3>3, <1>1
    <2>2. ASSUME NEW j \in DOMAIN w PROVE w[j] \in Elements(q)
      <3>1. \E k \in DOMAIN q : w[j] = q[k] BY <1>1, <1>2
      <3>2. QED BY <3>1 DEF Elements
    <2>3. QED BY <2>1, <2>2, <1>1 DEF Elements
  <1>5. ASSUME Rises(q) PROVE Rises(w)
    <2>1. SUFFICES ASSUME NEW j \in DOMAIN w, NEW k \in DOMAIN w, j < k
                   PROVE  w[j].id < w[k].id
      BY DEF Rises
    <2> DEFINE Old(n) == IF n < i THEN n ELSE n + 1
    <2>2. /\ Old(j) \in DOMAIN q /\ Old(k) \in DOMAIN q /\ Old(j) < Old(k)
          /\ w[j] = q[Old(j)] /\ w[k] = q[Old(k)]
      BY <2>1, <1>1, <1>2
    <2> HIDE DEF Old
    <2>3. QED BY <2>2, <1>5 DEF Rises
  <1>6. QED BY <1>3, <1>4, <1>5 DEF w

\* Rising queues of which one precedes the other rise as one.
LEMMA ConcatOf ==
  ASSUME NEW S, NEW p \in Seq(S), NEW q \in Seq(S), Rises(p), Rises(q), Precedes(p, q)
  PROVE  /\ p \o q \in Seq(S) /\ Rises(p \o q)
         /\ Elements(p \o q) = Elements(p) \cup Elements(q)
  <1>1. /\ p \o q \in Seq(S) /\ Len(p \o q) = Len(p) + Len(q)
        /\ Len(p) \in Nat /\ Len(q) \in Nat
        /\ \A i \in 1..Len(p) : (p \o q)[i] = p[i]
        /\ \A i \in (Len(p) + 1)..(Len(p) + Len(q)) : (p \o q)[i] = q[i - Len(p)]
    OBVIOUS
  <1>2. /\ DOMAIN p = 1..Len(p) /\ DOMAIN q = 1..Len(q)
        /\ DOMAIN (p \o q) = 1..(Len(p) + Len(q))
    BY <1>1
  <1>3. Rises(p \o q)
    <2>1. SUFFICES ASSUME NEW i \in DOMAIN (p \o q), NEW j \in DOMAIN (p \o q), i < j
                   PROVE  (p \o q)[i].id < (p \o q)[j].id
      BY DEF Rises
    <2>2. CASE j <= Len(p)
      BY <2>1, <2>2, <1>1, <1>2 DEF Rises
    <2>3. CASE i > Len(p)
      <3>1. /\ i - Len(p) \in DOMAIN q /\ j - Len(p) \in DOMAIN q /\ i - Len(p) < j - Len(p)
            /\ (p \o q)[i] = q[i - Len(p)] /\ (p \o q)[j] = q[j - Len(p)]
        BY <2>1, <2>3, <1>1, <1>2
      <3>2. QED BY <3>1 DEF Rises
    <2>4. CASE i <= Len(p) /\ j > Len(p)
      <3>1. /\ i \in DOMAIN p /\ j - Len(p) \in DOMAIN q
            /\ (p \o q)[i] = p[i] /\ (p \o q)[j] = q[j - Len(p)]
        BY <2>4, <1>1, <1>2
      <3>2. QED BY <3>1 DEF Precedes, Elements
    <2>5. QED BY <2>2, <2>3, <2>4, <1>1, <1>2
  <1>4. Elements(p \o q) = Elements(p) \cup Elements(q)
    <2>1. ASSUME NEW i \in DOMAIN (p \o q) PROVE (p \o q)[i] \in Elements(p) \cup Elements(q)
      <3>1. CASE i <= Len(p) BY <3>1, <1>1, <1>2 DEF Elements
      <3>2. CASE i > Len(p)
        <4>1. i - Len(p) \in DOMAIN q /\ (p \o q)[i] = q[i - Len(p)] BY <3>2, <1>1, <1>2
        <4>2. QED BY <4>1 DEF Elements
      <3>3. QED BY <3>1, <3>2, <1>1, <1>2
    <2>2. ASSUME NEW i \in DOMAIN p PROVE p[i] \in Elements(p \o q)
      <3>1. i \in DOMAIN (p \o q) /\ (p \o q)[i] = p[i] BY <1>1, <1>2
      <3>2. QED BY <3>1 DEF Elements
    <2>3. ASSUME NEW i \in DOMAIN q PROVE q[i] \in Elements(p \o q)
      <3>1. i + Len(p) \in DOMAIN (p \o q) /\ (p \o q)[i + Len(p)] = q[i] BY <1>1, <1>2
      <3>2. QED BY <3>1 DEF Elements
    <2>4. QED BY <2>1, <2>2, <2>3 DEF Elements
  <1>5. QED BY <1>1, <1>3, <1>4

-----------------------------------------------------------------------------
(* Types, locals and the table.                                             *)

\* Making room in a full queue leaves one event less than it held.
LEMMA VictimsAreQueued ==
  ASSUME ConstantsAssumption, NEW q \in Seq(Event), Len(q) >= Capacity, NEW i \in Victims(q)
  PROVE  i \in 1..Len(q)
  BY DEF Victims, ConstantsAssumption

\* What Push leaves in a queue, wherever it comes from.
LEMMA Pushes ==
  ASSUME TypeOK, NEW s \in Sub, event \in Event, NEW q \in Seq(Event), Len(q) < Capacity, Push(s, q),
         ConstantsAssumption
  PROVE  /\ pending' \in [Sub -> Seq(Event)] /\ permit' \in [Sub -> BOOLEAN]
         /\ offered' \in [Sub -> SUBSET Event]
         /\ \A r \in Sub : Len(pending'[r]) <= Capacity
         /\ pending'[s] = Append(q, event)
         /\ offered'[s] = IF consumer[s] = "listening" THEN offered[s] \cup {event} ELSE offered[s]
         /\ \A r \in Sub \ {s} : pending'[r] = pending[r] /\ offered'[r] = offered[r]
  <1>1. Append(q, event) \in Seq(Event) /\ Len(Append(q, event)) = Len(q) + 1
    BY AppendOf
  <1>2. Len(q) \in Nat /\ Capacity \in Nat
    BY DEF ConstantsAssumption
  <1>3. /\ pending' = [pending EXCEPT ![s] = Append(q, event)]
        /\ permit' = [permit EXCEPT ![s] = TRUE]
    BY DEF Push
  <1>4. /\ offered' \in [Sub -> SUBSET Event]
        /\ offered'[s] = IF consumer[s] = "listening" THEN offered[s] \cup {event} ELSE offered[s]
        /\ \A r \in Sub \ {s} : offered'[r] = offered[r]
    BY DEF Push, NoteOffered, TypeOK
  <1>5. /\ pending' \in [Sub -> Seq(Event)] /\ permit' \in [Sub -> BOOLEAN]
        /\ pending'[s] = Append(q, event)
        /\ \A r \in Sub \ {s} : pending'[r] = pending[r]
    BY <1>1, <1>3 DEF TypeOK
  <1>6. \A r \in Sub : Len(pending'[r]) <= Capacity
    <2>1. Len(pending'[s]) <= Capacity BY <1>1, <1>2, <1>5
    <2>2. \A r \in Sub \ {s} : Len(pending'[r]) <= Capacity BY <1>5 DEF TypeOK
    <2>3. QED BY <2>1, <2>2
  <1>7. QED BY <1>4, <1>5, <1>6

\* A retry pushes onto a queue with room: the one there is, or the full one
\* without its victim.
LEMMA Retries ==
  ASSUME TypeOK, LocalsFit, ConstantsAssumption, NEW s \in Sub, Retry(s)
  PROVE  \/ /\ Len(pending[s]) < Capacity /\ Push(s, pending[s])
         \/ /\ Len(pending[s]) >= Capacity
            /\ \E i \in Victims(pending[s]) :
                 /\ i \in 1..Len(pending[s])
                 /\ Without(pending[s], i) \in Seq(Event)
                 /\ Len(Without(pending[s], i)) < Capacity
                 /\ Push(s, Without(pending[s], i))
  <1>1. CASE Len(pending[s]) < Capacity
    <2>1. ~(Len(pending[s]) >= Capacity)
      BY <1>1 DEF TypeOK, ConstantsAssumption
    <2>2. QED BY <1>1, <2>1 DEF Retry
  <1>2. CASE ~(Len(pending[s]) < Capacity)
    <2>1. pending[s] \in Seq(Event) /\ Len(pending[s]) \in Nat /\ Len(pending[s]) <= Capacity
      BY DEF TypeOK
    <2>2. PICK i \in Victims(pending[s]) : Push(s, Without(pending[s], i))
      BY <1>2 DEF Retry
    <2>3. Len(pending[s]) >= Capacity
      BY <1>2, <2>1 DEF ConstantsAssumption
    <2>4. i \in 1..Len(pending[s])
      BY <2>1, <2>2, <2>3, VictimsAreQueued
    <2>5. Without(pending[s], i) \in Seq(Event) /\ Len(Without(pending[s], i)) < Capacity
      BY <2>1, <2>4, WithoutOf DEF ConstantsAssumption
    <2>6. QED BY <2>2, <2>3, <2>4, <2>5
  <1>3. QED BY <1>1, <1>2

\* Types and locals through every step.
LEMMA FitStep ==
  ASSUME TypeOK, LocalsFit, ConstantsAssumption, [Next]_vars
  PROVE  TypeOK' /\ LocalsFit'
  <1> USE DEF RunPhase, Dispatching, dispatchVars, runVars, tableVars, queueVars, forwardVars, consumerVars
  <1>1. ASSUME NEW s \in Sub, Subscribe(s) PROVE TypeOK' /\ LocalsFit'
    BY <1>1 DEF TypeOK, LocalsFit, Subscribe
  <1>2. ASSUME NEW s \in Sub, SpawnForwarder(s) PROVE TypeOK' /\ LocalsFit'
    BY <1>2 DEF TypeOK, LocalsFit, SpawnForwarder
  <1>3. ASSUME NEW s \in Sub, Receive(s) PROVE TypeOK' /\ LocalsFit'
    <2> DEFINE q == channel[s]
    <2>1. q \in Seq(Event) /\ q # <<>> /\ got[s] \in Seq(Event) /\ Len(q) \in Nat /\ Len(q) <= Capacity
      BY <1>3 DEF TypeOK, Receive
    <2>2. /\ Tail(q) \in Seq(Event) /\ Len(Tail(q)) <= Capacity /\ Head(q) \in Event
          /\ Append(got[s], Head(q)) \in Seq(Event)
      BY <2>1, TailOf, AppendOf DEF ConstantsAssumption
    <2>3. /\ channel' = [channel EXCEPT ![s] = Tail(q)]
          /\ got' = [got EXCEPT ![s] = Append(got[s], Head(q))]
      BY <1>3 DEF Receive
    <2> HIDE DEF q
    <2>4. UNCHANGED <<runVars, tableVars, queueVars, forwardVars, consumer, cancelled>>
      BY <1>3 DEF Receive
    <2>5. TypeOK'
      <3>1. channel' \in [Sub -> Seq(Event)] /\ \A r \in Sub : Len(channel'[r]) <= Capacity
        BY <2>2, <2>3 DEF TypeOK
      <3>2. got' \in [Sub -> Seq(Event)]
        BY <2>2, <2>3 DEF TypeOK
      <3>3. QED BY <2>4, <3>1, <3>2 DEF TypeOK
    <2>6. LocalsFit'
      BY <2>4 DEF LocalsFit
    <2>7. QED BY <2>5, <2>6
  <1>4. ASSUME NEW s \in Sub, Leave(s) PROVE TypeOK' /\ LocalsFit'
    BY <1>4 DEF TypeOK, LocalsFit, Leave, ConstantsAssumption
  <1>5. ASSUME NEW s \in Sub, Look(s) PROVE TypeOK' /\ LocalsFit'
    <2>1. CASE pending[s] # <<>>
      <3> DEFINE q == pending[s]
      <3>1. q \in Seq(Event) /\ Len(q) \in Nat /\ Len(q) <= Capacity
        BY DEF TypeOK
      <3>2. /\ Tail(q) \in Seq(Event) /\ Len(Tail(q)) <= Capacity
            /\ <<Head(q)>> \in Seq(Event) /\ Len(<<Head(q)>>) = 1
        BY <2>1, <3>1, TailOf DEF ConstantsAssumption
      <3>3. /\ pending' = [pending EXCEPT ![s] = Tail(q)]
            /\ hand' = [hand EXCEPT ![s] = <<Head(q)>>]
            /\ forwarder' = [forwarder EXCEPT ![s] = "send"]
        BY <1>5, <2>1 DEF Look
      <3> HIDE DEF q
      <3>4. UNCHANGED <<runVars, tableVars, permit, offered, closed, consumerVars, cancelled>>
        BY <1>5 DEF Look
      <3>5. /\ pending' \in [Sub -> Seq(Event)] /\ \A r \in Sub : Len(pending'[r]) <= Capacity
            /\ hand' \in [Sub -> Seq(Event)] /\ \A r \in Sub : Len(hand'[r]) <= 1
        BY <3>2, <3>3 DEF TypeOK
      <3>6. TypeOK'
        BY <3>3, <3>4, <3>5 DEF TypeOK
      <3>7. LocalsFit'
        BY <3>2, <3>3, <3>4 DEF LocalsFit, TypeOK
      <3>8. QED BY <3>6, <3>7
    <2>2. CASE pending[s] = <<>>
      BY <1>5, <2>2 DEF TypeOK, LocalsFit, Look
    <2>3. QED BY <2>1, <2>2
  <1>6. ASSUME NEW s \in Sub, Wake(s) PROVE TypeOK' /\ LocalsFit'
    BY <1>6 DEF TypeOK, LocalsFit, Wake
  <1>7. ASSUME NEW s \in Sub, Send(s) PROVE TypeOK' /\ LocalsFit'
    <2>1. <<>> \in Seq(Event) /\ Len(<<>>) = 0 OBVIOUS
    <2>2. CASE consumer[s] = "gone"
      <3>1. /\ closed' = [closed EXCEPT ![s] = TRUE] /\ hand' = [hand EXCEPT ![s] = <<>>]
            /\ forwarder' = [forwarder EXCEPT ![s] = "stopped"]
            /\ UNCHANGED <<runVars, tableVars, queueVars, consumerVars, cancelled>>
        BY <1>7, <2>2 DEF Send
      <3>2. /\ hand' \in [Sub -> Seq(Event)] /\ \A r \in Sub : Len(hand'[r]) <= 1
        BY <2>1, <3>1 DEF TypeOK
      <3>3. TypeOK'
        BY <3>1, <3>2 DEF TypeOK
      <3>4. LocalsFit'
        BY <2>1, <3>1 DEF LocalsFit, TypeOK
      <3>5. QED BY <3>3, <3>4
    <2>3. CASE consumer[s] # "gone"
      <3> DEFINE q == Append(channel[s], hand[s][1])
      <3>1. hand[s][1] \in Event /\ channel[s] \in Seq(Event) /\ Len(channel[s]) < Capacity
        BY <1>7, <2>3 DEF TypeOK, LocalsFit, Send
      <3>2. q \in Seq(Event) /\ Len(q) <= Capacity
        BY <3>1, AppendOf DEF ConstantsAssumption
      <3>3. /\ channel' = [channel EXCEPT ![s] = q]
            /\ forwarder' = [forwarder EXCEPT ![s] = "look"]
            /\ closed' = closed
        BY <1>7, <2>3 DEF Send
      <3> HIDE DEF q
      <3>4. /\ hand' = [hand EXCEPT ![s] = <<>>]
            /\ UNCHANGED <<runVars, tableVars, queueVars, consumer, got, cancelled>>
        BY <1>7 DEF Send
      <3>5. /\ hand' \in [Sub -> Seq(Event)] /\ \A r \in Sub : Len(hand'[r]) <= 1
            /\ channel' \in [Sub -> Seq(Event)] /\ \A r \in Sub : Len(channel'[r]) <= Capacity
        BY <2>1, <3>2, <3>3, <3>4 DEF TypeOK
      <3>6. TypeOK' BY <3>3, <3>4, <3>5 DEF TypeOK
      <3>7. LocalsFit' BY <2>1, <3>3, <3>4 DEF LocalsFit, TypeOK
      <3>8. QED BY <3>6, <3>7
    <2>4. QED BY <2>2, <2>3
  <1>8. ASSUME NEW s \in Sub, Offer(s) PROVE TypeOK' /\ LocalsFit'
    <2>1. /\ event \in Event /\ run' \in {"keep", "retry"} /\ todo' = todo \ {s} /\ current' = {s}
          /\ UNCHANGED <<asked, event, active, tableVars, forwardVars, consumerVars, cancelled>>
      BY <1>8 DEF Offer, LocalsFit
    <2>2. LocalsFit'
      BY <1>8, <2>1 DEF LocalsFit, Offer
    <2>3. /\ pending' \in [Sub -> Seq(Event)] /\ permit' \in [Sub -> BOOLEAN]
          /\ offered' \in [Sub -> SUBSET Event]
          /\ \A r \in Sub : Len(pending'[r]) <= Capacity
      <3>1. CASE Len(pending[s]) < Capacity /\ Push(s, pending[s])
        <4>1. pending[s] \in Seq(Event) BY DEF TypeOK
        <4>2. QED BY <2>1, <3>1, <4>1, Pushes
      <3>2. CASE NoteOffered(s) /\ UNCHANGED <<pending, permit>>
        BY <2>1, <3>2 DEF NoteOffered, TypeOK
      <3>3. CASE UNCHANGED queueVars
        BY <3>3 DEF TypeOK
      <3>4. QED BY <1>8, <3>1, <3>2, <3>3 DEF Offer
    <2>4. TypeOK'
      BY <2>1, <2>3 DEF TypeOK
    <2>5. QED BY <2>2, <2>4
  <1>9. ASSUME NEW s \in Sub, Retry(s) PROVE TypeOK' /\ LocalsFit'
    <2>1. event \in Event
      BY <1>9 DEF Retry, LocalsFit
    <2>2. \E q \in Seq(Event) : Len(q) < Capacity /\ Push(s, q)
      BY <1>9, Retries DEF TypeOK
    <2>3. /\ pending' \in [Sub -> Seq(Event)] /\ permit' \in [Sub -> BOOLEAN]
          /\ offered' \in [Sub -> SUBSET Event]
          /\ \A r \in Sub : Len(pending'[r]) <= Capacity
      BY <2>1, <2>2, Pushes
    <2>4. /\ run' = "keep" /\ run = "retry"
          /\ UNCHANGED <<asked, event, dispatchVars, tableVars, forwardVars, consumerVars, cancelled>>
      BY <1>9 DEF Retry
    <2>5. QED BY <2>1, <2>3, <2>4 DEF TypeOK, LocalsFit
  <1>10. ASSUME NEW s \in Sub, Keep(s) PROVE TypeOK' /\ LocalsFit'
    BY <1>10 DEF TypeOK, LocalsFit, Keep
  <1>11. CASE Store
    BY <1>11 DEF TypeOK, LocalsFit, Store
  <1>12. CASE Begin \/ Connect \/ EndConnection \/ Stop \/ Cancel
    <2>1. /\ UNCHANGED <<event, dispatchVars, tableVars, queueVars, forwardVars, consumerVars>>
          /\ run' \in RunPhase /\ cancelled' \in BOOLEAN
          /\ run' # run => run \notin Dispatching /\ run' \notin Dispatching
      BY <1>12 DEF TypeOK, Begin, Connect, EndConnection, Stop, Cancel
    <2>2. asked' \subseteq Topic
      BY <1>12 DEF TypeOK, Begin, Connect, EndConnection, Stop, Cancel, Topic
    <2>3. TypeOK'
      BY <2>1, <2>2 DEF TypeOK
    <2>4. LocalsFit'
      BY <2>1 DEF LocalsFit
    <2>5. QED BY <2>3, <2>4
  <1>13. ASSUME NEW k \in Kind, Read(k) PROVE TypeOK' /\ LocalsFit'
    <2>1. event.id + 1 \in 1..MaxEvent /\ [id |-> event.id + 1, kind |-> k] \in Event
      BY <1>13 DEF TypeOK, Read, ConstantsAssumption, Event
    <2>2. event' = [id |-> event.id + 1, kind |-> k] /\ event'.id = event.id + 1
      BY <1>13 DEF Read
    <2>3. QED BY <1>13, <2>1, <2>2 DEF TypeOK, LocalsFit, Read
  <1>14. CASE UNCHANGED vars
    BY <1>14 DEF TypeOK, LocalsFit, vars
  <1>15. QED
    BY <1>1, <1>2, <1>3, <1>4, <1>5, <1>6, <1>7, <1>8, <1>9, <1>10, <1>11, <1>12, <1>13, <1>14
    DEF Next, Forward, Dispatch

\* A dispatch covers the table, and nobody is lost but a latecomer.
LEMMA TableStep ==
  ASSUME TypeOK, LocalsFit, CopyCoversTable, EarlySubscribersStay, [Next]_vars
  PROVE  CopyCoversTable' /\ EarlySubscribersStay'
  <1> USE DEF Dispatching, dispatchVars, runVars, tableVars, queueVars, forwardVars, consumerVars
  <1>1. ASSUME NEW s \in Sub, Subscribe(s) PROVE CopyCoversTable' /\ EarlySubscribersStay'
    BY <1>1 DEF CopyCoversTable, EarlySubscribersStay, TypeOK, Subscribe
  <1>2. ASSUME NEW s \in Sub, Receive(s) \/ Leave(s) \/ Forward(s)
        PROVE  CopyCoversTable' /\ EarlySubscribersStay'
    <2>1. /\ UNCHANGED <<runVars, tableVars>>
          /\ \A r \in Sub : closed[r] => closed'[r]
          /\ \A r \in Sub : consumer'[r] # "none" => consumer[r] # "none"
      BY <1>2 DEF TypeOK, Receive, Leave, Forward, SpawnForwarder, Look, Wake, Send
    <2>2. QED BY <2>1 DEF CopyCoversTable, EarlySubscribersStay, TypeOK
  <1>3. ASSUME NEW s \in Sub, Offer(s) \/ Retry(s) \/ Keep(s)
        PROVE  CopyCoversTable' /\ EarlySubscribersStay'
    <2>1. UNCHANGED <<tableVars, forwardVars, consumerVars>>
      BY <1>3 DEF Offer, Retry, Keep
    <2>2. EarlySubscribersStay'
      BY <2>1 DEF EarlySubscribersStay
    <2>3. CopyCoversTable'
      <3>1. CASE Offer(s)
        BY <2>1, <3>1 DEF CopyCoversTable, LocalsFit, Offer
      <3>2. CASE Retry(s)
        BY <2>1, <3>2 DEF CopyCoversTable, Retry
      <3>3. CASE Keep(s)
        <4>1. current = {s} /\ run = "keep"
          BY <3>3 DEF Keep, LocalsFit
        <4>2. QED BY <2>1, <3>3, <4>1 DEF CopyCoversTable, Keep
      <3>4. QED BY <1>3, <3>1, <3>2, <3>3
    <2>4. QED BY <2>2, <2>3
  <1>4. CASE Store
    BY <1>4 DEF CopyCoversTable, EarlySubscribersStay, LocalsFit, TypeOK, Store
  <1>5. ASSUME NEW k \in Kind, Read(k) PROVE CopyCoversTable' /\ EarlySubscribersStay'
    BY <1>5 DEF CopyCoversTable, EarlySubscribersStay, Read
  <1>6. CASE Begin \/ Connect \/ EndConnection \/ Stop \/ Cancel
    BY <1>6 DEF CopyCoversTable, EarlySubscribersStay, Begin, Connect, EndConnection, Stop, Cancel
  <1>7. CASE UNCHANGED vars
    BY <1>7 DEF CopyCoversTable, EarlySubscribersStay, vars
  <1>8. QED BY <1>1, <1>2, <1>3, <1>4, <1>5, <1>6, <1>7 DEF Next, Dispatch

-----------------------------------------------------------------------------
(* Streams.                                                                 *)

\* A queue of at most one event.
LEMMA HandOf ==
  ASSUME NEW S, NEW q \in Seq(S), Len(q) <= 1
  PROVE  /\ Rises(q)
         /\ Len(q) = 1 => Elements(q) = {q[1]} /\ q[1] \in S
         /\ Len(q) # 1 => Elements(q) = {}
  <1>1. Len(q) \in Nat /\ DOMAIN q = 1..Len(q) OBVIOUS
  <1>2. Rises(q) BY <1>1 DEF Rises
  <1>3. ASSUME Len(q) = 1 PROVE Elements(q) = {q[1]} /\ q[1] \in S
    <2>1. DOMAIN q = {1} BY <1>1, <1>3
    <2>2. QED BY <2>1, <1>3 DEF Elements
  <1>4. ASSUME Len(q) # 1 PROVE Elements(q) = {}
    <2>1. DOMAIN q = {} BY <1>1, <1>4
    <2>2. QED BY <2>1 DEF Elements
  <1>5. QED BY <1>2, <1>3, <1>4

\* The ids that are compared are numbers.
LEMMA Ids ==
  ASSUME TypeOK, NEW s \in Sub
  PROVE  /\ event.id \in Nat
         /\ \A e \in Event : e.id \in Nat
         /\ InStream(s) \subseteq Event /\ offered[s] \subseteq Event
  <1>1. event.id \in Nat /\ \A e \in Event : e.id \in Nat
    BY DEF TypeOK, Event
  <1>2. ASSUME NEW q \in Seq(Event) PROVE Elements(q) \subseteq Event
    BY DEF Elements
  <1>3. QED BY <1>1, <1>2 DEF TypeOK, InStream

\* A stream no step touches fits on.
LEMMA StreamStays ==
  ASSUME TypeOK, TypeOK', NEW s \in Sub, PartsRise(s), StreamIsOld(s),
         UNCHANGED <<got[s], channel[s], hand[s], pending[s], offered[s]>>,
         consumer'[s] # "gone" => consumer[s] # "gone",
         consumer'[s] = "none" => consumer[s] = "none",
         event.id <= event'.id,
         Unoffered(s)' => Unoffered(s) \/ event.id < event'.id
  PROVE  PartsRise(s)' /\ StreamIsOld(s)'
  <1>1. PartsRise(s)' BY DEF PartsRise
  <1>2. InStream(s)' = InStream(s) BY DEF InStream
  <1>3. event.id \in Nat /\ event'.id \in Nat BY DEF TypeOK
  <1>4. \A e \in InStream(s) \cup offered[s] : e.id \in Nat BY Ids
  <1>5. StreamIsOld(s)'
    <2>1. ASSUME NEW e \in InStream(s) \cup offered[s]
          PROVE  e.id <= event'.id /\ (Unoffered(s)' => e.id < event'.id)
      BY <1>3, <1>4 DEF StreamIsOld
    <2>2. QED BY <1>2, <2>1 DEF StreamIsOld
  <1>6. QED BY <1>1, <1>5

\* A push of an event that is still to be offered, onto what is left of the
\* queue.
LEMMA PushFits ==
  ASSUME TypeOK, ConstantsAssumption, NEW s \in Sub, PartsRise(s), StreamIsOld(s),
         Unoffered(s), ~Unoffered(s)', event \in Event, consumer[s] # "none",
         NEW q \in Seq(Event), Len(q) < Capacity,
         Elements(q) \subseteq Elements(pending[s]), Rises(q), Push(s, q),
         UNCHANGED <<got, channel, hand, consumer, event>>
  PROVE  PartsRise(s)' /\ StreamIsOld(s)'
  <1>1. \A e \in InStream(s) \cup offered[s] : e.id < event.id
    BY DEF StreamIsOld
  <1>2. /\ pending'[s] = Append(q, event)
        /\ offered'[s] = IF consumer[s] = "listening" THEN offered[s] \cup {event} ELSE offered[s]
    BY Pushes
  <1>3. /\ Elements(pending'[s]) = Elements(q) \cup {event}
        /\ Rises(pending'[s])
    <2>1. \A x \in Elements(q) : x.id < event.id BY <1>1 DEF InStream
    <2>2. QED BY <1>2, <2>1, AppendOf
  <1>4. PartsRise(s)'
    BY <1>1, <1>3 DEF PartsRise, Precedes, InStream
  <1>5. InStream(s)' \subseteq InStream(s) \cup {event}
    BY <1>3 DEF InStream
  <1>6. IsFiniteSet(offered'[s])
    <2>1. IsFiniteSet(offered[s]) BY DEF StreamIsOld
    <2>2. IsFiniteSet(offered[s] \cup {event}) BY <2>1, FS_AddElement
    <2>3. QED BY <1>2, <2>1, <2>2
  <1>7. consumer'[s] # "gone" => InStream(s)' \subseteq offered'[s]
    BY <1>2, <1>5 DEF StreamIsOld, TypeOK
  <1>8. \A e \in InStream(s)' \cup offered'[s] : e.id <= event'.id
    <2>1. ASSUME NEW e \in InStream(s) \cup offered[s] \cup {event} PROVE e.id <= event.id
      BY <1>1, Ids
    <2>2. QED BY <2>1, <1>2, <1>5
  <1>9. QED BY <1>4, <1>6, <1>7, <1>8 DEF StreamIsOld

\* An event moves from one queue to the end of the next: nothing comes in, and
\* nothing overtakes.
LEMMA MoveFits ==
  ASSUME TypeOK, NEW s \in Sub, PartsRise(s), StreamIsOld(s),
         PartsRise(s)', InStream(s)' \subseteq InStream(s),
         UNCHANGED <<runVars, offered, consumer>>
  PROVE  StreamIsOld(s)'
  BY DEF StreamIsOld, Unoffered, runVars, dispatchVars

\* Streams through every step.
LEMMA StreamStep ==
  ASSUME TypeOK, TypeOK', LocalsFit, ConstantsAssumption, StreamsFit, [Next]_vars
  PROVE  StreamsFit'
  <1> SUFFICES ASSUME NEW r \in Sub PROVE PartsRise(r)' /\ StreamIsOld(r)'
    BY DEF StreamsFit
  <1>a. PartsRise(r) /\ StreamIsOld(r) BY DEF StreamsFit
  <1>b. /\ got[r] \in Seq(Event) /\ channel[r] \in Seq(Event) /\ hand[r] \in Seq(Event)
        /\ pending[r] \in Seq(Event) /\ Len(hand[r]) <= 1 /\ event.id \in Nat
    BY DEF TypeOK
  <1> USE DEF dispatchVars, runVars, tableVars, queueVars, forwardVars, consumerVars
  <1>1. ASSUME NEW s \in Sub, Subscribe(s) \/ SpawnForwarder(s) \/ Wake(s)
        PROVE  PartsRise(r)' /\ StreamIsOld(r)'
    <2>1. /\ UNCHANGED <<runVars, got, channel, hand, pending, offered>>
          /\ consumer'[r] # "gone" => consumer[r] # "gone"
          /\ consumer'[r] = "none" => consumer[r] = "none"
      BY <1>1 DEF TypeOK, Subscribe, SpawnForwarder, Wake
    <2>2. QED BY <2>1, <1>a, <1>b, StreamStays DEF Unoffered
  <1>2. ASSUME NEW s \in Sub \ {r}, Receive(s) \/ Leave(s) \/ Look(s) \/ Send(s)
        PROVE  PartsRise(r)' /\ StreamIsOld(r)'
    <2>1. /\ UNCHANGED <<got[r], channel[r], hand[r], pending[r], offered[r], consumer[r]>>
          /\ UNCHANGED runVars
      <3>1. CASE Receive(s) BY <1>2, <3>1 DEF TypeOK, Receive
      <3>2. CASE Leave(s) BY <1>2, <3>2 DEF TypeOK, Leave
      <3>3. CASE Look(s) BY <1>2, <3>3 DEF TypeOK, Look
      <3>4. CASE Send(s) BY <1>2, <3>4 DEF TypeOK, Send
      <3>5. QED BY <1>2, <3>1, <3>2, <3>3, <3>4
    <2>2. QED BY <2>1, <1>a, <1>b, StreamStays DEF Unoffered
  <1>3. CASE Receive(r)
    <2> DEFINE h == Head(channel[r])
    <2>1. /\ got'[r] = Append(got[r], h) /\ channel'[r] = Tail(channel[r]) /\ channel[r] # <<>>
          /\ UNCHANGED <<runVars, hand, pending, offered, consumer>>
      BY <1>3 DEF Receive, TypeOK
    <2>2. /\ Elements(channel[r]) = {h} \cup Elements(channel'[r]) /\ h \in Event
          /\ Rises(channel'[r]) /\ \A x \in Elements(channel'[r]) : h.id < x.id
      BY <2>1, <1>a, <1>b, TailOf DEF PartsRise
    <2> HIDE DEF h
    <2>3. Elements(got'[r]) = Elements(got[r]) \cup {h} /\ Rises(got'[r])
      BY <2>1, <2>2, <1>a, <1>b, AppendOf DEF PartsRise, Precedes
    <2>4. PartsRise(r)'
      BY <2>1, <2>2, <2>3, <1>a DEF PartsRise, Precedes
    <2>5. InStream(r)' \subseteq InStream(r)
      BY <2>1, <2>2, <2>3 DEF InStream
    <2>6. QED BY <2>1, <2>4, <2>5, <1>a, MoveFits
  <1>4. CASE Leave(r)
    <2>1. /\ got'[r] = <<>> /\ channel'[r] = <<>> /\ offered'[r] = {} /\ consumer'[r] = "gone"
          /\ UNCHANGED <<runVars, hand, pending>>
      BY <1>4 DEF Leave, TypeOK
    <2>2. Elements(<<>>) = {} /\ Rises(<<>>)
      BY DEF Elements, Rises
    <2>3. PartsRise(r)'
      BY <2>1, <2>2, <1>a DEF PartsRise, Precedes
    <2>4. InStream(r)' \subseteq InStream(r) /\ IsFiniteSet({})
      BY <2>1, <2>2, FS_EmptySet DEF InStream
    <2>5. QED BY <2>1, <2>3, <2>4, <1>a DEF StreamIsOld, Unoffered
  <1>5. CASE Look(r)
    <2>1. CASE pending[r] # <<>>
      <3> DEFINE h == Head(pending[r])
      <3>1. /\ hand'[r] = <<h>> /\ pending'[r] = Tail(pending[r])
            /\ UNCHANGED <<runVars, got, channel, offered, consumer>>
            /\ Len(hand[r]) # 1
        BY <1>5, <2>1 DEF Look, TypeOK, LocalsFit
      <3>2. /\ Elements(pending[r]) = {h} \cup Elements(pending'[r])
            /\ Rises(pending'[r]) /\ \A x \in Elements(pending'[r]) : h.id < x.id
            /\ h \in Event
        BY <2>1, <3>1, <1>a, <1>b, TailOf DEF PartsRise
      <3> HIDE DEF h
      <3>3. Elements(hand'[r]) = {h} /\ Rises(hand'[r])
        <4>1. DOMAIN <<h>> = {1} /\ <<h>>[1] = h OBVIOUS
        <4>2. Elements(<<h>>) = {h} BY <4>1 DEF Elements
        <4>3. Rises(<<h>>) BY <4>1 DEF Rises
        <4>4. QED BY <3>1, <4>2, <4>3
      <3>4. PartsRise(r)'
        BY <3>1, <3>2, <3>3, <1>a DEF PartsRise, Precedes
      <3>5. InStream(r)' \subseteq InStream(r)
        BY <3>1, <3>2, <3>3 DEF InStream
      <3>6. QED BY <3>1, <3>4, <3>5, <1>a, MoveFits
    <2>2. CASE pending[r] = <<>>
      BY <1>5, <2>2, <1>a, <1>b, StreamStays DEF Look, Unoffered
    <2>3. QED BY <2>1, <2>2
  <1>6. CASE Send(r)
    <2>1. /\ hand'[r] = <<>> /\ Len(hand[r]) = 1
          /\ UNCHANGED <<runVars, got, pending, offered, consumer>>
      BY <1>6 DEF Send, TypeOK, LocalsFit
    <2>2. Elements(hand'[r]) = {} /\ Rises(hand'[r])
      BY <2>1 DEF Elements, Rises
    <2>3. Elements(hand[r]) = {hand[r][1]} /\ hand[r][1] \in Event
      BY <2>1, <1>b, HandOf
    <2>4. CASE channel'[r] = channel[r]
      <3>1. PartsRise(r)'
        BY <2>1, <2>2, <2>4, <1>a DEF PartsRise, Precedes
      <3>2. InStream(r)' \subseteq InStream(r)
        BY <2>1, <2>2, <2>4 DEF InStream
      <3>3. QED BY <2>1, <3>1, <3>2, <1>a, MoveFits
    <2>5. CASE channel'[r] = Append(channel[r], hand[r][1])
      <3>1. Elements(channel'[r]) = Elements(channel[r]) \cup {hand[r][1]} /\ Rises(channel'[r])
        <4>1. Rises(channel[r]) /\ \A x \in Elements(channel[r]) : x.id < hand[r][1].id
          BY <2>3, <1>a DEF PartsRise, Precedes
        <4>2. QED BY <2>3, <2>5, <4>1, <1>b, AppendOf
      <3>2. PartsRise(r)'
        BY <2>1, <2>2, <2>3, <3>1, <1>a DEF PartsRise, Precedes
      <3>3. InStream(r)' \subseteq InStream(r)
        BY <2>1, <2>2, <2>3, <3>1 DEF InStream
      <3>4. QED BY <2>1, <3>2, <3>3, <1>a, MoveFits
    <2>6. QED BY <1>6, <2>4, <2>5 DEF Send, TypeOK
  <1>7. ASSUME NEW s \in Sub, Offer(s) PROVE PartsRise(r)' /\ StreamIsOld(r)'
    <2>1. /\ UNCHANGED <<got, channel, hand, consumer, event>> /\ event \in Event
          /\ s \in todo /\ todo' = todo \ {s} /\ current' = {s} /\ run' \in {"keep", "retry"}
      BY <1>7 DEF Offer, LocalsFit
    <2>2. Unoffered(s) /\ consumer[s] # "none"
      BY <2>1 DEF Unoffered, LocalsFit
    <2>3. CASE r # s
      <3>1. UNCHANGED <<pending[r], offered[r]>>
        BY <1>7, <2>3 DEF Offer, Push, NoteOffered, TypeOK
      <3>2. Unoffered(r)' => Unoffered(r)
        BY <2>1, <2>3 DEF Unoffered
      <3>3. QED BY <2>1, <3>1, <3>2, <1>a, <1>b, StreamStays
    <2>4. CASE r = s
      <3>1. CASE Len(pending[s]) < Capacity /\ Push(s, pending[s]) /\ run' = "keep"
        <4>1. ~Unoffered(s)' BY <2>1, <3>1 DEF Unoffered
        <4>2. Rises(pending[s]) BY <2>4, <1>a DEF PartsRise
        <4>3. QED BY <2>1, <2>2, <2>4, <3>1, <4>1, <4>2, <1>a, <1>b, PushFits
      <3>2. CASE NoteOffered(s) /\ UNCHANGED pending /\ run' = "keep"
        <4>1. ~Unoffered(s)' BY <2>1, <3>2 DEF Unoffered
        <4>2. PartsRise(r)' BY <2>1, <3>2, <1>a DEF PartsRise
        <4>3. InStream(r)' = InStream(r) BY <2>1, <3>2 DEF InStream
        <4>4. offered'[r] = offered[r] \/ offered'[r] = offered[r] \cup {event}
          BY <2>4, <3>2 DEF NoteOffered, TypeOK
        <4>5. \A e \in InStream(r) \cup offered'[r] : e.id <= event.id
          <5>1. event.id <= event.id BY <1>b
          <5>2. QED BY <5>1, <4>4, <1>a DEF StreamIsOld
        <4>6. IsFiniteSet(offered'[r]) BY <4>4, <1>a, FS_AddElement DEF StreamIsOld
        <4>7. InStream(r) \subseteq offered[r] => InStream(r) \subseteq offered'[r] BY <4>4
        <4>8. QED BY <2>1, <2>2, <2>4, <4>1, <4>2, <4>3, <4>5, <4>6, <4>7, <1>a DEF StreamIsOld
      <3>3. CASE UNCHANGED queueVars
        BY <2>1, <2>2, <2>4, <3>3, <1>a, <1>b, StreamStays
      <3>4. QED BY <1>7, <3>1, <3>2, <3>3 DEF Offer
    <2>5. QED BY <2>3, <2>4
  <1>8. ASSUME NEW s \in Sub, Retry(s) PROVE PartsRise(r)' /\ StreamIsOld(r)'
    <2>1. /\ UNCHANGED <<got, channel, hand, consumer, event, todo, current>> /\ event \in Event
          /\ run = "retry" /\ run' = "keep" /\ s \in current /\ s \notin todo /\ current = {s}
      BY <1>8 DEF Retry, LocalsFit, Dispatching
    <2>2. PICK q \in Seq(Event) : /\ Len(q) < Capacity /\ Push(s, q)
                                  /\ Elements(q) \subseteq Elements(pending[s])
                                  /\ Rises(pending[s]) => Rises(q)
      <3>1. pending[s] \in Seq(Event) BY DEF TypeOK
      <3>2. CASE Len(pending[s]) < Capacity /\ Push(s, pending[s])
        BY <3>1, <3>2
      <3>3. ASSUME NEW i \in 1..Len(pending[s]), Len(Without(pending[s], i)) < Capacity,
                   Push(s, Without(pending[s], i))
            PROVE  \E q \in Seq(Event) : /\ Len(q) < Capacity /\ Push(s, q)
                                         /\ Elements(q) \subseteq Elements(pending[s])
                                         /\ Rises(pending[s]) => Rises(q)
        BY <3>1, <3>3, WithoutOf
      <3>4. QED BY <1>8, <3>2, <3>3, Retries
    <2>3. CASE r # s
      <3>1. UNCHANGED <<pending[r], offered[r]>>
        BY <2>1, <2>2, <2>3, Pushes
      <3>2. Unoffered(r)' => Unoffered(r)
        BY <2>1 DEF Unoffered
      <3>3. QED BY <2>1, <3>1, <3>2, <1>a, <1>b, StreamStays
    <2>4. CASE r = s
      <3>1. Unoffered(s) /\ ~Unoffered(s)' /\ consumer[s] # "none"
        BY <2>1 DEF Unoffered, LocalsFit
      <3>2. Rises(q) BY <2>2, <2>4, <1>a DEF PartsRise
      <3>3. QED BY <2>1, <2>2, <2>4, <3>1, <3>2, <1>a, PushFits
    <2>5. QED BY <2>3, <2>4
  <1>9. CASE (\E s \in Sub : Keep(s)) \/ Store \/ Begin \/ Connect \/ EndConnection \/ Stop \/ Cancel
    <2>1. /\ UNCHANGED <<got, channel, hand, pending, offered, consumer, event>>
          /\ Unoffered(r)' => Unoffered(r)
      BY <1>9 DEF Keep, Store, Begin, Connect, EndConnection, Stop, Cancel, Unoffered
    <2>2. QED BY <2>1, <1>a, <1>b, StreamStays
  <1>10. ASSUME NEW k \in Kind, Read(k) PROVE PartsRise(r)' /\ StreamIsOld(r)'
    <2>1. /\ UNCHANGED <<got, channel, hand, pending, offered, consumer>>
          /\ event'.id = event.id + 1
      BY <1>10 DEF Read
    <2>2. event.id <= event'.id /\ event.id < event'.id BY <2>1, <1>b
    <2>3. QED BY <2>1, <2>2, <1>a, StreamStays
  <1>11. CASE UNCHANGED vars
    BY <1>11, <1>a, <1>b, StreamStays DEF vars, Unoffered
  <1>12. QED
    BY <1>1, <1>2, <1>3, <1>4, <1>5, <1>6, <1>7, <1>8, <1>9, <1>10, <1>11
    DEF Next, Forward, Dispatch

-----------------------------------------------------------------------------
(* Terminal events.                                                         *)

\* The later terminal events of an event only grow in number.
LEMMA LaterGrow ==
  ASSUME NEW s \in Sub, NEW e, offered[s] \subseteq offered'[s], IsFiniteSet(offered'[s]),
         ConstantsAssumption, Cardinality(LaterTerminals(s, e)) >= Capacity
  PROVE  Cardinality(LaterTerminals(s, e)') >= Capacity
  <1>1. LaterTerminals(s, e)' \in SUBSET offered'[s] /\ LaterTerminals(s, e) \in SUBSET LaterTerminals(s, e)'
    BY DEF LaterTerminals
  <1>2. IsFiniteSet(LaterTerminals(s, e)') BY <1>1, FS_Subset
  <1>3. /\ IsFiniteSet(LaterTerminals(s, e))
        /\ Cardinality(LaterTerminals(s, e)) <= Cardinality(LaterTerminals(s, e)')
    BY <1>1, <1>2, FS_Subset
  <1>4. /\ Cardinality(LaterTerminals(s, e)) \in Nat
        /\ Cardinality(LaterTerminals(s, e)') \in Nat /\ Capacity \in Nat
    BY <1>2, <1>3, FS_CardinalityType DEF ConstantsAssumption
  <1>5. QED BY <1>3, <1>4

\* A full queue of terminal events and the one it gives way to are Capacity
\* later ones, for its oldest.
LEMMA FullOfTerminals ==
  ASSUME NEW S, NEW q \in Seq(S), Rises(q), ConstantsAssumption, Len(q) >= Capacity,
         \A x \in S : x.id \in Nat,
         \A i \in DOMAIN q : q[i].kind \in Terminal,
         NEW x \in S, x.kind \in Terminal, \A i \in DOMAIN q : q[i].id < x.id,
         NEW L, IsFiniteSet(L), Elements(q) \cup {x} \subseteq L
  PROVE  Cardinality({l \in L : l.kind \in Terminal /\ l.id > q[1].id}) >= Capacity
  <1> DEFINE n == Len(q)
             Later == {l \in L : l.kind \in Terminal /\ l.id > q[1].id}
             f == [j \in 1..n |-> IF j < n THEN q[j + 1] ELSE x]
  <1>1. n \in Nat /\ n >= 1 /\ DOMAIN q = 1..n /\ Capacity \in Nat /\ \A i \in 1..n : q[i] \in S
    BY DEF ConstantsAssumption
  <1>0. \A j \in 1..n : j < n \/ j = n
    <2> HIDE DEF n
    <2>1. QED BY <1>1
  <1>2. ASSUME NEW j \in 1..n
        PROVE  /\ f[j] \in Later
               /\ \A k \in 1..n : j < k => f[j].id < f[k].id
    <2>1. \A i, k \in 1..n : i < k => q[i].id < q[k].id
      BY <1>1 DEF Rises
    <2>2. CASE j < n
      <3>1. f[j] = q[j + 1] /\ j + 1 \in 1..n /\ 1 < j + 1 /\ 1 \in 1..n
        BY <2>2, <1>1
      <3>2. q[1].id < q[j + 1].id /\ q[1].id \in Nat /\ q[j + 1].id \in Nat
        BY <3>1, <2>1, <1>1
      <3>3. q[j + 1] \in L /\ q[j + 1].kind \in Terminal
        BY <3>1, <1>1 DEF Elements
      <3>4. ASSUME NEW k \in 1..n, j < k PROVE f[j].id < f[k].id
        <4>1. CASE k < n
          <5>1. f[k] = q[k + 1] /\ k + 1 \in 1..n /\ j + 1 < k + 1 BY <4>1, <3>4, <1>1
          <5>2. QED BY <5>1, <3>1, <2>1
        <4>2. CASE k = n
          <5>1. f[k] = x BY <4>2, <1>1
          <5>2. QED BY <5>1, <3>1, <1>1
        <4>3. k < n \/ k = n BY <1>0
        <4>4. QED BY <4>1, <4>2, <4>3
      <3>5. QED BY <3>1, <3>2, <3>3, <3>4
    <2>3. CASE j = n
      <3>1. f[j] = x BY <2>3, <1>1
      <3>2. q[1].id < x.id /\ q[1].id \in Nat /\ x.id \in Nat BY <1>1
      <3>3. \A k \in 1..n : ~(j < k) BY <2>3, <1>1
      <3>4. QED BY <3>1, <3>2, <3>3
    <2>4. j < n \/ j = n BY <1>0
    <2>5. QED BY <2>2, <2>3, <2>4
  <1> HIDE DEF f, Later
  <1>3. f \in [1..n -> Later]
    BY <1>2 DEF f
  <1>4. \A j, k \in 1..n : f[j] = f[k] => j = k
    <2>1. ASSUME NEW j \in 1..n, NEW k \in 1..n, j < k PROVE f[j] # f[k]
      <3>1. f[j].id < f[k].id BY <1>2, <2>1
      <3>2. f[j].id \in Nat /\ f[k].id \in Nat
        BY <1>1 DEF f
      <3>3. QED BY <3>1, <3>2
    <2>2. QED BY <2>1, <1>1
  <1>5. f \in Injection(1..n, Later)
    BY <1>3, <1>4 DEF Injection, IsInjective
  <1>6. IsFiniteSet(Later)
    BY FS_Subset DEF Later
  <1>7. Cardinality(1..n) <= Cardinality(Later) /\ Cardinality(1..n) = n
    BY <1>1, <1>5, <1>6, FS_Injection, FS_Interval
  <1>8. Cardinality(Later) \in Nat BY <1>6, FS_CardinalityType
  <1>9. Cardinality(Later) >= Capacity BY <1>1, <1>7, <1>8
  <1>10. QED BY <1>9 DEF Later

\* Terminal events survive every step.
LEMMA TerminalStep ==
  ASSUME TypeOK, TypeOK', LocalsFit, ConstantsAssumption, StreamsFit, StreamsFit', TerminalsSurvive,
         [Next]_vars
  PROVE  TerminalsSurvive'
  <1> SUFFICES ASSUME NEW r \in Sub, consumer'[r] = "listening",
                      NEW e \in offered'[r], e.kind \in Terminal
               PROVE  e \in InStream(r)' \/ Cardinality(LaterTerminals(r, e)') >= Capacity
    BY DEF TerminalsSurvive
  <1>a. /\ IsFiniteSet(offered'[r]) /\ PartsRise(r) /\ StreamIsOld(r)
        /\ InStream(r)' \subseteq offered'[r]
    BY DEF StreamsFit, StreamIsOld
  <1>b. /\ got[r] \in Seq(Event) /\ channel[r] \in Seq(Event) /\ hand[r] \in Seq(Event)
        /\ pending[r] \in Seq(Event) /\ Len(hand[r]) <= 1
    BY DEF TypeOK
  <1>d. consumer[r] # "gone"
    <2> USE DEF consumerVars
    <2>1. ASSUME NEW s \in Sub, Subscribe(s) \/ Leave(s) PROVE consumer[r] # "gone"
      BY <2>1 DEF Subscribe, Leave, TypeOK
    <2>2. ASSUME NEW s \in Sub, Receive(s) \/ Forward(s) \/ Offer(s) \/ Retry(s) \/ Keep(s)
          PROVE  consumer[r] # "gone"
      BY <2>2 DEF Receive, Forward, SpawnForwarder, Look, Wake, Send, Offer, Retry, Keep
    <2>3. CASE Store \/ Begin \/ Connect \/ EndConnection \/ Stop \/ Cancel
               \/ (\E k \in Kind : Read(k)) \/ UNCHANGED vars
      BY <2>3 DEF Store, Begin, Connect, EndConnection, Stop, Cancel, Read, vars
    <2>4. QED BY <2>1, <2>2, <2>3 DEF Next, Dispatch
  \* Where nothing is offered and nothing leaves the stream.
  <1>c. ASSUME offered'[r] = offered[r], InStream(r) \subseteq InStream(r)'
        PROVE  e \in InStream(r)' \/ Cardinality(LaterTerminals(r, e)') >= Capacity
    <2>1. CASE consumer[r] = "listening"
      <3>1. e \in InStream(r) \/ Cardinality(LaterTerminals(r, e)) >= Capacity
        BY <1>c, <2>1 DEF TerminalsSurvive
      <3>2. QED BY <3>1, <1>a, <1>c, LaterGrow
    <2>2. CASE consumer[r] = "none"
      BY <1>a, <1>c, <2>2 DEF StreamIsOld
    <2>3. QED BY <2>1, <2>2, <1>d DEF TypeOK
  <1> USE DEF dispatchVars, runVars, tableVars, queueVars, forwardVars, consumerVars
  <1>1. ASSUME NEW s \in Sub, Subscribe(s) \/ SpawnForwarder(s) \/ Wake(s)
        PROVE  e \in InStream(r)' \/ Cardinality(LaterTerminals(r, e)') >= Capacity
    BY <1>1, <1>c DEF Subscribe, SpawnForwarder, Wake, InStream
  <1>2. ASSUME NEW s \in Sub \ {r}, Receive(s) \/ Leave(s) \/ Look(s) \/ Send(s)
        PROVE  e \in InStream(r)' \/ Cardinality(LaterTerminals(r, e)') >= Capacity
    <2>1. UNCHANGED <<got[r], channel[r], hand[r], pending[r], offered[r]>>
      <3>1. CASE Receive(s) BY <1>2, <3>1 DEF TypeOK, Receive
      <3>2. CASE Leave(s) BY <1>2, <3>2 DEF TypeOK, Leave
      <3>3. CASE Look(s) BY <1>2, <3>3 DEF TypeOK, Look
      <3>4. CASE Send(s) BY <1>2, <3>4 DEF TypeOK, Send
      <3>5. QED BY <1>2, <3>1, <3>2, <3>3, <3>4
    <2>2. QED BY <2>1, <1>c DEF InStream
  <1>3. CASE Receive(r)
    <2> DEFINE h == Head(channel[r])
    <2>1. /\ got'[r] = Append(got[r], h) /\ channel'[r] = Tail(channel[r]) /\ channel[r] # <<>>
          /\ UNCHANGED <<hand, pending, offered>>
      BY <1>3 DEF Receive, TypeOK
    <2>2. Elements(channel[r]) = {h} \cup Elements(channel'[r]) /\ h \in Event
      BY <2>1, <1>b, TailOf
    <2> HIDE DEF h
    <2>3. Elements(got'[r]) = Elements(got[r]) \cup {h}
      BY <2>1, <2>2, <1>b, AppendOf
    <2>4. QED BY <2>1, <2>2, <2>3, <1>c DEF InStream
  <1>4. ~Leave(r)
    BY DEF Leave, TypeOK
  <1>5. CASE Look(r)
    <2>1. CASE pending[r] # <<>>
      <3> DEFINE h == Head(pending[r])
      <3>1. /\ hand'[r] = <<h>> /\ pending'[r] = Tail(pending[r])
            /\ UNCHANGED <<got, channel, offered>> /\ Len(hand[r]) # 1
        BY <1>5, <2>1 DEF Look, TypeOK, LocalsFit
      <3>2. Elements(pending[r]) = {h} \cup Elements(pending'[r])
        BY <2>1, <3>1, <1>b, TailOf
      <3> HIDE DEF h
      <3>3. h \in Elements(hand'[r])
        <4>1. 1 \in DOMAIN <<h>> /\ <<h>>[1] = h OBVIOUS
        <4>2. QED BY <3>1, <4>1 DEF Elements
      <3>4. Elements(hand[r]) = {} BY <3>1, <1>b, HandOf
      <3>5. QED BY <3>1, <3>2, <3>3, <3>4, <1>c DEF InStream
    <2>2. CASE pending[r] = <<>>
      BY <1>5, <2>2, <1>c DEF Look, InStream
    <2>3. QED BY <2>1, <2>2
  <1>6. CASE Send(r)
    <2>1. /\ channel'[r] = Append(channel[r], hand[r][1]) /\ Len(hand[r]) = 1
          /\ UNCHANGED <<got, pending, offered>>
      BY <1>6 DEF Send, TypeOK, LocalsFit
    <2>2. Elements(hand[r]) = {hand[r][1]} /\ hand[r][1] \in Event
      BY <2>1, <1>b, HandOf
    <2>3. Elements(channel'[r]) = Elements(channel[r]) \cup {hand[r][1]}
      BY <2>1, <2>2, <1>b, AppendOf
    <2>4. QED BY <2>1, <2>2, <2>3, <1>c DEF InStream
  <1>7. ASSUME NEW s \in Sub \ {r}, Offer(s) \/ Retry(s)
        PROVE  e \in InStream(r)' \/ Cardinality(LaterTerminals(r, e)') >= Capacity
    <2>1. UNCHANGED <<got, channel, hand, pending[r], offered[r]>>
      BY <1>7 DEF Offer, Retry, Push, NoteOffered, TypeOK
    <2>2. QED BY <2>1, <1>c DEF InStream
  \* The two steps that offer an event to r.  What was offered before counts
  \* on, unless it is the one that gives way now.
  <1>8. ASSUME offered'[r] = offered[r] \cup {event}, consumer[r] = "listening",
               InStream(r) \subseteq InStream(r)', event \in InStream(r)' \/ event.kind \notin Terminal
        PROVE  e \in InStream(r)' \/ Cardinality(LaterTerminals(r, e)') >= Capacity
    <2>1. CASE e = event BY <1>8, <2>1
    <2>2. CASE e # event
      <3>1. e \in InStream(r) \/ Cardinality(LaterTerminals(r, e)) >= Capacity
        BY <1>8, <2>2 DEF TerminalsSurvive
      <3>2. QED BY <3>1, <1>a, <1>8, LaterGrow
    <2>3. QED BY <2>1, <2>2
  <1>9. ASSUME Len(pending[r]) < Capacity, Push(r, pending[r]), event \in Event,
               UNCHANGED <<got, channel, hand, consumer>>
        PROVE  e \in InStream(r)' \/ Cardinality(LaterTerminals(r, e)') >= Capacity
    <2>1. pending'[r] = Append(pending[r], event) /\ offered'[r] = offered[r] \cup {event}
      BY <1>9, <1>b, Pushes
    <2>2. Elements(pending'[r]) = Elements(pending[r]) \cup {event}
      BY <2>1, <1>9, <1>b, AppendOf
    <2>3. InStream(r)' = InStream(r) \cup {event}
      BY <1>9, <2>2 DEF InStream
    <2>4. QED BY <1>9, <2>1, <2>3, <1>8
  <1>10. CASE Offer(r)
    <2>1. /\ UNCHANGED <<got, channel, hand, consumer>> /\ event \in Event
      BY <1>10 DEF Offer, LocalsFit, Dispatching
    <2>2. CASE Len(pending[r]) < Capacity /\ Push(r, pending[r])
      BY <2>1, <2>2, <1>9
    <2>3. CASE event.kind \notin Terminal /\ NoteOffered(r) /\ UNCHANGED pending
      <3>1. offered'[r] = offered[r] \cup {event} /\ InStream(r)' = InStream(r)
        BY <2>1, <2>3 DEF NoteOffered, InStream, TypeOK
      <3>2. QED BY <2>1, <2>3, <3>1, <1>8
    <2>4. CASE UNCHANGED queueVars
      BY <2>1, <2>4, <1>c DEF InStream
    <2>5. QED BY <1>10, <2>2, <2>3, <2>4 DEF Offer
  <1>11. CASE Retry(r)
    <2>1. /\ UNCHANGED <<got, channel, hand, consumer>> /\ event \in Event
          /\ run = "retry" /\ r \in current
      BY <1>11 DEF Retry, LocalsFit, Dispatching
    <2>2. CASE Len(pending[r]) < Capacity /\ Push(r, pending[r])
      BY <2>1, <2>2, <1>9
    <2>3. ASSUME Len(pending[r]) >= Capacity,
                 NEW i \in Victims(pending[r]), i \in 1..Len(pending[r]),
                 Without(pending[r], i) \in Seq(Event), Len(Without(pending[r], i)) < Capacity,
                 Push(r, Without(pending[r], i))
          PROVE  e \in InStream(r)' \/ Cardinality(LaterTerminals(r, e)') >= Capacity
      <3> DEFINE w == Without(pending[r], i)
      <3>1. /\ pending'[r] = Append(w, event) /\ offered'[r] = offered[r] \cup {event}
        BY <2>1, <2>3, Pushes
      <3>2. Elements(pending[r]) = Elements(w) \cup {pending[r][i]}
        BY <2>3, <1>b, WithoutOf
      <3>3. Elements(pending'[r]) = Elements(w) \cup {event}
        BY <2>1, <2>3, <3>1, AppendOf
      <3> HIDE DEF w
      <3>4. InStream(r) \cup {event} \subseteq InStream(r)' \cup {pending[r][i]}
        BY <2>1, <3>2, <3>3 DEF InStream
      <3>5. event \in InStream(r)'
        BY <3>3 DEF InStream
      <3>6. CASE e = event \/ e # pending[r][i] \/ e \in InStream(r)'
        <4>1. CASE e # event /\ e # pending[r][i]
          <5>1. e \in InStream(r) \/ Cardinality(LaterTerminals(r, e)) >= Capacity
            BY <2>1, <3>1, <4>1 DEF TerminalsSurvive
          <5>2. QED BY <3>1, <3>4, <4>1, <5>1, <1>a, LaterGrow
        <4>2. QED BY <3>5, <3>6, <4>1
      <3>7. CASE e = pending[r][i] /\ e # event
        <4>1. \A j \in DOMAIN pending[r] : pending[r][j].kind \in Terminal
          BY <2>3, <3>7 DEF Victims
        <4>2. i = 1
          BY <2>3, <4>1 DEF Victims
        <4>3. event.kind \in Terminal
          BY <2>1 DEF LocalsFit
        <4>4. Elements(pending[r]) \subseteq InStream(r) /\ DOMAIN pending[r] = 1..Len(pending[r])
          BY <1>b DEF InStream
        <4>5. \A j \in DOMAIN pending[r] : pending[r][j].id < event.id
          <5>1. Unoffered(r) BY <2>1 DEF Unoffered
          <5>2. \A x \in Elements(pending[r]) : x.id < event.id
            BY <4>4, <5>1, <1>a DEF StreamIsOld
          <5>3. QED BY <5>2 DEF Elements
        <4>6. Elements(pending[r]) \cup {event} \subseteq offered'[r]
          BY <3>1, <4>4, <1>a, <1>d DEF StreamIsOld
        <4>7. Rises(pending[r]) BY <1>a DEF PartsRise
        <4>8. Cardinality({l \in offered'[r] : l.kind \in Terminal /\ l.id > pending[r][1].id}) >= Capacity
          <5>1. \A x \in Event : x.id \in Nat BY Ids
          <5>2. /\ pending[r] \in Seq(Event) /\ Rises(pending[r]) /\ Len(pending[r]) >= Capacity
                /\ event \in Event /\ event.kind \in Terminal /\ IsFiniteSet(offered'[r])
                /\ Elements(pending[r]) \cup {event} \subseteq offered'[r]
            BY <2>1, <2>3, <4>3, <4>6, <4>7, <1>a, <1>b
          <5>3. QED BY <4>1, <4>5, <5>1, <5>2, ConstantsAssumption, FullOfTerminals
        <4>9. QED BY <3>7, <4>2, <4>8 DEF LaterTerminals
      <3>8. QED BY <3>6, <3>7
    <2>4. QED BY <1>11, <2>2, <2>3, Retries
  <1>12. CASE (\E s \in Sub : Keep(s)) \/ Store \/ Begin \/ Connect \/ EndConnection \/ Stop \/ Cancel
              \/ (\E k \in Kind : Read(k)) \/ UNCHANGED vars
    <2>1. UNCHANGED <<got, channel, hand, pending, offered>>
      BY <1>12 DEF Keep, Store, Begin, Connect, EndConnection, Stop, Cancel, Read, vars
    <2>2. QED BY <2>1, <1>c DEF InStream
  <1>13. QED
    BY <1>1, <1>2, <1>3, <1>4, <1>5, <1>6, <1>7, <1>10, <1>11, <1>12 DEF Next, Forward, Dispatch

-----------------------------------------------------------------------------
(* Theorems.                                                                *)

IInv ==
  /\ TypeOK /\ LocalsFit
  /\ CopyCoversTable /\ EarlySubscribersStay
  /\ StreamsFit /\ TerminalsSurvive

LEMMA InitHolds ==
  ASSUME ConstantsAssumption, Init
  PROVE  IInv
  <1>1. TypeOK
    <2>1. <<>> \in Seq(Event) /\ Len(<<>>) = 0 OBVIOUS
    <2>2. 0 <= Capacity /\ 0 \in 0..MaxEvent /\ event.id = 0
      BY DEF Init, ConstantsAssumption
    <2>3. event.id \in 0..MaxEvent /\ (event.id > 0 => event \in Event)
      BY <2>2
    <2>4. /\ pending \in [Sub -> Seq(Event)] /\ \A s \in Sub : Len(pending[s]) <= Capacity
          /\ channel \in [Sub -> Seq(Event)] /\ \A s \in Sub : Len(channel[s]) <= Capacity
          /\ hand \in [Sub -> Seq(Event)] /\ \A s \in Sub : Len(hand[s]) <= 1
          /\ got \in [Sub -> Seq(Event)]
      BY <2>1, <2>2 DEF Init
    <2>5. /\ permit \in [Sub -> BOOLEAN] /\ closed \in [Sub -> BOOLEAN]
          /\ forwarder \in [Sub -> {"off", "look", "wait", "send", "stopped"}]
          /\ consumer \in [Sub -> {"none", "listening", "gone"}]
          /\ offered \in [Sub -> SUBSET Event] /\ cancelled \in BOOLEAN
      BY DEF Init
    <2>6. /\ run \in RunPhase /\ asked \subseteq Topic
          /\ todo \subseteq Sub /\ active \subseteq Sub /\ current \subseteq Sub
          /\ table \subseteq Sub /\ late \subseteq Sub
      BY DEF Init, RunPhase
    <2>7. QED BY <2>3, <2>4, <2>5, <2>6 DEF TypeOK
  <1>2. LocalsFit
    BY DEF Init, LocalsFit, Dispatching
  <1>3. CopyCoversTable /\ EarlySubscribersStay
    BY DEF Init, CopyCoversTable, EarlySubscribersStay
  <1>4. StreamsFit
    <2>1. Elements(<<>>) = {} /\ Rises(<<>>) BY DEF Elements, Rises
    <2>2. SUFFICES ASSUME NEW s \in Sub PROVE PartsRise(s) /\ StreamIsOld(s)
      BY DEF StreamsFit
    <2>3. /\ got[s] = <<>> /\ channel[s] = <<>> /\ hand[s] = <<>> /\ pending[s] = <<>>
          /\ offered[s] = {}
      BY DEF Init
    <2>4. PartsRise(s) BY <2>1, <2>3 DEF PartsRise, Precedes
    <2>5. StreamIsOld(s) BY <2>1, <2>3, FS_EmptySet DEF StreamIsOld, InStream
    <2>6. QED BY <2>4, <2>5
  <1>5. TerminalsSurvive
    BY DEF Init, TerminalsSurvive
  <1>6. QED BY <1>1, <1>2, <1>3, <1>4, <1>5 DEF IInv

\* Every reachable state satisfies the invariant: types and locals, the copied
\* table covers the table, streams rise and are older than what is offered.
THEOREM Invariance == Spec => []IInv
  <1>1. Init => IInv BY InitHolds, ConstantsAssumption
  <1>2. IInv /\ [Next]_vars => IInv'
    <2>1. SUFFICES ASSUME IInv, [Next]_vars PROVE IInv'
      OBVIOUS
    <2>2. TypeOK' /\ LocalsFit' BY <2>1, ConstantsAssumption, FitStep DEF IInv
    <2>3. CopyCoversTable' /\ EarlySubscribersStay' BY <2>1, TableStep DEF IInv
    <2>4. StreamsFit' BY <2>1, <2>2, ConstantsAssumption, StreamStep DEF IInv
    <2>5. TerminalsSurvive' BY <2>1, <2>2, <2>4, ConstantsAssumption, TerminalStep DEF IInv
    <2>6. QED BY <2>2, <2>3, <2>4, <2>5 DEF IInv
  <1>3. QED BY <1>1, <1>2, PTL DEF Spec

\* Every variable keeps its type; no queue and no channel exceeds its capacity.
THEOREM TypeCorrect == Spec => []TypeOK
  <1>1. IInv => TypeOK BY DEF IInv
  <1>2. QED BY <1>1, Invariance, PTL

\* dispatch_event loses only closed subscribers and those that came meanwhile.
THEOREM EarlySubscribersAreKept == Spec => []EarlySubscribersStay
  <1>1. IInv => EarlySubscribersStay BY DEF IInv
  <1>2. QED BY <1>1, Invariance, PTL

\* Streams keep the daemon's order.
THEOREM StreamsKeepOrder == Spec => []OrderKept
  <1>1. IInv => OrderKept
    <2>1. SUFFICES ASSUME IInv, NEW s \in Sub PROVE Rises(Stream(s))
      BY DEF OrderKept
    <2>2. /\ got[s] \in Seq(Event) /\ channel[s] \in Seq(Event) /\ hand[s] \in Seq(Event)
          /\ pending[s] \in Seq(Event) /\ PartsRise(s)
      BY <2>1 DEF IInv, TypeOK, StreamsFit
    <2> DEFINE a == got[s] \o channel[s]
               b == a \o hand[s]
    <2>3. a \in Seq(Event) /\ Rises(a) /\ Elements(a) = Elements(got[s]) \cup Elements(channel[s])
      BY <2>2, ConcatOf DEF PartsRise
    <2>4. Stream(s) = b \o pending[s] BY DEF Stream
    <2> HIDE DEF a
    <2>5. Precedes(a, hand[s]) BY <2>2, <2>3 DEF PartsRise, Precedes
    <2>6. b \in Seq(Event) /\ Rises(b) /\ Elements(b) = Elements(a) \cup Elements(hand[s])
      BY <2>2, <2>3, <2>5, ConcatOf DEF PartsRise
    <2> HIDE DEF b
    <2>7. Precedes(b, pending[s]) BY <2>2, <2>3, <2>6 DEF PartsRise, Precedes
    <2>8. Rises(b \o pending[s]) BY <2>2, <2>6, <2>7, ConcatOf DEF PartsRise
    <2>9. QED BY <2>4, <2>8
  <1>2. QED BY <1>1, Invariance, PTL

\* Terminal events give way to terminal events only.
THEOREM TerminalsAreKept == Spec => []TerminalsSurvive
  <1>1. IInv => TerminalsSurvive BY DEF IInv
  <1>2. QED BY <1>1, Invariance, PTL

-----------------------------------------------------------------------------
(* What a connection asks for.                                              *)

\* Nobody who listens is marked as closed.
LEMMA ClosedStep ==
  ASSUME TypeOK, ClosedAreGone, [Next]_vars
  PROVE  ClosedAreGone'
  <1> USE DEF TypeOK, ClosedAreGone, runVars, dispatchVars, tableVars, queueVars, forwardVars, consumerVars
  <1>1. ASSUME NEW s \in Sub, Subscribe(s) \/ Receive(s) \/ Leave(s) PROVE ClosedAreGone'
    BY <1>1 DEF Subscribe, Receive, Leave
  <1>2. ASSUME NEW s \in Sub, Forward(s) PROVE ClosedAreGone'
    BY <1>2 DEF Forward, SpawnForwarder, Look, Wake, Send
  <1>3. CASE Dispatch
    BY <1>3 DEF Dispatch, Store, Offer, Retry, Keep
  <1>4. CASE Begin \/ Connect \/ (\E k \in Kind : Read(k)) \/ EndConnection \/ Stop \/ Cancel
    BY <1>4 DEF Begin, Connect, Read, EndConnection, Stop, Cancel
  <1>5. CASE UNCHANGED vars
    BY <1>5 DEF vars
  <1>6. QED BY <1>1, <1>2, <1>3, <1>4, <1>5 DEF Next

\* A connection asks for what is in the table.
LEMMA AskedAtBegin ==
  ASSUME [Next]_vars, run = "top", run' = "connect"
  PROVE  asked' = UNION {Topics[s] : s \in table}
  <1> USE DEF runVars, dispatchVars, tableVars, queueVars, forwardVars, consumerVars, Dispatching
  <1>1. ASSUME NEW s \in Sub, Subscribe(s) \/ Receive(s) \/ Leave(s) \/ Forward(s) PROVE FALSE
    BY <1>1 DEF Subscribe, Receive, Leave, Forward, SpawnForwarder, Look, Wake, Send
  <1>2. CASE Dispatch
    BY <1>2 DEF Dispatch, Store, Offer, Retry, Keep
  <1>3. CASE Connect \/ (\E k \in Kind : Read(k)) \/ EndConnection \/ Stop \/ Cancel
    BY <1>3 DEF Connect, Read, EndConnection, Stop, Cancel
  <1>4. CASE Begin
    BY <1>4 DEF Begin
  <1>5. CASE UNCHANGED vars
    BY <1>5 DEF vars
  <1>6. QED BY <1>1, <1>2, <1>3, <1>4, <1>5 DEF Next

\* Who is late came during a dispatch.
LEMMA NobodyLate ==
  ASSUME late = {}, [Next]_vars, [OutsideDispatches]_vars
  PROVE  late' = {}
  <1> USE DEF runVars, dispatchVars, tableVars, queueVars, forwardVars, consumerVars
  <1>1. ASSUME NEW s \in Sub, Subscribe(s) PROVE late' = {}
    BY <1>1 DEF OutsideDispatches, Subscribe, vars
  <1>2. ASSUME NEW s \in Sub, Receive(s) \/ Leave(s) \/ Forward(s) PROVE late' = {}
    BY <1>2 DEF Receive, Leave, Forward, SpawnForwarder, Look, Wake, Send
  <1>3. CASE Dispatch
    BY <1>3 DEF Dispatch, Store, Offer, Retry, Keep
  <1>4. CASE Begin \/ Connect \/ (\E k \in Kind : Read(k)) \/ EndConnection \/ Stop \/ Cancel
    BY <1>4 DEF Begin, Connect, Read, EndConnection, Stop, Cancel
  <1>5. CASE UNCHANGED vars
    BY <1>5 DEF vars
  <1>6. QED BY <1>1, <1>2, <1>3, <1>4, <1>5 DEF Next

\* A connection asks for the topics of everyone who listens when its cycle begins
\* and who did not come during a dispatch, after any number of dispatches,
\* reconnections and departures (run, topics_union).
THEOREM EarlyTopicsAreRestored == Spec => ReconnectRestoresEarlyTopics
  <1>1. Init => ClosedAreGone
    BY DEF Init, ClosedAreGone
  <1>2. EarlySubscribersStay /\ ClosedAreGone /\ [Next]_vars
        => [run = "top" /\ run' = "connect" =>
              \A s \in Sub : consumer[s] = "listening" /\ s \notin late
                             => Topics[s] \subseteq asked']_vars
    BY AskedAtBegin DEF EarlySubscribersStay, ClosedAreGone
  <1>3. QED
    BY <1>1, <1>2, ClosedStep, TypeCorrect, EarlySubscribersAreKept, PTL
    DEF Spec, ReconnectRestoresEarlyTopics

\* The overwrite at the end of a dispatch is the only thing that keeps a
\* reconnection from restoring the topics: where nobody subscribes during one,
\* "reconnect restores active topics automatically".
THEOREM OnlyLatecomersAreForgotten ==
  Spec /\ SubscribesBetweenDispatches => ReconnectRestoresTopics
  <1>1. Init => late = {}
    BY DEF Init
  <1>2. late = {} /\ [run = "top" /\ run' = "connect" =>
              \A s \in Sub : consumer[s] = "listening" /\ s \notin late
                             => Topics[s] \subseteq asked']_vars
        => [run = "top" /\ run' = "connect" =>
              \A s \in Sub : consumer[s] = "listening" => Topics[s] \subseteq asked']_vars
    OBVIOUS
  <1>3. late = {} /\ [Next]_vars /\ [OutsideDispatches]_vars
        => (late = {})'
    BY NobodyLate
  <1>4. Spec /\ SubscribesBetweenDispatches => [](late = {})
    BY <1>1, <1>3, PTL DEF Spec, SubscribesBetweenDispatches
  <1>5. QED
    BY <1>2, <1>4, EarlyTopicsAreRestored, PTL
    DEF ReconnectRestoresEarlyTopics, ReconnectRestoresTopics

-----------------------------------------------------------------------------
(* The other end of the socket.  A connection of the daemon shares nothing   *)
(* with the bridge but the frames, so it stands here as an instance: for any *)
(* sizes, the types, and that a heartbeat whose interval is shorter than its *)
(* timeout never finds a connection stale.                                   *)

CONSTANTS Interval, Timeout, MaxLate, Suspends, OutboundSize, ControlSize,
          SocketSize, Snapshots, MaxRequests, MaxEvents

VARIABLES client, inbox, parting, socket, outbound, control, recv, left, fanout, send,
          heartbeat, stale, tickIn, deadlineIn, nrequests, nevents

Connection == INSTANCE WsConnection

\* A queue of control messages, written and read.
LEMMA ControlQueue ==
  ASSUME NEW q \in Seq({"ping", "close"})
  PROVE  /\ Len(q) \in Nat
         /\ \A e \in {"ping", "close"} :
              Append(q, e) \in Seq({"ping", "close"}) /\ Len(Append(q, e)) = Len(q) + 1
         /\ q # <<>> => /\ Head(q) \in {"ping", "close"}
                        /\ Tail(q) \in Seq({"ping", "close"}) /\ Len(Tail(q)) = Len(q) - 1
  OBVIOUS

\* Every connection keeps within its channels and clocks.
THEOREM ConnectionTypes ==
  ASSUME Connection!ConstantsFit
  PROVE  Connection!Spec => []Connection!TypeOK
  <1> USE DEF Connection!ConstantsFit
  <1>1. Connection!Init => Connection!TypeOK
    <2>1. <<>> \in Seq({"ping", "close"}) /\ Len(<<>>) = 0
      OBVIOUS
    <2>2. ASSUME Connection!Init PROVE control \in Seq({"ping", "close"}) /\ Len(control) <= ControlSize
      BY <2>1, <2>2 DEF Connection!Init
    <2>3. ASSUME Connection!Init PROVE tickIn \in -MaxLate..Interval /\ deadlineIn \in 0..Timeout
      BY <2>3 DEF Connection!Init
    <2>4. SUFFICES ASSUME Connection!Init PROVE Connection!TypeOK
      OBVIOUS
    <2>5. /\ nrequests \in 0..MaxRequests /\ inbox \in 0..nrequests /\ nevents \in 0..MaxEvents
          /\ socket \in 0..SocketSize /\ outbound \in 0..OutboundSize /\ left \in 0..Snapshots
      BY <2>4 DEF Connection!Init
    <2>6. QED BY <2>2, <2>3, <2>4, <2>5 DEF Connection!Init, Connection!TypeOK
  <1>2. Connection!TypeOK /\ [Connection!Next]_(Connection!vars) => Connection!TypeOK'
    <2> SUFFICES ASSUME Connection!TypeOK, [Connection!Next]_(Connection!vars) PROVE Connection!TypeOK'
      OBVIOUS
    <2> USE DEF Connection!vars, Connection!clientVars, Connection!heartbeatVars, Connection!fanoutVars, Connection!Refused, Connection!OutboundRoom, Connection!ControlRoom
    <2>1. CASE Connection!ClientAsks
      BY <2>1 DEF Connection!ClientAsks, Connection!TypeOK
    <2>2. CASE Connection!ClientReads
      BY <2>2 DEF Connection!ClientReads, Connection!TypeOK
    <2>2a. CASE Connection!ClientParts
      BY <2>2a DEF Connection!ClientParts, Connection!TypeOK
    <2>3. CASE Connection!ClientTurns
      BY <2>3 DEF Connection!ClientTurns, Connection!TypeOK
    <2>4. CASE Connection!FanIn
      BY <2>4 DEF Connection!FanIn, Connection!TypeOK
    <2>5. CASE Connection!FanPut
      BY <2>5 DEF Connection!FanPut, Connection!TypeOK
    <2>6. CASE Connection!Tick
      BY <2>6 DEF Connection!Tick, Connection!NextTick, Connection!TypeOK
    <2>7. CASE Connection!SendPing
      BY <2>7, ControlQueue DEF Connection!SendPing, Connection!TypeOK
    <2>8. CASE Connection!Deadline
      BY <2>8 DEF Connection!Deadline, Connection!TypeOK
    <2>9. CASE Connection!Pass
      BY <2>9 DEF Connection!Pass, Connection!TypeOK
    <2>10. CASE Connection!Suspend
      BY <2>10 DEF Connection!Suspend, Connection!TypeOK
    <2>11. CASE Connection!TakeEvent
      BY <2>11 DEF Connection!TakeEvent, Connection!TypeOK
    <2>12. CASE Connection!TakeControl
      BY <2>12, ControlQueue DEF Connection!TakeControl, Connection!TypeOK
    <2>13. CASE Connection!WriteFrame
      BY <2>13 DEF Connection!WriteFrame, Connection!SocketRefuses, Connection!TypeOK
    <2>14. CASE Connection!HangUp
      BY <2>14 DEF Connection!HangUp, Connection!SendersGone, Connection!TypeOK
    <2>15. CASE Connection!ReceiveRequest
      BY <2>15 DEF Connection!ReceiveRequest, Connection!TypeOK
    <2>16. CASE Connection!SendSnapshot
      BY <2>16 DEF Connection!SendSnapshot, Connection!TypeOK
    <2>17. CASE Connection!ReceiveEnd
      BY <2>17 DEF Connection!ReceiveEnd, Connection!TypeOK
    <2>18. CASE Connection!ReceiveStale
      BY <2>18 DEF Connection!ReceiveStale, Connection!TypeOK
    <2>19. CASE Connection!RequestClose
      BY <2>19, ControlQueue DEF Connection!RequestClose, Connection!TypeOK
    <2>20. CASE Connection!Cleanup
      BY <2>20 DEF Connection!Cleanup, Connection!TypeOK
    <2>21. CASE Connection!Release
      BY <2>21 DEF Connection!Release, Connection!TypeOK
    <2>22. CASE UNCHANGED Connection!vars
      BY <2>22 DEF Connection!TypeOK
    <2>23. QED
      BY <2>1, <2>2, <2>2a, <2>3, <2>4, <2>5, <2>6, <2>7, <2>8, <2>9, <2>10, <2>11, <2>12, <2>13, <2>14, <2>15, <2>16, <2>17, <2>18, <2>19, <2>20, <2>21, <2>22 DEF Connection!Next, Connection!Sending, Connection!Receiving
  <1>3. QED BY <1>1, <1>2, PTL DEF Connection!Spec

\* While a pong is awaited, the next tick comes before the deadline.
TickFirst ==
  /\ Connection!HeartbeatIsSilent
  /\ heartbeat = "wait" => tickIn < deadlineIn /\ deadlineIn > 0

\* With the constants of the code (30 s and 40 s) and a clock that does not leap,
\* the stale signal is never sent, whatever the client does.
THEOREM SilentHeartbeat ==
  ASSUME Connection!ConstantsFit, Interval < Timeout, Suspends = FALSE
  PROVE  Connection!Spec => []Connection!HeartbeatIsSilent
  <1> USE DEF Connection!ConstantsFit
  <1>1. Connection!Init => TickFirst
    BY DEF Connection!Init, TickFirst, Connection!HeartbeatIsSilent
  <1>2. Connection!TypeOK /\ TickFirst /\ [Connection!Next]_(Connection!vars) => TickFirst'
    <2> SUFFICES ASSUME Connection!TypeOK, TickFirst, [Connection!Next]_(Connection!vars) PROVE TickFirst'
      OBVIOUS
    <2> USE DEF Connection!vars, Connection!clientVars, Connection!heartbeatVars, Connection!fanoutVars, TickFirst, Connection!HeartbeatIsSilent
    <2>1. CASE Connection!ClientAsks
      BY <2>1 DEF Connection!ClientAsks
    <2>2. CASE Connection!ClientReads
      BY <2>2 DEF Connection!ClientReads
    <2>2a. CASE Connection!ClientParts
      BY <2>2a DEF Connection!ClientParts
    <2>3. CASE Connection!ClientTurns
      BY <2>3 DEF Connection!ClientTurns
    <2>4. CASE Connection!FanIn
      BY <2>4 DEF Connection!FanIn
    <2>5. CASE Connection!FanPut
      BY <2>5 DEF Connection!FanPut
    <2>6. CASE Connection!Tick
      BY <2>6 DEF Connection!Tick, Connection!NextTick
    <2>7. CASE Connection!SendPing
      BY <2>7 DEF Connection!SendPing, Connection!TypeOK
    <2>8. CASE Connection!Deadline
      BY <2>8 DEF Connection!Deadline, Connection!TypeOK
    <2>9. CASE Connection!Pass
      BY <2>9 DEF Connection!Pass, Connection!TypeOK
    <2>10. CASE Connection!Suspend
      BY <2>10 DEF Connection!Suspend
    <2>11. CASE Connection!TakeEvent
      BY <2>11 DEF Connection!TakeEvent
    <2>12. CASE Connection!TakeControl
      BY <2>12 DEF Connection!TakeControl
    <2>13. CASE Connection!WriteFrame
      BY <2>13 DEF Connection!WriteFrame, Connection!SocketRefuses
    <2>14. CASE Connection!HangUp
      BY <2>14 DEF Connection!HangUp
    <2>15. CASE Connection!ReceiveRequest
      BY <2>15 DEF Connection!ReceiveRequest
    <2>16. CASE Connection!SendSnapshot
      BY <2>16 DEF Connection!SendSnapshot
    <2>17. CASE Connection!ReceiveEnd
      BY <2>17 DEF Connection!ReceiveEnd
    <2>18. CASE Connection!ReceiveStale
      BY <2>18 DEF Connection!ReceiveStale
    <2>19. CASE Connection!RequestClose
      BY <2>19 DEF Connection!RequestClose
    <2>20. CASE Connection!Cleanup
      BY <2>20 DEF Connection!Cleanup
    <2>21. CASE Connection!Release
      BY <2>21 DEF Connection!Release
    <2>22. CASE UNCHANGED Connection!vars
      BY <2>22
    <2>23. QED
      BY <2>1, <2>2, <2>2a, <2>3, <2>4, <2>5, <2>6, <2>7, <2>8, <2>9, <2>10, <2>11, <2>12, <2>13, <2>14, <2>15, <2>16, <2>17, <2>18, <2>19, <2>20, <2>21, <2>22 DEF Connection!Next, Connection!Sending, Connection!Receiving
  <1>3. TickFirst => Connection!HeartbeatIsSilent
    BY DEF TickFirst
  <1>4. QED BY <1>1, <1>2, <1>3, ConnectionTypes, PTL DEF Connection!Spec

\* What the receive loop has ended before it waits for the send task.
TasksEnd ==
  /\ recv \in {"await", "ended"} => fanout = "ended" /\ heartbeat = "ended"
  /\ recv = "ended" => send = "ended"

\* The lease is given back only when every task of the connection has ended,
\* whoever ended first and whatever the channels still held (ws.rs).
THEOREM LeaseIsLast ==
  ASSUME Connection!ConstantsFit
  PROVE  Connection!Spec => []Connection!LeaseOutlivesTasks
  <1>1. Connection!Init => TasksEnd
    BY DEF Connection!Init, TasksEnd
  <1>2. TasksEnd /\ [Connection!Next]_(Connection!vars) => TasksEnd'
    <2> SUFFICES ASSUME TasksEnd, [Connection!Next]_(Connection!vars) PROVE TasksEnd'
      OBVIOUS
    <2> USE DEF TasksEnd, Connection!vars, Connection!clientVars, Connection!heartbeatVars, Connection!fanoutVars
    <2>1. CASE Connection!ClientAsks
      BY <2>1 DEF Connection!ClientAsks
    <2>2. CASE Connection!ClientReads
      BY <2>2 DEF Connection!ClientReads
    <2>2a. CASE Connection!ClientParts
      BY <2>2a DEF Connection!ClientParts
    <2>3. CASE Connection!ClientTurns
      BY <2>3 DEF Connection!ClientTurns
    <2>4. CASE Connection!FanIn
      BY <2>4 DEF Connection!FanIn
    <2>5. CASE Connection!FanPut
      BY <2>5 DEF Connection!FanPut
    <2>6. CASE Connection!Tick
      BY <2>6 DEF Connection!Tick
    <2>7. CASE Connection!SendPing
      BY <2>7 DEF Connection!SendPing
    <2>8. CASE Connection!Deadline
      BY <2>8 DEF Connection!Deadline
    <2>9. CASE Connection!Pass
      BY <2>9 DEF Connection!Pass
    <2>10. CASE Connection!Suspend
      BY <2>10 DEF Connection!Suspend
    <2>11. CASE Connection!TakeEvent
      BY <2>11 DEF Connection!TakeEvent
    <2>12. CASE Connection!TakeControl
      BY <2>12 DEF Connection!TakeControl
    <2>13. CASE Connection!WriteFrame
      BY <2>13 DEF Connection!WriteFrame, Connection!SocketRefuses
    <2>14. CASE Connection!HangUp
      BY <2>14 DEF Connection!HangUp
    <2>15. CASE Connection!ReceiveRequest
      BY <2>15 DEF Connection!ReceiveRequest
    <2>16. CASE Connection!SendSnapshot
      BY <2>16 DEF Connection!SendSnapshot
    <2>17. CASE Connection!ReceiveEnd
      BY <2>17 DEF Connection!ReceiveEnd
    <2>18. CASE Connection!ReceiveStale
      BY <2>18 DEF Connection!ReceiveStale
    <2>19. CASE Connection!RequestClose
      BY <2>19 DEF Connection!RequestClose
    <2>20. CASE Connection!Cleanup
      BY <2>20 DEF Connection!Cleanup
    <2>21. CASE Connection!Release
      BY <2>21 DEF Connection!Release
    <2>22. CASE UNCHANGED Connection!vars
      BY <2>22
    <2>23. QED
      BY <2>1, <2>2, <2>2a, <2>3, <2>4, <2>5, <2>6, <2>7, <2>8, <2>9, <2>10, <2>11, <2>12, <2>13, <2>14, <2>15, <2>16, <2>17, <2>18, <2>19, <2>20, <2>21, <2>22
      DEF Connection!Next, Connection!Sending, Connection!Receiving
  <1>3. TasksEnd => Connection!LeaseOutlivesTasks
    BY DEF TasksEnd, Connection!LeaseOutlivesTasks
  <1>4. QED BY <1>1, <1>2, <1>3, PTL DEF Connection!Spec

\* Nobody has asked for a close frame.
NoCloseAsked == send # "close" /\ \A i \in 1..Len(control) : control[i] # "close"

\* With the constants of the code and a clock that does not leap, a connection is
\* given up for a client that is gone, or has sent a close frame or a payload that
\* cannot be parsed, and for no other: a client that only falls mute keeps its lease
\* for as long as its socket stands.
THEOREM MuteKeepsItsLease ==
  ASSUME Connection!ConstantsFit, Interval < Timeout, Suspends = FALSE
  PROVE  Connection!Spec => []Connection!OnlyTheGoneAreReleased
  <1> DEFINE Inv == NoCloseAsked /\ Connection!OnlyTheGoneAreReleased
  <1> USE DEF NoCloseAsked, Connection!OnlyTheGoneAreReleased
  <1>1. Connection!Init => Inv
    BY DEF Connection!Init
  <1>2. /\ Connection!TypeOK /\ Connection!HeartbeatIsSilent
        /\ Connection!HeartbeatIsSilent' /\ Inv
        /\ [Connection!Next]_(Connection!vars)
        => Inv'
    <2> SUFFICES ASSUME Connection!TypeOK, Connection!HeartbeatIsSilent,
                        Connection!HeartbeatIsSilent', Inv,
                        [Connection!Next]_(Connection!vars)
                 PROVE  Inv'
      OBVIOUS
    <2> USE DEF Connection!HeartbeatIsSilent, Connection!Refused, Connection!vars, Connection!clientVars, Connection!heartbeatVars, Connection!fanoutVars
    <2>1. CASE Connection!ClientAsks
      BY <2>1 DEF Connection!ClientAsks
    <2>2. CASE Connection!ClientReads
      BY <2>2 DEF Connection!ClientReads
    <2>2a. CASE Connection!ClientParts
      BY <2>2a DEF Connection!ClientParts
    <2>3. CASE Connection!ClientTurns
      BY <2>3 DEF Connection!ClientTurns
    <2>4. CASE Connection!FanIn
      BY <2>4 DEF Connection!FanIn
    <2>5. CASE Connection!FanPut
      BY <2>5 DEF Connection!FanPut
    <2>6. CASE Connection!Tick
      BY <2>6 DEF Connection!Tick
    <2>7. CASE Connection!SendPing
      <3>1. control \in Seq({"ping", "close"})
        BY DEF Connection!TypeOK
      <3>2. \A i \in 1..Len(Append(control, "ping")) : Append(control, "ping")[i] # "close"
        BY <3>1
      <3>3. NoCloseAsked'
        BY <2>7, <3>2 DEF Connection!SendPing
      <3>4. Connection!OnlyTheGoneAreReleased'
        BY <2>7 DEF Connection!SendPing
      <3>5. QED BY <3>3, <3>4
    <2>8. CASE Connection!Deadline
      BY <2>8 DEF Connection!Deadline
    <2>9. CASE Connection!Pass
      BY <2>9 DEF Connection!Pass
    <2>10. CASE Connection!Suspend
      BY <2>10 DEF Connection!Suspend
    <2>11. CASE Connection!TakeEvent
      BY <2>11 DEF Connection!TakeEvent
    <2>12. CASE Connection!TakeControl
      <3>1. control \in Seq({"ping", "close"}) /\ control # <<>>
        BY <2>12 DEF Connection!TypeOK, Connection!TakeControl
      <3>2. Head(control) # "close" /\ \A i \in 1..Len(Tail(control)) : Tail(control)[i] # "close"
        BY <3>1
      <3>3. Head(control) # "ended"
        BY <3>1
      <3>4. QED BY <2>12, <3>2, <3>3 DEF Connection!TakeControl
    <2>13. CASE Connection!WriteFrame
      BY <2>13 DEF Connection!WriteFrame, Connection!SocketRefuses
    <2>14. CASE Connection!HangUp
      BY <2>14 DEF Connection!HangUp, Connection!SendersGone
    <2>15. CASE Connection!ReceiveRequest
      BY <2>15 DEF Connection!ReceiveRequest
    <2>16. CASE Connection!SendSnapshot
      BY <2>16 DEF Connection!SendSnapshot
    <2>17. CASE Connection!ReceiveEnd
      BY <2>17 DEF Connection!ReceiveEnd
    <2>18. CASE Connection!ReceiveStale
      BY <2>18 DEF Connection!ReceiveStale
    <2>19. CASE Connection!RequestClose
      BY <2>19 DEF Connection!RequestClose
    <2>20. CASE Connection!Cleanup
      BY <2>20 DEF Connection!Cleanup
    <2>21. CASE Connection!Release
      BY <2>21 DEF Connection!Release
    <2>22. CASE UNCHANGED Connection!vars
      BY <2>22
    <2>23. QED
      BY <2>1, <2>2, <2>2a, <2>3, <2>4, <2>5, <2>6, <2>7, <2>8, <2>9, <2>10, <2>11, <2>12, <2>13, <2>14, <2>15, <2>16, <2>17, <2>18, <2>19, <2>20, <2>21, <2>22
      DEF Connection!Next, Connection!Sending, Connection!Receiving
  <1>3. QED
    BY <1>1, <1>2, ConnectionTypes, SilentHeartbeat, PTL DEF Connection!Spec

=============================================================================
