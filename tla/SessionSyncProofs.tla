-------------------------- MODULE SessionSyncProofs --------------------------
(***************************************************************************)
(* Proofs about SessionSync, for any files, strokes, forced syncs and      *)
(* connections.                                                            *)
(***************************************************************************)
EXTENDS SessionSync, TLAPS

-----------------------------------------------------------------------------
(* Peers and queues. *)

LEMMA Peers ==
    /\ \A x \in Peer : Other(x) \in Peer /\ Other(x) # x /\ Other(Other(x)) = x
    /\ \A x, y \in Peer : y = x \/ y = Other(x)
    /\ "host" \in Peer /\ "guest" \in Peer /\ Other("host") = "guest" /\ Other("guest") = "host"
BY DEF Peer, Other

\* A queue with a message at its end.
LEMMA Appended ==
    ASSUME NEW S, NEW s \in Seq(S), NEW m \in S
    PROVE  /\ Append(s, m) \in Seq(S)
           /\ DOMAIN s = 1 .. Len(s) /\ Len(s) \in Nat
           /\ DOMAIN Append(s, m) = 1 .. Len(s) + 1 /\ Len(s) + 1 \in DOMAIN Append(s, m)
           /\ \A i \in DOMAIN s : i \in DOMAIN Append(s, m) /\ Append(s, m)[i] = s[i]
           /\ Append(s, m)[Len(s) + 1] = m
OBVIOUS

\* A queue whose first message is taken off.
LEMMA TakenOff ==
    ASSUME NEW S, NEW s \in Seq(S), s # <<>>
    PROVE  /\ Head(s) = s[1] /\ Head(s) \in S /\ Tail(s) \in Seq(S)
           /\ \A i \in DOMAIN s : i = 1 \/ (i - 1 \in DOMAIN Tail(s) /\ Tail(s)[i - 1] = s[i])
OBVIOUS

-----------------------------------------------------------------------------
(* What a step does to the replicas and to what is on its way. *)

StaysSo == UNCHANGED <<doc, wire, peered>>
Parts == UNCHANGED doc /\ ~peered' /\ wire' = [x \in Peer |-> <<>>]
Joins == UNCHANGED doc /\ wire' = [x \in Peer |-> <<<<"ask", doc[Other(x)]>>>>]

LEMMA ReplicaStep ==
    ASSUME [SyncNext]_syncVars
    PROVE  \/ StaysSo \/ Parts \/ Joins
           \/ \E x \in Peer : (Answer(x) \/ Integrate(x) \/ \E ops : Does(x, ops)) /\ UNCHANGED peered
<1> DEFINE Acts == \E x \in Peer : (Answer(x) \/ Integrate(x) \/ \E ops : Does(x, ops)) /\ UNCHANGED peered
<1>1. "host" \in Peer /\ "guest" \in Peer
  BY DEF Peer
<1>2. CASE PeersJoin
  BY <1>2 DEF PeersJoin, Joins
<1>3. CASE PeersPart \/ HostLeaves
  BY <1>3 DEF PeersPart, HostLeaves, Parts
<1>4. ASSUME NEW x \in Peer, Answer(x) \/ Integrate(x) PROVE Acts
  BY <1>4, Zenon DEF Answer, Integrate
<1>5. CASE HostTypes
  BY <1>1, <1>5, Zenon DEF HostTypes
<1>6. CASE ForceSync
  BY <1>6, Zenon DEF ForceSync, StaysSo
<1>7. ASSUME NEW p \in Paths, HostOpens(p) \/ GuestTypes(p) PROVE Acts
  BY <1>1, <1>7, Zenon DEF HostOpens, GuestTypes
<1>8. ASSUME NEW p \in Paths, AutoSave(p) \/ HostCreates(p) \/ HostDeletes(p) PROVE StaysSo
  BY <1>8, Zenon DEF AutoSave, HostCreates, HostDeletes, StaysSo
<1>9. ASSUME NEW r \in runs, Listed(r) PROVE Acts
  BY <1>1, <1>9, Zenon DEF Listed
<1>10. ASSUME NEW r \in runs, FinishSync(r) PROVE Acts
  BY <1>1, <1>10, Zenon DEF FinishSync
<1>11. ASSUME NEW r \in runs, NEW p \in r.todo, NEW tells \in BOOLEAN, Copy(r, p, tells) PROVE Acts
  BY <1>1, <1>11, Zenon DEF Copy
<1>12. CASE UNCHANGED syncVars
  BY <1>12, Zenon DEF syncVars, StaysSo
<1> QED
  BY <1>2, <1>3, <1>4, <1>5, <1>6, <1>7, <1>8, <1>9, <1>10, <1>11, <1>12, Zenon DEF SyncNext

-----------------------------------------------------------------------------
(* Replicas converge. *)

\* What is on its way to x is a part of the other's replica.
Messages(x) == {"ask", "ops"} \X SUBSET doc[Other(x)]

WireInv ==
    /\ DOMAIN doc = Peer /\ DOMAIN wire = Peer
    /\ \A x \in Peer : wire[x] \in Seq(Messages(x))

\* x has a question on its way to the other.
Asks(x) == \E i \in DOMAIN wire[Other(x)] : wire[Other(x)][i][1] = "ask"

\* An operation is on its way to x.
Coming(o, x) == \E i \in DOMAIN wire[x] : wire[x][i][1] = "ops" /\ o \in wire[x][i][2]

\* What a connected peer lacks is coming, or it has still to ask.
ConvergeInv ==
    /\ WireInv
    /\ peered => \A x \in Peer : Asks(x) \/ \A o \in doc[Other(x)] : o \in doc[x] \/ Coming(o, x)

LEMMA ConvergeInit == SyncInit => ConvergeInv
<1> SUFFICES ASSUME SyncInit PROVE ConvergeInv
  OBVIOUS
<1>1. DOMAIN doc = Peer /\ DOMAIN wire = Peer /\ ~peered /\ \A x \in Peer : wire[x] = <<>>
  BY DEF SyncInit
<1>2. \A x \in Peer : <<>> \in Seq(Messages(x))
  OBVIOUS
<1> QED
  BY <1>1, <1>2 DEF ConvergeInv, WireInv

\* Replicas only grow, and messages stay within them.
LEMMA Grown ==
    ASSUME NEW x \in Peer, WireInv, \A y \in Peer : doc[y] \subseteq doc'[y]
    PROVE  wire[x] \in Seq(Messages(x)') /\ \A m \in Messages(x) : m \in Messages(x)'
<1>1. doc[Other(x)] \subseteq doc'[Other(x)]
  BY Peers
<1>2. Messages(x) \subseteq Messages(x)'
  BY <1>1 DEF Messages
<1>3. wire[x] \in Seq(Messages(x))
  BY DEF WireInv
<1> HIDE DEF Messages
<1> QED
  BY <1>2, <1>3

\* What x does itself.
LEMMA ConvergeDoes ==
    ASSUME ConvergeInv, NEW z \in Peer, NEW ops, Does(z, ops), UNCHANGED peered
    PROVE  ConvergeInv'
<1> DEFINE w == Other(z)
<1>1. w \in Peer /\ w # z /\ Other(w) = z /\ WireInv /\ \A x \in Peer : x = z \/ x = w
  BY Peers DEF ConvergeInv
<1>2. /\ DOMAIN doc' = Peer /\ doc'[z] = doc[z] \cup ops /\ doc'[w] = doc[w]
  BY <1>1 DEF Does, WireInv
<1>3. \A y \in Peer : doc[y] \subseteq doc'[y]
  BY <1>1, <1>2
<1>4. \A x \in Peer : wire[x] \in Seq(Messages(x)')
  BY <1>1, <1>3, Grown
<1>5. CASE wire' = wire /\ (peered => ops = {})
  <2>1. WireInv'
    BY <1>1, <1>2, <1>4, <1>5 DEF WireInv
  <2>2. peered => \A y \in Peer : doc'[y] = doc[y]
    BY <1>1, <1>2, <1>5
  <2>3. ASSUME peered, NEW x \in Peer
        PROVE  Asks(x)' \/ \A o \in doc'[Other(x)] : o \in doc'[x] \/ Coming(o, x)'
    <3>1. doc'[x] = doc[x] /\ doc'[Other(x)] = doc[Other(x)]
      BY <2>2, <2>3, Peers
    <3>2. Asks(x) \/ \A o \in doc[Other(x)] : o \in doc[x] \/ Coming(o, x)
      BY <2>3 DEF ConvergeInv
    <3> QED
      BY <1>5, <3>1, <3>2 DEF Asks, Coming
  <2> QED
    BY <2>1, <2>3 DEF ConvergeInv
<1>6. CASE wire' = [wire EXCEPT ![w] = Append(@, <<"ops", ops>>)]
  <2> DEFINE m == <<"ops", ops>>
  <2>1. /\ DOMAIN wire' = Peer /\ wire'[w] = Append(wire[w], m) /\ wire'[z] = wire[z]
    BY <1>1, <1>6 DEF WireInv
  <2>2. m \in Messages(w)' /\ wire[w] \in Seq(Messages(w)')
    BY <1>1, <1>2, <1>4 DEF Messages
  <2>3. m[1] = "ops" /\ m[2] = ops
    OBVIOUS
  <2> HIDE DEF m, w
  <2>4. /\ wire'[w] \in Seq(Messages(w)')
        /\ \A i \in DOMAIN wire[w] : i \in DOMAIN wire'[w] /\ wire'[w][i] = wire[w][i]
        /\ \E i \in DOMAIN wire'[w] : wire'[w][i] = m
    BY <2>1, <2>2, Appended
  <2>5. WireInv'
    BY <1>1, <1>2, <1>4, <2>1, <2>4 DEF WireInv
  <2>6. \A x \in Peer : Asks(x) => Asks(x)'
    <3> SUFFICES ASSUME NEW x \in Peer, Asks(x) PROVE Asks(x)'
      OBVIOUS
    <3>1. Other(x) \in {z, w}
      BY <1>1, Peers
    <3> QED
      BY <2>1, <2>4, <3>1 DEF Asks
  <2>7. \A x \in Peer : \A o : Coming(o, x) => Coming(o, x)'
    BY <1>1, <2>1, <2>4 DEF Coming
  <2>8. \A o \in ops : Coming(o, w)'
    BY <2>3, <2>4 DEF Coming
  <2>9. ASSUME peered, NEW x \in Peer
        PROVE  Asks(x)' \/ \A o \in doc'[Other(x)] : o \in doc'[x] \/ Coming(o, x)'
    <3>1. Asks(x) \/ \A o \in doc[Other(x)] : o \in doc[x] \/ Coming(o, x)
      BY <2>9 DEF ConvergeInv
    <3>2. CASE x = z
      BY <1>1, <1>2, <1>3, <2>6, <2>7, <3>1, <3>2 DEF w
    <3>3. CASE x = w
      BY <1>1, <1>2, <1>3, <2>6, <2>7, <2>8, <3>1, <3>3
    <3> QED
      BY <1>1, <3>2, <3>3
  <2> QED
    BY <2>5, <2>9 DEF ConvergeInv
<1> QED
  BY <1>5, <1>6 DEF Does
\* A question is answered with what the asker lacked when it asked.
LEMMA ConvergeAnswer ==
    ASSUME ConvergeInv, NEW z \in Peer, Answer(z)
    PROVE  ConvergeInv'
<1> DEFINE w == Other(z)
           h == Head(wire[z])
           m == <<"ops", doc[z] \ h[2]>>
<1>1. w \in Peer /\ w # z /\ Other(w) = z /\ WireInv /\ \A x \in Peer : x = z \/ x = w
  BY Peers DEF ConvergeInv
<1>2. /\ wire[z] # <<>> /\ h[1] = "ask" /\ doc' = doc /\ peered' = peered
      /\ wire' = [wire EXCEPT ![z] = Tail(@), ![w] = Append(@, m)]
  BY DEF Answer
<1>3. wire[z] \in Seq(Messages(z)) /\ wire[w] \in Seq(Messages(w)) /\ DOMAIN wire = Peer
  BY <1>1 DEF WireInv
<1>4. DOMAIN wire' = Peer /\ wire'[z] = Tail(wire[z]) /\ wire'[w] = Append(wire[w], m)
  <2> HIDE DEF m, w
  <2> QED
    BY <1>1, <1>2, <1>3
<1>5. h \in Messages(z) /\ m \in Messages(w)
  <2>1. h \in Messages(z)
    BY <1>2, <1>3, TakenOff
  <2>2. doc[z] \ h[2] \in SUBSET doc[z]
    OBVIOUS
  <2> QED
    BY <1>1, <2>1, <2>2 DEF Messages
<1>6. h[2] \subseteq doc[w] /\ m[1] = "ops" /\ m[2] = doc[z] \ h[2]
  BY <1>5 DEF Messages
<1>7. \A x \in Peer : Messages(x)' = Messages(x)
  BY <1>2 DEF Messages
<1> HIDE DEF m, h, w
<1>8. /\ wire'[z] \in Seq(Messages(z))
      /\ \A i \in DOMAIN wire[z] : i = 1 \/ (i - 1 \in DOMAIN wire'[z] /\ wire'[z][i - 1] = wire[z][i])
      /\ wire[z][1] = h
  <2>1. wire[z] \in Seq(Messages(z)) /\ wire[z] # <<>>
    BY <1>2, <1>3
  <2>2. /\ Head(wire[z]) = wire[z][1] /\ Tail(wire[z]) \in Seq(Messages(z))
        /\ \A i \in DOMAIN wire[z] :
              i = 1 \/ (i - 1 \in DOMAIN Tail(wire[z]) /\ Tail(wire[z])[i - 1] = wire[z][i])
    BY <2>1, TakenOff
  <2> QED
    BY <1>4, <2>2 DEF h
<1>9. /\ wire'[w] \in Seq(Messages(w))
      /\ \A i \in DOMAIN wire[w] : i \in DOMAIN wire'[w] /\ wire'[w][i] = wire[w][i]
      /\ \E i \in DOMAIN wire'[w] : wire'[w][i] = m
  BY <1>3, <1>4, <1>5, Appended
<1>10. WireInv'
  <2>1. \A x \in Peer : wire'[x] \in Seq(Messages(x)')
    BY <1>1, <1>7, <1>8, <1>9
  <2> QED
    BY <1>1, <1>2, <1>4, <2>1 DEF WireInv
<1>11. ASSUME peered, NEW x \in Peer
       PROVE  Asks(x)' \/ \A o \in doc[Other(x)] : o \in doc[x] \/ Coming(o, x)'
  <2>1. Asks(x) \/ \A o \in doc[Other(x)] : o \in doc[x] \/ Coming(o, x)
    BY <1>11 DEF ConvergeInv
  <2>2. CASE x = z
    <3>1. Asks(z) => Asks(z)'
      BY <1>9 DEF Asks, w
    <3>2. \A o : Coming(o, z) => Coming(o, z)'
      <4> SUFFICES ASSUME NEW o, NEW i \in DOMAIN wire[z], wire[z][i][1] = "ops", o \in wire[z][i][2]
                   PROVE  Coming(o, z)'
        BY DEF Coming
      <4>1. i # 1
        BY <1>2, <1>8 DEF h
      <4>2. i - 1 \in DOMAIN wire'[z] /\ wire'[z][i - 1] = wire[z][i]
        BY <1>8, <4>1
      <4> QED
        BY <4>2 DEF Coming
    <3> QED
      BY <2>1, <2>2, <3>1, <3>2
  <2>3. CASE x = w
    <3>1. \A o \in doc[z] : o \in doc[w] \/ Coming(o, w)'
      BY <1>6, <1>9 DEF Coming
    <3> QED
      BY <1>1, <2>3, <3>1 DEF w
  <2> QED
    BY <1>1, <2>2, <2>3 DEF w
<1> QED
  BY <1>2, <1>10, <1>11 DEF ConvergeInv

\* An update is integrated.
LEMMA ConvergeIntegrate ==
    ASSUME ConvergeInv, NEW z \in Peer, Integrate(z)
    PROVE  ConvergeInv'
<1> DEFINE w == Other(z)
           h == Head(wire[z])
<1>1. w \in Peer /\ w # z /\ Other(w) = z /\ WireInv /\ \A x \in Peer : x = z \/ x = w
  BY Peers DEF ConvergeInv
<1>2. /\ wire[z] # <<>> /\ h[1] = "ops" /\ peered' = peered
      /\ wire' = [wire EXCEPT ![z] = Tail(@)]
      /\ doc' = [doc EXCEPT ![z] = @ \cup h[2]]
  BY DEF Integrate
<1>3. wire[z] \in Seq(Messages(z)) /\ wire[w] \in Seq(Messages(w)) /\ DOMAIN wire = Peer /\ DOMAIN doc = Peer
  BY <1>1 DEF WireInv
<1>4. /\ DOMAIN wire' = Peer /\ wire'[z] = Tail(wire[z]) /\ wire'[w] = wire[w]
      /\ DOMAIN doc' = Peer /\ doc'[z] = doc[z] \cup h[2] /\ doc'[w] = doc[w]
  <2> HIDE DEF h, w
  <2> QED
    BY <1>1, <1>2, <1>3
<1>5. h \in Messages(z)
  BY <1>2, <1>3, TakenOff
<1>6. h[2] \subseteq doc[w]
  BY <1>5 DEF Messages
<1>7. \A x \in Peer : wire[x] \in Seq(Messages(x)')
  BY <1>1, <1>4, Grown
<1> HIDE DEF h, w
<1>8. /\ wire'[z] \in Seq(Messages(z)')
      /\ \A i \in DOMAIN wire[z] : i = 1 \/ (i - 1 \in DOMAIN wire'[z] /\ wire'[z][i - 1] = wire[z][i])
      /\ wire[z][1] = h
  BY <1>2, <1>4, <1>7, TakenOff DEF h
<1>9. WireInv'
  <2>1. \A x \in Peer : wire'[x] \in Seq(Messages(x)')
    BY <1>1, <1>4, <1>7, <1>8
  <2> QED
    BY <1>4, <2>1 DEF WireInv
<1>10. ASSUME peered, NEW x \in Peer
       PROVE  Asks(x)' \/ \A o \in doc'[Other(x)] : o \in doc'[x] \/ Coming(o, x)'
  <2>1. Asks(x) \/ \A o \in doc[Other(x)] : o \in doc[x] \/ Coming(o, x)
    BY <1>10 DEF ConvergeInv
  <2>2. CASE x = z
    <3>1. Asks(z) => Asks(z)'
      BY <1>4 DEF Asks, w
    <3>2. \A o : Coming(o, z) => o \in doc'[z] \/ Coming(o, z)'
      <4> SUFFICES ASSUME NEW o, NEW i \in DOMAIN wire[z], wire[z][i][1] = "ops", o \in wire[z][i][2]
                   PROVE  o \in doc'[z] \/ Coming(o, z)'
        BY DEF Coming
      <4>1. CASE i = 1
        BY <1>4, <1>8, <4>1
      <4>2. CASE i # 1
        <5>1. i - 1 \in DOMAIN wire'[z] /\ wire'[z][i - 1] = wire[z][i]
          BY <1>8, <4>2
        <5> QED
          BY <5>1 DEF Coming
      <4> QED
        BY <4>1, <4>2
    <3> QED
      BY <1>4, <2>1, <2>2, <3>1, <3>2 DEF w
  <2>3. CASE x = w
    <3>1. Asks(w) => Asks(w)'
      <4> SUFFICES ASSUME NEW i \in DOMAIN wire[z], wire[z][i][1] = "ask" PROVE Asks(w)'
        BY <1>1 DEF Asks, w
      <4>1. i # 1
        BY <1>2, <1>8 DEF h
      <4>2. i - 1 \in DOMAIN wire'[z] /\ wire'[z][i - 1] = wire[z][i]
        BY <1>8, <4>1
      <4> QED
        BY <1>1, <4>2 DEF Asks, w
    <3>2. \A o : Coming(o, w) => Coming(o, w)'
      BY <1>4 DEF Coming
    <3> QED
      BY <1>1, <1>4, <1>6, <2>1, <2>3, <3>1, <3>2 DEF w
  <2> QED
    BY <1>1, <2>2, <2>3 DEF w
<1> QED
  BY <1>2, <1>9, <1>10 DEF ConvergeInv

LEMMA ConvergeStep == ConvergeInv /\ [SyncNext]_syncVars => ConvergeInv'
<1> SUFFICES ASSUME ConvergeInv, [SyncNext]_syncVars PROVE ConvergeInv'
  OBVIOUS
<1>1. WireInv
  BY DEF ConvergeInv
<1>2. CASE StaysSo
  <2>1. doc' = doc /\ wire' = wire /\ peered' = peered
    BY <1>2 DEF StaysSo
  <2> QED
    BY <2>1 DEF ConvergeInv, WireInv, Messages, Asks, Coming
<1>3. CASE Parts
  <2>1. doc' = doc /\ ~peered' /\ DOMAIN wire' = Peer /\ \A x \in Peer : wire'[x] = <<>>
    BY <1>3 DEF Parts
  <2>2. \A x \in Peer : <<>> \in Seq(Messages(x)')
    OBVIOUS
  <2> QED
    BY <1>1, <2>1, <2>2 DEF ConvergeInv, WireInv
<1>4. CASE Joins
  <2>1. doc' = doc /\ DOMAIN wire' = Peer /\ \A x \in Peer : wire'[x] = <<<<"ask", doc[Other(x)]>>>>
    BY <1>4 DEF Joins
  <2>2. \A x \in Peer : <<"ask", doc[Other(x)]>> \in Messages(x)'
    BY <2>1 DEF Messages
  <2>3. ASSUME NEW x \in Peer
        PROVE  wire'[x] \in Seq(Messages(x)') /\ 1 \in DOMAIN wire'[x] /\ wire'[x][1][1] = "ask"
    BY <2>1, <2>2
  <2>4. \A x \in Peer : Asks(x)'
    BY <2>3, Peers DEF Asks
  <2> QED
    BY <1>1, <2>1, <2>3, <2>4 DEF ConvergeInv, WireInv
<1> QED
  BY <1>2, <1>3, <1>4, ReplicaStep, ConvergeDoes, ConvergeAnswer, ConvergeIntegrate

-----------------------------------------------------------------------------
(* The document as a set of operations. *)

Contiguous(N) == \E k \in Nat : N = 0 .. k

\* The versions of a text: what is typed is version 0, each copy is the next.
Versions(d, p, n) == {0} \cup {o[5] : o \in Inserted(d, p, n)}

\* Keys are numbered without a gap; insertions and deletions are in texts there
\* are; the versions of a text have no gap, and what is deleted has one of them.
SoundLock(d) == Contiguous(Numbers(d, "lock", NoPath))
SoundKeys(d) == \A p \in Paths : Contiguous(Numbers(d, "entry", p))
SoundTexts(d) ==
    /\ \A o \in d : o[1] \in {"ins", "del"} => Entry(o[2], o[3]) \in d
    /\ \A p \in Paths, n \in Nat : Contiguous(Versions(d, p, n))
    /\ \A o \in d : o[1] = "del" => o[5] \in Versions(d, o[2], o[3])

Sound(d) == SoundLock(d) /\ SoundKeys(d) /\ SoundTexts(d)

LEMMA OperationParts ==
    /\ \A p, n : Entry(p, n)[1] = "entry" /\ Entry(p, n)[2] = p /\ Entry(p, n)[3] = n
    /\ \A p, n : NoEntry(p, n)[1] = "entry" /\ NoEntry(p, n)[2] = p /\ NoEntry(p, n)[3] = n
    /\ \A p, n, id, v : /\ Ins(p, n, id, v)[1] = "ins" /\ Ins(p, n, id, v)[2] = p
                        /\ Ins(p, n, id, v)[3] = n /\ Ins(p, n, id, v)[4] = id
                        /\ Ins(p, n, id, v)[5] = v
    /\ \A p, n, id, v : /\ Del(p, n, id, v)[1] = "del" /\ Del(p, n, id, v)[2] = p
                        /\ Del(p, n, id, v)[3] = n /\ Del(p, n, id, v)[4] = id
                        /\ Del(p, n, id, v)[5] = v
    /\ \A n : LockOn(n)[1] = "lock" /\ LockOn(n)[2] = NoPath /\ LockOn(n)[3] = n
    /\ \A n : LockOff(n)[1] = "lock" /\ LockOff(n)[2] = NoPath /\ LockOff(n)[3] = n
BY DEF Entry, NoEntry, Ins, Del, LockOn, LockOff

\* What is there, and what is gone, differ.
LEMMA OnIsNotOff ==
    /\ \A p, n, q, m : Entry(p, n) # NoEntry(q, m)
    /\ \A n, m : LockOn(n) # LockOff(m)
<1>1. \A p, n : Entry(p, n)[4] = 1 /\ NoEntry(p, n)[4] = 0
  BY DEF Entry, NoEntry
<1>2. \A n : LockOn(n)[4] = 1 /\ LockOff(n)[4] = 0
  BY DEF LockOn, LockOff
<1> QED
  BY <1>1, <1>2

\* The last of numbers without a gap, and the next one.
LEMMA LastOne ==
    ASSUME NEW N, Contiguous(N)
    PROVE  /\ Last(N) \in Nat /\ Last(N) \in N
           /\ Last(N) + 1 \notin N
           /\ Contiguous(N \cup {Last(N) + 1}) /\ Last(N \cup {Last(N) + 1}) = Last(N) + 1
<1>1. PICK k \in Nat : N = 0 .. k
  BY DEF Contiguous
<1>2. \A j \in Nat : (CHOOSE n \in 0 .. j : \A m \in 0 .. j : m <= n) = j
  <2> SUFFICES ASSUME NEW j \in Nat
               PROVE  (CHOOSE n \in 0 .. j : \A m \in 0 .. j : m <= n) = j
    OBVIOUS
  <2>1. j \in 0 .. j /\ \A m \in 0 .. j : m <= j
    OBVIOUS
  <2>2. \A n \in 0 .. j : (\A m \in 0 .. j : m <= n) => n = j
    OBVIOUS
  <2> QED
    BY <2>1, <2>2
<1>3. Last(N) = k
  BY <1>1, <1>2 DEF Last
<1>4. N \cup {k + 1} = 0 .. k + 1 /\ k + 1 \in Nat
  BY <1>1
<1>5. Last(N \cup {k + 1}) = k + 1
  BY <1>2, <1>4 DEF Last
<1>6. Contiguous(N \cup {k + 1})
  BY <1>4 DEF Contiguous
<1>7. k + 1 \notin N
  BY <1>1
<1>8. Last(N) \in N
  BY <1>1, <1>3
<1> QED
  BY <1>3, <1>5, <1>6, <1>7, <1>8

\* A key that is set has the next number, and nothing had that before.
LEMMA NumbersNext ==
    ASSUME NEW d, NEW A, NEW k, NEW p, Contiguous(Numbers(d, k, p)),
           \A o \in A : o[1] = k /\ o[2] = p => o[3] = Last(Numbers(d, k, p)) + 1,
           \E o \in A : o[1] = k /\ o[2] = p
    PROVE  /\ Last(Numbers(d \cup A, k, p)) = Last(Numbers(d, k, p)) + 1
           /\ Contiguous(Numbers(d \cup A, k, p))
<1> DEFINE N == Numbers(d, k, p)
           n == Last(N) + 1
<1>1. Numbers(d \cup A, k, p) = N \cup {n}
  <2>1. Numbers(d \cup A, k, p) = N \cup {o[3] : o \in {q \in A : q[1] = k /\ q[2] = p}}
    BY DEF Numbers
  <2>2. {o[3] : o \in {q \in A : q[1] = k /\ q[2] = p}} = {n}
    OBVIOUS
  <2> QED
    BY <2>1, <2>2
<1>3. Contiguous(N)
  OBVIOUS
<1>4. Contiguous(N \cup {n}) /\ Last(N \cup {n}) = n
  <2> HIDE DEF N
  <2> QED
    BY <1>3, LastOne
<1> HIDE DEF N, n
<1>5. Last(Numbers(d \cup A, k, p)) = n /\ Contiguous(Numbers(d \cup A, k, p))
  BY <1>1, <1>4
<1> QED
  BY <1>5 DEF n, N

LEMMA NextIsNew ==
    ASSUME NEW d, NEW k, NEW p, Contiguous(Numbers(d, k, p)),
           NEW o \in d, o[1] = k, o[2] = p
    PROVE  o[3] # Last(Numbers(d, k, p)) + 1
<1>1. o[3] \in Numbers(d, k, p)
  BY DEF Numbers
<1> QED
  BY <1>1, LastOne

\* A text is the same while its key is not set.
LEMMA TextSame ==
    ASSUME NEW d, NEW A, NEW p, \A o \in A : o[1] = "entry" => o[2] # p
    PROVE  /\ DocText(d \cup A, p) = DocText(d, p)
           /\ Numbers(d \cup A, "entry", p) = Numbers(d, "entry", p)
<1>1. Numbers(d \cup A, "entry", p) = Numbers(d, "entry", p)
  <2>1. {q \in d \cup A : q[1] = "entry" /\ q[2] = p} = {q \in d : q[1] = "entry" /\ q[2] = p}
    OBVIOUS
  <2> QED
    BY <2>1 DEF Numbers
<1>2. \A n : Entry(p, n) \notin A
  BY OperationParts
<1> QED
  BY <1>1, <1>2 DEF DocText

\* The lock is the same while nobody sets it.
LEMMA LockSame ==
    ASSUME NEW d, NEW A, \A o \in A : o[1] # "lock"
    PROVE  /\ Locked(d \cup A) <=> Locked(d)
           /\ SetLock(d \cup A) = SetLock(d) /\ LiftLock(d \cup A) = LiftLock(d)
           /\ SoundLock(d) => SoundLock(d \cup A)
<1>1. Numbers(d \cup A, "lock", NoPath) = Numbers(d, "lock", NoPath)
  <2>1. {q \in d \cup A : q[1] = "lock" /\ q[2] = NoPath} = {q \in d : q[1] = "lock" /\ q[2] = NoPath}
    OBVIOUS
  <2> QED
    BY <2>1 DEF Numbers
<1>2. \A n : LockOn(n) \notin A
  BY OperationParts
<1> QED
  BY <1>1, <1>2 DEF Locked, SetLock, LiftLock, SoundLock

\* The lock is on once it is set, and off once it is lifted.
LEMMA LockSet ==
    ASSUME NEW d, SoundLock(d)
    PROVE  /\ SoundLock(d \cup SetLock(d)) /\ Locked(d \cup SetLock(d))
           /\ SoundLock(d \cup LiftLock(d)) /\ ~Locked(d \cup LiftLock(d))
           /\ \A o \in SetLock(d) \cup LiftLock(d) : o[1] = "lock"
<1> DEFINE n == Last(Numbers(d, "lock", NoPath)) + 1
<1>1. SetLock(d) = {LockOn(n)} /\ LiftLock(d) = {LockOff(n)}
  BY DEF SetLock, LiftLock
<1>2. Contiguous(Numbers(d, "lock", NoPath))
  BY DEF SoundLock
<1>3. /\ Last(Numbers(d \cup SetLock(d), "lock", NoPath)) = n
      /\ Contiguous(Numbers(d \cup SetLock(d), "lock", NoPath))
  <2>1. \A o \in SetLock(d) : o[3] = n
    BY <1>1, OperationParts
  <2>2. \E o \in SetLock(d) : o[1] = "lock" /\ o[2] = NoPath
    BY <1>1, OperationParts
  <2> QED
    BY <1>2, <2>1, <2>2, NumbersNext
<1>4. /\ Last(Numbers(d \cup LiftLock(d), "lock", NoPath)) = n
      /\ Contiguous(Numbers(d \cup LiftLock(d), "lock", NoPath))
      /\ \A o \in d : o[1] = "lock" /\ o[2] = NoPath => o[3] # n
  <2>1. \A o \in LiftLock(d) : o[3] = n
    BY <1>1, OperationParts
  <2>2. \E o \in LiftLock(d) : o[1] = "lock" /\ o[2] = NoPath
    BY <1>1, OperationParts
  <2>3. \A o \in d : o[1] = "lock" /\ o[2] = NoPath => o[3] # n
    BY <1>2, NextIsNew
  <2> QED
    BY <1>2, <2>1, <2>2, <2>3, NumbersNext
<1> HIDE DEF n
<1>5. LockOn(n) \notin d \cup LiftLock(d)
  BY <1>1, <1>4, OperationParts, OnIsNotOff
<1>6. \A o \in SetLock(d) \cup LiftLock(d) : o[1] = "lock"
  BY <1>1, OperationParts
<1> QED
  BY <1>1, <1>3, <1>4, <1>5, <1>6 DEF SoundLock, Locked

\* Operations elsewhere leave what a path says.
Elsewhere(A, p) == \A o \in A : o[1] \in {"entry", "ins", "del"} => o[2] # p

LEMMA SaysSame ==
    ASSUME NEW d, NEW A, NEW p, Elsewhere(A, p)
    PROVE  DocText(d \cup A, p) = DocText(d, p) /\ Says(d \cup A, p) = Says(d, p)
<1>1. DocText(d \cup A, p) = DocText(d, p)
  BY TextSame DEF Elsewhere
<1>2. ASSUME NEW n PROVE Stands(d \cup A, p, n) = Stands(d, p, n)
  <2>1. Inserted(d \cup A, p, n) = Inserted(d, p, n)
    BY DEF Inserted, Elsewhere
  <2>2. \A id, v : Del(p, n, id, v) \notin A
    BY OperationParts DEF Elsewhere
  <2> QED
    BY <2>1, <2>2 DEF Stands
<1> QED
  BY <1>1, <1>2 DEF Says

\* Setting keys leaves the texts.
LEMMA TextsStay ==
    ASSUME NEW d, NEW A, SoundTexts(d), \A o \in A : o[1] \notin {"ins", "del"}
    PROVE  SoundTexts(d \cup A)
<1>1. \A p, n : Versions(d \cup A, p, n) = Versions(d, p, n)
  BY DEF Versions, Inserted
<1>2. \A o \in d \cup A : o[1] \in {"ins", "del"} => o \in d
  OBVIOUS
<1> QED
  BY <1>1, <1>2 DEF SoundTexts

\* The keys of texts are numbered the same while none is set.
LEMMA KeysStay ==
    ASSUME NEW d, NEW A, SoundKeys(d), \A o \in A : o[1] # "entry"
    PROVE  SoundKeys(d \cup A) /\ \A p : DocText(d \cup A, p) = DocText(d, p)
<1>1. \A p : DocText(d \cup A, p) = DocText(d, p) /\ Numbers(d \cup A, "entry", p) = Numbers(d, "entry", p)
  BY TextSame
<1> QED
  BY <1>1 DEF SoundKeys

\* Setting the lock and lifting it.
LEMMA LockDoes ==
    ASSUME NEW d, Sound(d), NEW A, A = SetLock(d) \/ A = LiftLock(d)
    PROVE  Sound(d \cup A) /\ \A p : Elsewhere(A, p)
<1>1. SoundLock(d \cup A) /\ \A o \in A : o[1] = "lock"
  BY LockSet DEF Sound
<1>2. SoundKeys(d \cup A) /\ SoundTexts(d \cup A)
  BY <1>1, KeysStay, TextsStay DEF Sound
<1> QED
  BY <1>1, <1>2 DEF Sound, Elsewhere

\* What somebody typed into a text that d has.
Own(d, o) == o[1] = "ins" /\ o[5] = 0 /\ Entry(o[2], o[3]) \in d
Typed(d, A) == \A o \in A : o \in d \/ Own(d, o)

LEMMA TypedDoes ==
    ASSUME NEW d, Sound(d), NEW A, Typed(d, A)
    PROVE  /\ Sound(d \cup A) /\ (Locked(d \cup A) <=> Locked(d))
           /\ \A p : DocText(d \cup A, p) = DocText(d, p)
<1> DEFINE B == A \ d
<1>1. d \cup A = d \cup B
  OBVIOUS
<1>2. \A o \in B : Own(d, o)
  BY DEF Typed
<1>3. \A o \in B : o[1] = "ins" /\ o[1] # "lock" /\ o[1] # "entry" /\ o[1] # "del" /\ o[5] = 0
  BY <1>2 DEF Own
<1>4. \A o \in B : Entry(o[2], o[3]) \in d
  BY <1>2 DEF Own
<1> HIDE DEF B
<1>5. SoundLock(d \cup B) /\ (Locked(d \cup B) <=> Locked(d))
  BY <1>3, LockSame DEF Sound
<1>6. SoundKeys(d \cup B) /\ \A p : DocText(d \cup B, p) = DocText(d, p)
  BY <1>3, KeysStay DEF Sound
<1>7. ASSUME NEW p, NEW n PROVE Versions(d \cup B, p, n) = Versions(d, p, n)
  BY <1>3 DEF Versions, Inserted
<1>8. SoundTexts(d \cup B)
  <2>1. \A o \in d \cup B : o[1] \in {"ins", "del"} => Entry(o[2], o[3]) \in d \cup B
    BY <1>4 DEF Sound, SoundTexts
  <2>2. \A p \in Paths, n \in Nat : Contiguous(Versions(d \cup B, p, n))
    BY <1>7 DEF Sound, SoundTexts
  <2>3. \A o \in d \cup B : o[1] = "del" => o[5] \in Versions(d \cup B, o[2], o[3])
    BY <1>3, <1>7 DEF Sound, SoundTexts
  <2> QED
    BY <2>1, <2>2, <2>3 DEF SoundTexts
<1> QED
  BY <1>1, <1>5, <1>6, <1>8 DEF Sound

\* The text of p says S.
Reads(d, p, S) == Says(d, p) = S

\* A path that gets a new text.
LEMMA NewTextDoes ==
    ASSUME NEW d, Sound(d), NEW p \in Paths, NEW S
    PROVE  /\ Sound(d \cup NewText(d, p, S))
           /\ Reads(d \cup NewText(d, p, S), p, S)
           /\ Entry(p, DocText(d \cup NewText(d, p, S), p)) \in d \cup NewText(d, p, S)
           /\ \A o \in NewText(d, p, S) : o[1] # "lock" /\ o[2] = p
<1> DEFINE A == NewText(d, p, S)
           e == d \cup A
           N == Numbers(d, "entry", p)
           n == Last(N) + 1
<1>1. A = {Entry(p, n)} \cup {Ins(p, n, id, 0) : id \in S}
  BY DEF NewText
<1>2. \A o \in A : o[1] \in {"entry", "ins"} /\ o[2] = p /\ o[3] = n
  BY <1>1, OperationParts
<1>3. Contiguous(N)
  BY DEF Sound, SoundKeys
<1>4. /\ Last(Numbers(e, "entry", p)) = n
      /\ Contiguous(Numbers(e, "entry", p))
      /\ \A o \in d : o[1] = "entry" /\ o[2] = p => o[3] # n
  <2>1. \A o \in A : o[3] = Last(Numbers(d, "entry", p)) + 1
    BY <1>2
  <2>2. \E o \in A : o[1] = "entry" /\ o[2] = p
    BY <1>1, OperationParts
  <2>3. Last(Numbers(d, "entry", p)) + 1 = n
    OBVIOUS
  <2> HIDE DEF A, N, n
  <2>4. Contiguous(Numbers(d, "entry", p))
    BY <1>3 DEF N
  <2>5. Last(Numbers(d \cup A, "entry", p)) = Last(Numbers(d, "entry", p)) + 1
    BY <2>1, <2>2, <2>4, NumbersNext
  <2>6. Contiguous(Numbers(d \cup A, "entry", p))
    BY <2>1, <2>2, <2>4, NumbersNext
  <2>7. \A o \in d : o[1] = "entry" /\ o[2] = p => o[3] # Last(Numbers(d, "entry", p)) + 1
    BY <2>4, NextIsNew
  <2> QED
    BY <2>3, <2>5, <2>6, <2>7
<1>5. n \in Nat /\ n # 0
  <2>1. Last(N) \in Nat
    <3> HIDE DEF N
    <3> QED
      BY <1>3, LastOne
  <2> QED
    BY <2>1
<1> HIDE DEF A, N, n
<1>6. Entry(p, n) \in e /\ DocText(e, p) = n
  <2>1. Entry(p, n) \in A
    BY <1>1
  <2> QED
    BY <2>1, <1>4 DEF DocText
<1>7. \A o \in d : o[1] \in {"ins", "del"} /\ o[2] = p => o[3] # n
  <2> SUFFICES ASSUME NEW o \in d, o[1] \in {"ins", "del"}, o[2] = p PROVE o[3] # n
    OBVIOUS
  <2>1. Entry(p, o[3]) \in d
    BY DEF Sound, SoundTexts
  <2> QED
    BY <2>1, <1>4, OperationParts
<1>8. Stands(e, p, n) = {Ins(p, n, id, 0) : id \in S}
  <2>1. Inserted(e, p, n) = {Ins(p, n, id, 0) : id \in S}
    BY <1>1, <1>7, OperationParts DEF Inserted
  <2>2. \A id, v : Del(p, n, id, v) \notin e
    BY <1>2, <1>7, OperationParts
  <2> QED
    BY <2>1, <2>2 DEF Stands
<1>9. Says(e, p) = S
  <2>1. {o[4] : o \in Stands(e, p, n)} = {Ins(p, n, id, 0)[4] : id \in S}
    BY <1>8
  <2>2. {Ins(p, n, id, 0)[4] : id \in S} = {id : id \in S}
    BY OperationParts
  <2>3. {o[4] : o \in Stands(e, p, n)} = S
    BY <2>1, <2>2
  <2> QED
    BY <2>3, <1>5, <1>6 DEF Says
<1>10. SoundLock(e)
  BY <1>2, LockSame DEF Sound
<1>11. SoundKeys(e)
  <2> SUFFICES ASSUME NEW q \in Paths, q # p PROVE Contiguous(Numbers(e, "entry", q))
    BY <1>4 DEF SoundKeys
  <2>1. \A o \in A : o[1] = "entry" => o[2] # q
    BY <1>2
  <2>2. Numbers(d \cup A, "entry", q) = Numbers(d, "entry", q)
    BY <2>1, TextSame, Zenon
  <2> QED
    BY <2>2 DEF Sound, SoundKeys
<1>12. SoundTexts(e)
  <2>1. \A o \in e : o[1] \in {"ins", "del"} => Entry(o[2], o[3]) \in e
    BY <1>2, <1>6 DEF Sound, SoundTexts
  <2>2. ASSUME NEW q, NEW m, q # p \/ m # n PROVE Versions(e, q, m) = Versions(d, q, m)
    BY <1>2, <2>2 DEF Versions, Inserted
  <2>3. Versions(e, p, n) = 0 .. 0
    <3>1. Inserted(e, p, n) = {Ins(p, n, id, 0) : id \in S}
      BY <1>1, <1>7, OperationParts DEF Inserted
    <3>2. \A o \in Inserted(e, p, n) : o[5] = 0
      BY <3>1, OperationParts
    <3> QED
      BY <3>2 DEF Versions
  <2>4. \A q \in Paths, m \in Nat : Contiguous(Versions(e, q, m))
    BY <2>2, <2>3 DEF Sound, SoundTexts, Contiguous
  <2>5. \A o \in e : o[1] = "del" => o[5] \in Versions(e, o[2], o[3])
    <3> SUFFICES ASSUME NEW o \in e, o[1] = "del" PROVE o[5] \in Versions(e, o[2], o[3])
      OBVIOUS
    <3>1. o \in d
      BY <1>2
    <3>2. o[5] \in Versions(d, o[2], o[3])
      BY <3>1 DEF Sound, SoundTexts
    <3>3. o[2] # p \/ o[3] # n
      BY <3>1, <1>7
    <3> QED
      BY <3>2, <3>3, <2>2
  <2> QED
    BY <2>1, <2>4, <2>5 DEF SoundTexts
<1>13. \A o \in A : o[1] # "lock" /\ o[2] = p
  BY <1>2
<1> QED
  BY <1>5, <1>6, <1>9, <1>10, <1>11, <1>12, <1>13 DEF Sound, Reads, A

\* The text of a path that has one.
LEMMA TextIsLast ==
    ASSUME NEW d, NEW p \in Paths, SoundKeys(d), DocText(d, p) # 0
    PROVE  /\ DocText(d, p) = Last(Numbers(d, "entry", p)) /\ DocText(d, p) \in Nat
           /\ Entry(p, DocText(d, p)) \in d
<1>1. Contiguous(Numbers(d, "entry", p))
  BY DEF SoundKeys
<1>2. Last(Numbers(d, "entry", p)) \in Nat
  BY <1>1, LastOne
<1> QED
  BY <1>2 DEF DocText

\* A path whose text is rewritten.
LEMMA RewriteDoes ==
    ASSUME NEW d, Sound(d), NEW p \in Paths, DocText(d, p) # 0, NEW S
    PROVE  /\ Sound(d \cup Rewrite(d, p, S))
           /\ Reads(d \cup Rewrite(d, p, S), p, S)
           /\ \A o \in Rewrite(d, p, S) : o[1] # "lock" /\ o[2] = p
<1>1. CASE Says(d, p) = S
  <2>1. Rewrite(d, p, S) = {} /\ d \cup {} = d
    BY <1>1 DEF Rewrite
  <2> QED
    BY <1>1, <2>1 DEF Reads
<1>2. CASE Says(d, p) # S
  <2> DEFINE A == Rewrite(d, p, S)
             e == d \cup A
             n == DocText(d, p)
             V == Versions(d, p, n)
             v == Last(V) + 1
  <2>1. A = {Del(p, n, o[4], o[5]) : o \in Stands(d, p, n)} \cup {Ins(p, n, id, v) : id \in S}
    BY <1>2 DEF Rewrite, Versions
  <2>2. n \in Nat /\ n # 0 /\ Entry(p, n) \in d
    BY TextIsLast DEF Sound
  <2>3. Contiguous(V)
    BY <2>2 DEF Sound, SoundTexts
  <2>4. v \notin V /\ Contiguous(V \cup {v})
    <3> HIDE DEF V
    <3> QED
      BY <2>3, LastOne
  <2>5. \A o \in A : o[1] \in {"ins", "del"} /\ o[2] = p /\ o[3] = n
    BY <2>1, OperationParts
  <2>6. \A o \in A : o[1] = "ins" => o[5] = v
    BY <2>1, OperationParts
  <2>7. \A o \in A : o[1] = "del" => o[5] \in V
    <3>1. \A o \in Stands(d, p, n) : o[5] \in V
      BY DEF Stands, Versions
    <3> HIDE DEF V
    <3> QED
      BY <2>1, <3>1, OperationParts
  <2> HIDE DEF A, n, V, v
  <2>8. \A o \in Inserted(d, p, n) : o[5] # v
    BY <2>4 DEF V, Versions
  <2>9. \A id : Del(p, n, id, v) \notin d
    BY <2>4, OperationParts DEF Sound, SoundTexts, V
  <2>10. Stands(e, p, n) = {Ins(p, n, id, v) : id \in S}
    <3>1. ASSUME NEW o \in Stands(e, p, n) PROVE o \in {Ins(p, n, id, v) : id \in S}
      <4>1. o \in Inserted(e, p, n) /\ Del(p, n, o[4], o[5]) \notin e
        BY DEF Stands
      <4>2. o \notin d
        <5> SUFFICES ASSUME o \in d PROVE FALSE
          OBVIOUS
        <5>1. o \in Stands(d, p, n)
          BY <4>1 DEF Stands, Inserted
        <5>2. Del(p, n, o[4], o[5]) \in A
          BY <5>1, <2>1
        <5> QED
          BY <4>1, <5>2
      <4>3. o \in A /\ o[1] = "ins"
        BY <4>1, <4>2 DEF Inserted
      <4> QED
        BY <2>1, <4>3, OperationParts
    <3>2. ASSUME NEW id \in S PROVE Ins(p, n, id, v) \in Stands(e, p, n)
      <4>1. Ins(p, n, id, v) \in Inserted(e, p, n)
        BY <2>1, OperationParts DEF Inserted
      <4>2. Del(p, n, id, v) \notin A
        BY <2>4, <2>7, OperationParts
      <4> QED
        BY <4>1, <4>2, <2>9, OperationParts DEF Stands
    <3> QED
      BY <3>1, <3>2
  <2>11. SoundKeys(e) /\ DocText(e, p) = n
    <3>1. \A o \in A : o[1] # "entry"
      BY <2>5
    <3> QED
      BY <3>1, KeysStay DEF Sound, n
  <2>12. Says(e, p) = S
    <3>1. {o[4] : o \in Stands(e, p, n)} = {Ins(p, n, id, v)[4] : id \in S}
      BY <2>10
    <3>2. {Ins(p, n, id, v)[4] : id \in S} = {id : id \in S}
      BY OperationParts
    <3>3. {o[4] : o \in Stands(e, p, n)} = S
      BY <3>1, <3>2
    <3> QED
      BY <2>2, <2>11, <3>3 DEF Says
  <2>13. SoundLock(e)
    <3>1. \A o \in A : o[1] # "lock"
      BY <2>5
    <3> QED
      BY <3>1, LockSame DEF Sound
  <2>14. SoundTexts(e)
    <3>1. \A o \in e : o[1] \in {"ins", "del"} => Entry(o[2], o[3]) \in e
      BY <2>2, <2>5 DEF Sound, SoundTexts
    <3>2. ASSUME NEW q, NEW m, q # p \/ m # n PROVE Versions(e, q, m) = Versions(d, q, m)
      BY <2>5, <3>2 DEF Versions, Inserted
    <3>3. Versions(e, p, n) = V \cup {o[5] : o \in {x \in A : x[1] = "ins"}}
      BY <2>5 DEF Versions, Inserted, V
    <3>4. {o[5] : o \in {x \in A : x[1] = "ins"}} \in {{}, {v}}
      BY <2>6
    <3>5. Contiguous(Versions(e, p, n))
      BY <2>3, <2>4, <3>3, <3>4
    <3>6. \A q \in Paths, m \in Nat : Contiguous(Versions(e, q, m))
      BY <3>2, <3>5 DEF Sound, SoundTexts
    <3>7. \A o \in e : o[1] = "del" => o[5] \in Versions(e, o[2], o[3])
      <4> SUFFICES ASSUME NEW o \in e, o[1] = "del" PROVE o[5] \in Versions(e, o[2], o[3])
        OBVIOUS
      <4>1. CASE o[2] = p /\ o[3] = n
        <5>1. o[5] \in V
          BY <4>1, <2>7 DEF Sound, SoundTexts, V
        <5> QED
          BY <4>1, <5>1, <3>3
      <4>2. CASE o[2] # p \/ o[3] # n
        <5>1. o \in d
          BY <4>2, <2>5
        <5>2. o[5] \in Versions(d, o[2], o[3])
          BY <5>1 DEF Sound, SoundTexts
        <5> QED
          BY <4>2, <5>2, <3>2
      <4> QED
        BY <4>1, <4>2
    <3> QED
      BY <3>1, <3>6, <3>7 DEF SoundTexts
  <2>15. \A o \in A : o[1] # "lock" /\ o[2] = p
    BY <2>5
  <2> QED
    BY <2>2, <2>11, <2>12, <2>13, <2>14, <2>15 DEF Sound, Reads, A
<1> QED
  BY <1>1, <1>2

\* Paths whose texts are removed.
LEMMA WithoutDoes ==
    ASSUME NEW d, Sound(d), NEW Q \in SUBSET Paths, NEW A,
           \A o \in A : \E p \in Q : o \in Without(d, p),
           \A p \in Q : Without(d, p) \subseteq A
    PROVE  /\ Sound(d \cup A)
           /\ \A o \in A : o[1] # "lock"
           /\ \A p \in Q : Says(d \cup A, p) = Absent
           /\ \A p \in Paths \ Q : Elsewhere(A, p)
<1> DEFINE e == d \cup A
<1>1. \A o \in A : \E p \in Q : DocText(d, p) # 0 /\ o = NoEntry(p, DocText(d, p) + 1)
  BY DEF Without
<1>2. \A p \in Q : DocText(d, p) # 0 => NoEntry(p, DocText(d, p) + 1) \in A
  BY DEF Without
<1>3. \A o \in A : o[1] = "entry" /\ o[2] \in Q
  BY <1>1, OperationParts
<1>4. ASSUME NEW p \in Q, DocText(d, p) # 0
      PROVE  DocText(e, p) = 0 /\ Contiguous(Numbers(e, "entry", p))
  <2> DEFINE n == Last(Numbers(d, "entry", p)) + 1
  <2>1. Contiguous(Numbers(d, "entry", p))
    BY DEF Sound, SoundKeys
  <2>2. DocText(d, p) = Last(Numbers(d, "entry", p))
    BY <1>4, TextIsLast DEF Sound
  <2>3. \A o \in A : o[1] = "entry" /\ o[2] = p => o[3] = n
    BY <1>1, <2>2, OperationParts
  <2>4. \E o \in A : o[1] = "entry" /\ o[2] = p
    BY <1>2, <1>4, OperationParts
  <2>5. Last(Numbers(e, "entry", p)) = n /\ Contiguous(Numbers(e, "entry", p))
    BY <2>1, <2>3, <2>4, NumbersNext
  <2>6. \A o \in d : o[1] = "entry" /\ o[2] = p => o[3] # n
    BY <2>1, NextIsNew
  <2> HIDE DEF n
  <2>7. Entry(p, n) \notin d
    BY <2>6, OperationParts
  <2>8. Entry(p, n) \notin A
    BY <1>1, OnIsNotOff
  <2> QED
    BY <2>5, <2>7, <2>8 DEF DocText
<1>5. ASSUME NEW p, p \notin Q \/ DocText(d, p) = 0
      PROVE  Elsewhere(A, p)
  BY <1>1, <1>5, OperationParts DEF Elsewhere
<1>6. SoundLock(e) /\ \A o \in A : o[1] # "lock"
  <2>1. \A o \in A : o[1] # "lock"
    BY <1>3
  <2> QED
    BY <2>1, LockSame DEF Sound
<1>7. SoundTexts(e)
  <2>1. \A o \in A : o[1] \notin {"ins", "del"}
    BY <1>3
  <2> QED
    BY <2>1, TextsStay DEF Sound
<1>8. SoundKeys(e)
  <2> SUFFICES ASSUME NEW p \in Paths PROVE Contiguous(Numbers(e, "entry", p))
    BY DEF SoundKeys
  <2>1. CASE p \in Q /\ DocText(d, p) # 0
    BY <2>1, <1>4
  <2>2. CASE p \notin Q \/ DocText(d, p) = 0
    <3>1. \A o \in A : o[1] = "entry" => o[2] # p
      BY <2>2, <1>5 DEF Elsewhere
    <3>2. Numbers(e, "entry", p) = Numbers(d, "entry", p)
      BY <3>1, TextSame
    <3> QED
      BY <3>2 DEF Sound, SoundKeys
  <2> QED
    BY <2>1, <2>2
<1>9. \A p \in Q : Says(e, p) = Absent
  <2> SUFFICES ASSUME NEW p \in Q PROVE DocText(e, p) = 0
    BY DEF Says
  <2>1. CASE DocText(d, p) = 0
    BY <2>1, <1>5, SaysSame
  <2> QED
    BY <2>1, <1>4
<1> QED
  BY <1>5, <1>6, <1>7, <1>8, <1>9 DEF Sound

-----------------------------------------------------------------------------
(* The host's document, and forced syncs. *)

\* The host's document is sound, and a guest has beyond it only what somebody
\* typed into a text of it; the text the editor is bound to is in it.
HostInv ==
    /\ DOMAIN disk = Paths
    /\ Sound(doc["host"])
    /\ Typed(doc["host"], doc["guest"])
    /\ active # NoPath => active \in Paths /\ Entry(active, bound) \in doc["host"]
    /\ \A r \in runs : r = [id |-> r.id, todo |-> r.todo, orphans |-> r.orphans]
    /\ \A r \in runs : ~Listing(r) => r.todo \subseteq Paths /\ r.orphans \subseteq Paths

\* The path is to be copied or to be removed, or is as it is on disk.
Copied(r, p) ==
    /\ p \in r.todo => disk[p] # Absent /\ p \notin r.orphans
    /\ p \in r.orphans => disk[p] = Absent
    /\ p \notin r.todo \cup r.orphans => Says(doc["host"], p) = disk[p]

\* With no sync under way the document is unlocked and as it is on disk.  A sync
\* that copies has the lock and is the only one, or nothing is said of any path.
RunsInv ==
    /\ up /\ runs = {} => /\ ~Locked(doc["host"])
                          /\ \A p \in Paths \ touched : Says(doc["host"], p) = disk[p]
    /\ \A r \in runs : ~Listing(r) =>
         \/ Paths \subseteq touched
         \/ /\ runs = {r} /\ Locked(doc["host"])
            /\ \A p \in Paths \ touched : Copied(r, p)

SyncInv == ConvergeInv /\ HostInv /\ RunsInv

\* A step that leaves the syncs, the lock and the paths nobody touches.
Beside ==
    /\ runs' = runs /\ up' = up /\ touched \subseteq touched'
    /\ Locked(doc'["host"]) <=> Locked(doc["host"])
    /\ \A p \in Paths \ touched' : /\ disk'[p] = disk[p]
                                   /\ Says(doc'["host"], p) = Says(doc["host"], p)

LEMMA BesideDoes == RunsInv /\ Beside => RunsInv'
<1> SUFFICES ASSUME RunsInv, Beside PROVE RunsInv'
  OBVIOUS
<1>1. \A p \in Paths \ touched' : p \in Paths \ touched
  BY DEF Beside
<1>2. ASSUME up', runs' = {}
      PROVE  ~Locked(doc'["host"]) /\ \A p \in Paths \ touched' : Says(doc'["host"], p) = disk'[p]
  BY <1>1, <1>2 DEF Beside, RunsInv
<1>3. ASSUME NEW r \in runs', ~Listing(r)
      PROVE  \/ Paths \subseteq touched'
             \/ /\ runs' = {r} /\ Locked(doc'["host"])
                /\ \A p \in Paths \ touched' : Copied(r, p)'
  <2>1. CASE Paths \subseteq touched
    BY <2>1 DEF Beside
  <2>2. CASE runs = {r} /\ Locked(doc["host"]) /\ \A p \in Paths \ touched : Copied(r, p)
    <3>1. \A p \in Paths \ touched' : Copied(r, p)'
      BY <1>1, <2>2 DEF Beside, Copied
    <3> QED
      BY <2>2, <3>1 DEF Beside
  <2> QED
    BY <1>3, <2>1, <2>2 DEF Beside, RunsInv
<1>4. \A r \in runs' : Listing(r)' <=> Listing(r)
  BY DEF Listing
<1> QED
  BY <1>2, <1>3, <1>4 DEF RunsInv

LEMMA SyncInvInit == SyncInit => SyncInv
<1> SUFFICES ASSUME SyncInit PROVE SyncInv
  OBVIOUS
<1> DEFINE d == doc["host"]
<1>1. d = {Entry(p, 1) : p \in Present} /\ doc["guest"] = {}
  BY DEF SyncInit, Peer
<1> HIDE DEF d
<1>2. \A o \in d : o[1] = "entry" /\ o[3] = 1
  BY <1>1, OperationParts
<1>3. \A p, n : Versions(d, p, n) = 0 .. 0
  BY <1>2 DEF Versions, Inserted
<1>4. ASSUME NEW k, NEW p PROVE Contiguous(Numbers(d, k, p))
  <2>1. \A n \in Numbers(d, k, p) : n = 0 \/ n = 1
    BY <1>2 DEF Numbers
  <2>2. 0 \in Numbers(d, k, p)
    BY DEF Numbers
  <2>3. Numbers(d, k, p) = 0 .. 0 \/ Numbers(d, k, p) = 0 .. 1
    BY <2>1, <2>2
  <2> QED
    BY <2>3 DEF Contiguous
<1>5. Sound(d)
  <2>1. SoundTexts(d)
    BY <1>2, <1>3 DEF SoundTexts, Contiguous
  <2> QED
    BY <1>4, <2>1 DEF Sound, SoundLock, SoundKeys
<1>6. ~Locked(d)
  BY <1>2, OperationParts DEF Locked
<1>7. HostInv
  BY <1>1, <1>5 DEF SyncInit, HostInv, Typed, d
<1>8. RunsInv
  BY <1>6 DEF SyncInit, RunsInv, d
<1> QED
  BY <1>7, <1>8, ConvergeInit DEF SyncInv

LEMMA HostDoes ==
    ASSUME WireInv, NEW A, Does("host", A)
    PROVE  doc'["host"] = doc["host"] \cup A /\ doc'["guest"] = doc["guest"]
BY DEF WireInv, Does, Peer

LEMMA GuestDoes ==
    ASSUME WireInv, NEW A, Does("guest", A)
    PROVE  doc'["guest"] = doc["guest"] \cup A /\ doc'["host"] = doc["host"]
BY DEF WireInv, Does, Peer

LEMMA TypedGrows ==
    ASSUME NEW d, NEW A, NEW B, Typed(d, B)
    PROVE  Typed(d \cup A, B)
BY DEF Typed, Own

\* Connections, and what comes over them.
LEMMA SyncConnects ==
    ASSUME SyncInv, ConvergeInv',
           PeersJoin \/ PeersPart \/ HostLeaves \/ (\E x \in Peer : Answer(x)) \/ UNCHANGED syncVars
    PROVE  SyncInv'
<1>1. /\ disk' = disk /\ active' = active /\ bound' = bound /\ doc' = doc /\ touched' = touched
      /\ (runs' = runs /\ up' = up) \/ (runs' = {} /\ ~up')
  <2>1. CASE PeersJoin
    BY <2>1 DEF PeersJoin, editor
  <2>2. CASE PeersPart
    BY <2>2 DEF PeersPart, editor
  <2>3. CASE HostLeaves
    BY <2>3 DEF HostLeaves, editor
  <2>4. ASSUME NEW x \in Peer, Answer(x)
        PROVE  /\ disk' = disk /\ active' = active /\ bound' = bound /\ doc' = doc
               /\ touched' = touched /\ runs' = runs /\ up' = up
    BY <2>4 DEF Answer, editor
  <2>5. CASE UNCHANGED syncVars
    BY <2>5 DEF syncVars
  <2> QED
    BY <2>1, <2>2, <2>3, <2>4, <2>5
<1>2. HostInv'
  BY <1>1 DEF SyncInv, HostInv, Listing
<1>3. RunsInv'
  <2>1. CASE runs' = runs /\ up' = up
    BY <1>1, <2>1, BesideDoes DEF SyncInv, Beside
  <2>2. CASE runs' = {} /\ ~up'
    BY <2>2 DEF RunsInv
  <2> QED
    BY <1>1, <2>1, <2>2
<1> QED
  BY <1>2, <1>3 DEF SyncInv

LEMMA SyncIntegrates ==
    ASSUME SyncInv, ConvergeInv', NEW x \in Peer, Integrate(x)
    PROVE  SyncInv'
<1> DEFINE M == Head(wire[x])[2]
<1>1. M \subseteq doc[Other(x)]
  <2>1. wire[x] \in Seq(Messages(x)) /\ wire[x] # <<>>
    BY DEF SyncInv, ConvergeInv, WireInv, Integrate
  <2>2. Head(wire[x]) \in Messages(x)
    <3> HIDE DEF Messages
    <3> QED
      BY <2>1
  <2> QED
    BY <2>2 DEF Messages
<1>2. /\ doc' = [doc EXCEPT ![x] = @ \cup M] /\ DOMAIN doc = Peer
      /\ touched' = touched \cup {p \in Paths : Says(doc'[x], p) # Says(doc[x], p) /\ x = "host"}
      /\ UNCHANGED <<disk, active, bound, up, runs>>
  BY DEF Integrate, SyncInv, ConvergeInv, WireInv
<1> HIDE DEF M
<1>3. CASE x = "host"
  <2>1. doc'["host"] = doc["host"] \cup M /\ doc'["guest"] = doc["guest"]
    BY <1>2, <1>3 DEF Peer
  <2>2. Typed(doc["host"], M)
    BY <1>1, <1>3, Peers DEF SyncInv, HostInv, Typed
  <2>3. Sound(doc'["host"]) /\ (Locked(doc'["host"]) <=> Locked(doc["host"]))
    BY <2>1, <2>2, TypedDoes DEF SyncInv, HostInv
  <2>4. Typed(doc'["host"], doc'["guest"])
    <3>1. Typed(doc["host"] \cup M, doc["guest"])
      BY TypedGrows DEF SyncInv, HostInv
    <3> QED
      BY <2>1, <3>1
  <2>5. HostInv'
    BY <1>2, <2>1, <2>3, <2>4 DEF SyncInv, HostInv, Listing
  <2>6. Beside
    BY <1>2, <1>3, <2>3 DEF Beside
  <2> QED
    BY <2>5, <2>6, BesideDoes DEF SyncInv
<1>4. CASE x = "guest"
  <2>1. doc'["host"] = doc["host"] /\ doc'["guest"] = doc["guest"] \cup M
    BY <1>2, <1>4 DEF Peer
  <2>2. Typed(doc'["host"], doc'["guest"])
    <3>1. Typed(doc["host"], doc["guest"]) /\ M \subseteq doc["host"]
      BY <1>1, <1>4, Peers DEF SyncInv, HostInv
    <3>2. Typed(doc["host"], doc["guest"] \cup M)
      BY <3>1 DEF Typed
    <3> QED
      BY <2>1, <3>2
  <2>3. HostInv'
    BY <1>2, <2>1, <2>2 DEF SyncInv, HostInv, Listing
  <2>4. Beside
    BY <1>2, <2>1 DEF Beside
  <2> QED
    BY <2>3, <2>4, BesideDoes DEF SyncInv
<1> QED
  BY <1>3, <1>4 DEF Peer

\* The host's editor.
LEMMA SyncEdits ==
    ASSUME SyncInv, ConvergeInv', NEW A, Does("host", A),
           Sound(doc["host"] \cup A), \A o \in A : o[1] # "lock",
           \A p \in Paths \ touched' : Elsewhere(A, p),
           disk' = disk, runs' = runs, up' = up, touched \subseteq touched',
           active' # NoPath => active' \in Paths /\ Entry(active', bound') \in doc["host"] \cup A
    PROVE  SyncInv'
<1>1. doc'["host"] = doc["host"] \cup A /\ doc'["guest"] = doc["guest"]
  BY HostDoes DEF SyncInv, ConvergeInv
<1>2. Locked(doc'["host"]) <=> Locked(doc["host"])
  <2>1. Locked(doc["host"] \cup A) <=> Locked(doc["host"])
    BY LockSame
  <2> QED
    BY <1>1, <2>1
<1>3. \A p \in Paths \ touched' : Says(doc'["host"], p) = Says(doc["host"], p)
  <2>1. \A p \in Paths \ touched' : Says(doc["host"] \cup A, p) = Says(doc["host"], p)
    BY SaysSame
  <2> QED
    BY <1>1, <2>1
<1>4. Beside
  BY <1>2, <1>3 DEF Beside
<1>5. Typed(doc'["host"], doc'["guest"])
  <2>1. Typed(doc["host"] \cup A, doc["guest"])
    BY TypedGrows DEF SyncInv, HostInv
  <2> QED
    BY <1>1, <2>1
<1>6. HostInv'
  BY <1>1, <1>5 DEF SyncInv, HostInv, Listing
<1> QED
  BY <1>4, <1>6, BesideDoes DEF SyncInv

LEMMA SyncOpens ==
    ASSUME SyncInv, ConvergeInv', NEW p \in Paths, HostOpens(p)
    PROVE  SyncInv'
<1> DEFINE d == doc["host"]
           S == IF model[p] = Absent THEN disk[p] ELSE model[p]
           A == IF DocText(d, p) = 0 THEN NewText(d, p, S) ELSE {}
<1>1. /\ Does("host", A) /\ active' = p /\ bound' = DocText(doc'["host"], p)
      /\ touched' = touched \cup {p} /\ disk' = disk /\ runs' = runs /\ up' = up
  BY DEF HostOpens
<1>2. Sound(d)
  BY DEF SyncInv, HostInv
<1>3. /\ Sound(d \cup A) /\ Entry(p, DocText(d \cup A, p)) \in d \cup A
      /\ \A o \in A : o[1] # "lock" /\ o[2] = p
  <2> HIDE DEF d, S
  <2>1. CASE DocText(d, p) = 0
    <3>1. A = NewText(d, p, S)
      BY <2>1
    <3>2. /\ Sound(d \cup NewText(d, p, S))
          /\ Entry(p, DocText(d \cup NewText(d, p, S), p)) \in d \cup NewText(d, p, S)
          /\ \A o \in NewText(d, p, S) : o[1] # "lock" /\ o[2] = p
      BY <1>2, NewTextDoes
    <3> HIDE DEF A
    <3> QED
      BY <3>1, <3>2
  <2>2. CASE DocText(d, p) # 0
    <3>1. A = {} /\ d \cup {} = d
      BY <2>2
    <3>2. Entry(p, DocText(d, p)) \in d
      BY <1>2, <2>2, TextIsLast DEF Sound
    <3> QED
      BY <1>2, <3>1, <3>2
  <2> QED
    BY <2>1, <2>2
<1> HIDE DEF A
<1>4. doc'["host"] = d \cup A
  BY <1>1, HostDoes DEF SyncInv, ConvergeInv
<1>5. \A q \in Paths \ touched' : Elsewhere(A, q)
  BY <1>1, <1>3 DEF Elsewhere
<1>6. active' \in Paths /\ Entry(active', bound') \in d \cup A
  BY <1>1, <1>3, <1>4
<1> QED
  BY <1>1, <1>3, <1>5, <1>6, SyncEdits

LEMMA SyncTypes ==
    ASSUME SyncInv, ConvergeInv', HostTypes
    PROVE  SyncInv'
<1> DEFINE d == doc["host"]
           A == {Ins(active, bound, strokes + 1, 0)}
<1>1. /\ Does("host", A) /\ active \in Paths /\ Entry(active, bound) \in d
      /\ active' = active /\ bound' = bound
      /\ touched' = touched \cup {active} /\ disk' = disk /\ runs' = runs /\ up' = up
  BY DEF HostTypes, SyncInv, HostInv
<1>2. \A o \in A : o[1] = "ins" /\ o[2] = active /\ o[3] = bound /\ o[5] = 0
  BY OperationParts
<1> HIDE DEF A
<1>3. Typed(d, A)
  BY <1>1, <1>2 DEF Typed, Own
<1>4. Sound(d \cup A)
  BY <1>3, TypedDoes DEF SyncInv, HostInv
<1>5. \A q \in Paths \ touched' : Elsewhere(A, q)
  BY <1>1, <1>2 DEF Elsewhere
<1>6. \A o \in A : o[1] # "lock"
  BY <1>2
<1> QED
  BY <1>1, <1>4, <1>5, <1>6, SyncEdits

LEMMA SyncGuestTypes ==
    ASSUME SyncInv, ConvergeInv', NEW p \in Paths, GuestTypes(p)
    PROVE  SyncInv'
<1> DEFINE n == DocText(doc["guest"], p)
           A == {Ins(p, n, strokes + 1, 0)}
<1>1. /\ Does("guest", A) /\ n # 0
      /\ touched' = touched \cup {p} /\ disk' = disk /\ active' = active /\ bound' = bound
      /\ runs' = runs /\ up' = up
  BY DEF GuestTypes, editor
<1>2. Entry(p, n) \in doc["guest"]
  BY <1>1 DEF DocText
<1>3. Entry(p, n) \in doc["host"]
  BY <1>2, OperationParts DEF SyncInv, HostInv, Typed, Own
<1>4. \A o \in A : Own(doc["host"], o)
  BY <1>3, OperationParts DEF Own
<1> HIDE DEF A
<1>5. doc'["guest"] = doc["guest"] \cup A /\ doc'["host"] = doc["host"]
  BY <1>1, GuestDoes DEF SyncInv, ConvergeInv
<1>6. Typed(doc'["host"], doc'["guest"])
  <2>1. Typed(doc["host"], doc["guest"] \cup A)
    BY <1>4 DEF SyncInv, HostInv, Typed
  <2> QED
    BY <1>5, <2>1
<1>7. HostInv'
  BY <1>1, <1>5, <1>6 DEF SyncInv, HostInv, Listing
<1>8. Beside
  BY <1>1, <1>5 DEF Beside
<1> QED
  BY <1>7, <1>8, BesideDoes DEF SyncInv

\* The host's disk.
LEMMA SyncDisk ==
    ASSUME SyncInv, ConvergeInv', NEW p \in Paths,
           AutoSave(p) \/ HostCreates(p) \/ HostDeletes(p)
    PROVE  SyncInv'
<1>1. /\ DOMAIN disk' = Paths /\ \A q \in Paths : q # p => disk'[q] = disk[q]
      /\ doc' = doc /\ touched' = touched \cup {p} /\ runs' = runs /\ up' = up
      /\ (active' = active /\ bound' = bound) \/ active' = NoPath
  <2>1. CASE AutoSave(p)
    BY <2>1 DEF AutoSave, SyncInv, HostInv
  <2>2. CASE HostCreates(p)
    BY <2>2 DEF HostCreates, SyncInv, HostInv, editor
  <2>3. CASE HostDeletes(p)
    BY <2>3 DEF HostDeletes, SyncInv, HostInv
  <2> QED
    BY <2>1, <2>2, <2>3
<1>2. HostInv'
  BY <1>1 DEF SyncInv, HostInv, Listing
<1>3. Beside
  BY <1>1 DEF Beside
<1> QED
  BY <1>2, <1>3, BesideDoes DEF SyncInv

\* A forced sync begins.
LEMMA SyncForced ==
    ASSUME SyncInv, ConvergeInv', ForceSync
    PROVE  SyncInv'
<1> DEFINE s == [id |-> syncs + 1, todo |-> {NoPath}, orphans |-> {}]
<1>1. /\ ~Locked(doc["host"]) /\ runs' = runs \cup {s} /\ doc' = doc /\ disk' = disk
      /\ up' = up /\ touched' = touched /\ active' = active /\ bound' = bound
  BY DEF ForceSync, editor
<1>2. Listing(s) /\ s = [id |-> s.id, todo |-> s.todo, orphans |-> s.orphans]
  BY DEF Listing
<1> HIDE DEF s
<1>3. HostInv'
  BY <1>1, <1>2 DEF SyncInv, HostInv, Listing
<1>4. RunsInv'
  <2>1. ASSUME NEW r \in runs', ~Listing(r) PROVE Paths \subseteq touched'
    BY <1>1, <1>2, <2>1 DEF SyncInv, RunsInv
  <2>2. runs' # {}
    BY <1>1
  <2> QED
    BY <2>1, <2>2 DEF RunsInv, Listing
<1> QED
  BY <1>3, <1>4 DEF SyncInv

\* One that goes on, or is over, by what it does to the document.
LEMMA SyncRuns ==
    ASSUME SyncInv, ConvergeInv', NEW A, Does("host", A), Sound(doc["host"] \cup A),
           disk' = disk, up' = up, active' = active, bound' = bound,
           \A t \in runs' :
               \/ t \in runs
               \/ /\ t = [id |-> t.id, todo |-> t.todo, orphans |-> t.orphans]
                  /\ t.todo \subseteq Paths /\ t.orphans \subseteq Paths
    PROVE  /\ HostInv' /\ doc'["host"] = doc["host"] \cup A
<1>1. doc'["host"] = doc["host"] \cup A /\ doc'["guest"] = doc["guest"]
  BY HostDoes DEF SyncInv, ConvergeInv
<1>2. Typed(doc'["host"], doc'["guest"])
  <2>1. Typed(doc["host"] \cup A, doc["guest"])
    BY TypedGrows DEF SyncInv, HostInv
  <2> QED
    BY <1>1, <2>1
<1>3. Sound(doc'["host"])
  BY <1>1
<1>4. \A s \in runs' : /\ s = [id |-> s.id, todo |-> s.todo, orphans |-> s.orphans]
                       /\ ~Listing(s) => s.todo \subseteq Paths /\ s.orphans \subseteq Paths
  BY DEF SyncInv, HostInv
<1>5. active' # NoPath => active' \in Paths /\ Entry(active', bound') \in doc'["host"]
  BY <1>1 DEF SyncInv, HostInv
<1>6. DOMAIN disk' = Paths
  BY DEF SyncInv, HostInv
<1> QED
  BY <1>1, <1>2, <1>3, <1>4, <1>5, <1>6 DEF HostInv, Listing

\* A sync whose record changes.
LEMMA RunParts ==
    ASSUME NEW i, NEW f, NEW o, NEW g, NEW q
    PROVE  /\ [[id |-> i, todo |-> f, orphans |-> o] EXCEPT !.todo = g]
                = [id |-> i, todo |-> g, orphans |-> o]
           /\ [[id |-> i, todo |-> f, orphans |-> o] EXCEPT !.todo = g, !.orphans = q]
                = [id |-> i, todo |-> g, orphans |-> q]
<1>1. [[id |-> i, todo |-> f, orphans |-> o] EXCEPT !.todo = g] = [id |-> i, todo |-> g, orphans |-> o]
  OBVIOUS
<1>2. [[id |-> i, todo |-> g, orphans |-> o] EXCEPT !.orphans = q] = [id |-> i, todo |-> g, orphans |-> q]
  OBVIOUS
<1> QED
  BY <1>1, <1>2

LEMMA SyncLists ==
    ASSUME SyncInv, ConvergeInv', NEW r \in runs, Listed(r)
    PROVE  SyncInv'
<1> DEFINE d == doc["host"]
           files == {p \in Paths : disk[p] # Absent}
           orphans == {p \in Paths \ files : DocText(d, p) # 0}
           A == SetLock(d)
<1>1. PICK t : t = [r EXCEPT !.todo = files, !.orphans = orphans]
  OBVIOUS
<1>2. /\ Listing(r) /\ runs' = (runs \ {r}) \cup {t} /\ Does("host", A)
      /\ (runs # {r} => touched' = Paths)
      /\ disk' = disk /\ up' = up /\ active' = active /\ bound' = bound
  BY <1>1 DEF Listed, editor
<1>3. t = [id |-> r.id, todo |-> files, orphans |-> orphans]
  <2>1. r = [id |-> r.id, todo |-> r.todo, orphans |-> r.orphans]
    BY DEF SyncInv, HostInv
  <2> HIDE DEF files, orphans
  <2>2. t = [[id |-> r.id, todo |-> r.todo, orphans |-> r.orphans]
                EXCEPT !.todo = files, !.orphans = orphans]
    BY <1>1, <2>1
  <2> QED
    BY <2>2, RunParts
<1>4. /\ t.todo = files /\ t.orphans = orphans
      /\ t = [id |-> t.id, todo |-> t.todo, orphans |-> t.orphans]
  <2> HIDE DEF files, orphans
  <2> QED
    BY <1>3
<1>5. t.todo \subseteq Paths /\ t.orphans \subseteq Paths
  BY <1>4
<1> HIDE DEF A
<1>6. Sound(d)
  BY DEF SyncInv, HostInv
<1>7. Sound(d \cup A) /\ Locked(d \cup A) /\ \A p : Elsewhere(A, p)
  <2> HIDE DEF d
  <2>1. SoundLock(d)
    BY <1>6 DEF Sound
  <2>2. Locked(d \cup A)
    BY <2>1, LockSet DEF A
  <2> QED
    BY <1>6, <2>2, LockDoes DEF A
<1>8. HostInv' /\ doc'["host"] = d \cup A
  <2>1. \A s \in runs' : s \in runs \/ s = t
    BY <1>2
  <2> HIDE DEF files, orphans, d
  <2> QED
    BY <1>2, <1>4, <1>5, <1>7, <2>1, SyncRuns DEF d
<1>9. \A p \in Paths : Copied(t, p)'
  <2> SUFFICES ASSUME NEW p \in Paths PROVE Copied(t, p)'
    OBVIOUS
  <2>1. Says(d \cup A, p) = Says(d, p)
    BY <1>7, SaysSame
  <2>2. CASE disk[p] # Absent
    <3>1. p \in t.todo /\ p \notin t.orphans
      BY <1>4, <2>2
    <3> QED
      BY <1>2, <2>2, <3>1 DEF Copied
  <2>3. CASE disk[p] = Absent /\ DocText(d, p) # 0
    <3>1. p \notin t.todo /\ p \in t.orphans
      BY <1>4, <2>3
    <3> QED
      BY <1>2, <2>3, <3>1 DEF Copied
  <2>4. CASE disk[p] = Absent /\ DocText(d, p) = 0
    <3>1. p \notin t.todo /\ p \notin t.orphans
      BY <1>4, <2>4
    <3>2. Says(d, p) = Absent
      BY <2>4 DEF Says
    <3> QED
      BY <1>2, <1>8, <2>1, <2>4, <3>1, <3>2 DEF Copied
  <2> QED
    BY <2>2, <2>3, <2>4
<1>10. RunsInv'
  <2>1. runs' # {}
    BY <1>2
  <2>2. CASE runs = {r}
    <3>1. runs' = {t} /\ Locked(doc'["host"])
      BY <1>2, <1>7, <1>8, <2>2
    <3>2. \A p \in Paths \ touched' : Copied(t, p)'
      BY <1>9
    <3> HIDE DEF d
    <3> QED
      BY <2>1, <3>1, <3>2 DEF RunsInv
  <2>3. CASE runs # {r}
    <3>1. Paths \subseteq touched'
      BY <1>2, <2>3
    <3> QED
      BY <2>1, <3>1 DEF RunsInv
  <2> QED
    BY <2>2, <2>3
<1> QED
  BY <1>8, <1>10 DEF SyncInv

\* What copying a file does to the document.
LEMMA CopyDoes ==
    ASSUME Sound(doc["host"]), NEW p \in Paths
    PROVE  /\ Sound(doc["host"] \cup CopyOps(p))
           /\ \A o \in CopyOps(p) : o[1] # "lock" /\ o[2] = p
           /\ disk[p] # Absent => Says(doc["host"] \cup CopyOps(p), p) = disk[p]
<1> DEFINE d == doc["host"]
<1>0. Sound(d)
  OBVIOUS
<1>1. CASE disk[p] = Absent
  <2>1. CopyOps(p) = {} /\ d \cup {} = d
    BY <1>1 DEF CopyOps
  <2> QED
    BY <1>1, <2>1
<1>2. CASE disk[p] # Absent /\ DocText(d, p) = 0
  <2>1. CopyOps(p) = NewText(d, p, disk[p])
    BY <1>2 DEF CopyOps
  <2>2. /\ Sound(d \cup NewText(d, p, disk[p]))
        /\ Says(d \cup NewText(d, p, disk[p]), p) = disk[p]
        /\ \A o \in NewText(d, p, disk[p]) : o[1] # "lock" /\ o[2] = p
    <3>1. PICK S : S = disk[p]
      OBVIOUS
    <3> HIDE DEF d
    <3>2. /\ Sound(d \cup NewText(d, p, S)) /\ Reads(d \cup NewText(d, p, S), p, S)
          /\ \A o \in NewText(d, p, S) : o[1] # "lock" /\ o[2] = p
      BY <1>0, NewTextDoes
    <3> QED
      BY <3>1, <3>2 DEF Reads
  <2> QED
    BY <2>1, <2>2
<1>3. CASE disk[p] # Absent /\ DocText(d, p) # 0
  <2>1. CopyOps(p) = Rewrite(d, p, disk[p])
    BY <1>3 DEF CopyOps
  <2>2. /\ Sound(d \cup Rewrite(d, p, disk[p]))
        /\ Says(d \cup Rewrite(d, p, disk[p]), p) = disk[p]
        /\ \A o \in Rewrite(d, p, disk[p]) : o[1] # "lock" /\ o[2] = p
    <3>1. PICK S : S = disk[p]
      OBVIOUS
    <3> HIDE DEF d
    <3>2. /\ Sound(d \cup Rewrite(d, p, S)) /\ Reads(d \cup Rewrite(d, p, S), p, S)
          /\ \A o \in Rewrite(d, p, S) : o[1] # "lock" /\ o[2] = p
      BY <1>0, <1>3, RewriteDoes
    <3> QED
      BY <3>1, <3>2 DEF Reads
  <2> QED
    BY <2>1, <2>2
<1> QED
  BY <1>1, <1>2, <1>3

LEMMA SyncCopies ==
    ASSUME SyncInv, ConvergeInv', NEW r \in runs, NEW p \in r.todo, NEW tells \in BOOLEAN,
           Copy(r, p, tells)
    PROVE  SyncInv'
<1> DEFINE d == doc["host"]
           B == CopyOps(p)
           lock == IF tells /\ ~Locked(d) THEN SetLock(d) ELSE {}
           A == B \cup lock
<1>1. PICK t : t = [r EXCEPT !.todo = @ \ {p}]
  OBVIOUS
<1>2. /\ ~Listing(r) /\ runs' = (runs \ {r}) \cup {t} /\ Does("host", A)
      /\ disk' = disk /\ up' = up /\ active' = active /\ bound' = bound /\ touched' = touched
  BY <1>1 DEF Copy
<1>3. t = [id |-> r.id, todo |-> r.todo \ {p}, orphans |-> r.orphans]
  <2>1. r = [id |-> r.id, todo |-> r.todo, orphans |-> r.orphans]
    BY DEF SyncInv, HostInv
  <2>2. t = [[id |-> r.id, todo |-> r.todo, orphans |-> r.orphans] EXCEPT !.todo = r.todo \ {p}]
    BY <1>1, <2>1
  <2> QED
    BY <2>2, RunParts
<1>4. /\ t.todo = r.todo \ {p} /\ t.orphans = r.orphans
      /\ t = [id |-> t.id, todo |-> t.todo, orphans |-> t.orphans]
  BY <1>3
<1>5. r.todo \subseteq Paths /\ r.orphans \subseteq Paths /\ p \in Paths
  BY <1>2 DEF SyncInv, HostInv
<1>6. Sound(d)
  BY DEF SyncInv, HostInv
<1>7. /\ Sound(d \cup B) /\ \A o \in B : o[1] # "lock" /\ o[2] = p
      /\ disk[p] # Absent => Says(d \cup B, p) = disk[p]
  BY <1>5, <1>6, CopyDoes
<1> HIDE DEF d, B
<1>8. /\ Sound(d \cup A) /\ \A q : Says(d \cup A, q) = Says(d \cup B, q)
      /\ Locked(d) => Locked(d \cup A)
  <2>1. Locked(d \cup B) <=> Locked(d)
    BY <1>7, LockSame
  <2>2. SetLock(d \cup B) = SetLock(d)
    BY <1>7, LockSame
  <2>3. CASE tells /\ ~Locked(d)
    <3>1. d \cup A = (d \cup B) \cup SetLock(d \cup B)
      BY <2>2, <2>3
    <3>2. Sound((d \cup B) \cup SetLock(d \cup B)) /\ \A q : Elsewhere(SetLock(d \cup B), q)
      BY <1>7, LockDoes
    <3>3. \A q : Says((d \cup B) \cup SetLock(d \cup B), q) = Says(d \cup B, q)
      BY <3>2, SaysSame
    <3> QED
      BY <2>3, <3>1, <3>2, <3>3
  <2>4. CASE ~(tells /\ ~Locked(d))
    <3>1. d \cup A = d \cup B
      BY <2>4
    <3> QED
      BY <1>7, <2>1, <3>1
  <2> QED
    BY <2>3, <2>4
<1> HIDE DEF A
<1>9. HostInv' /\ doc'["host"] = d \cup A
  <2>1. \A s \in runs' : s \in runs \/ s = t
    BY <1>2
  <2>2. t.todo \subseteq Paths /\ t.orphans \subseteq Paths
    BY <1>4, <1>5
  <2> QED
    BY <1>2, <1>4, <1>8, <2>1, <2>2, SyncRuns DEF d
<1>10. \A q \in Paths : q # p => Says(doc'["host"], q) = Says(d, q)
  <2> SUFFICES ASSUME NEW q \in Paths, q # p PROVE Says(doc'["host"], q) = Says(d, q)
    OBVIOUS
  <2>1. Elsewhere(B, q)
    BY <1>7 DEF Elsewhere
  <2>2. Says(d \cup B, q) = Says(d, q)
    BY <2>1, SaysSame
  <2> QED
    BY <1>8, <1>9, <2>2
<1>11. RunsInv'
  <2>1. runs' # {}
    BY <1>2
  <2>2. CASE Paths \subseteq touched
    BY <1>2, <2>1, <2>2 DEF RunsInv
  <2>3. CASE /\ runs = {r} /\ Locked(d)
             /\ \A q \in Paths \ touched : Copied(r, q)
    <3>1. runs' = {t} /\ Locked(doc'["host"])
      BY <1>2, <1>8, <1>9, <2>3
    <3>2. ASSUME NEW q \in Paths \ touched' PROVE Copied(t, q)'
      <4>1. Copied(r, q)
        BY <1>2, <2>3
      <4>2. CASE q = p
        <5>1. disk[p] # Absent /\ p \notin r.orphans
          BY <4>1, <4>2 DEF Copied
        <5>2. Says(doc'["host"], p) = disk[p]
          BY <1>7, <1>8, <1>9, <5>1
        <5> QED
          BY <1>2, <1>4, <4>2, <5>1, <5>2 DEF Copied
      <4>3. CASE q # p
        <5>1. Says(doc'["host"], q) = Says(doc["host"], q)
          BY <1>10, <4>3 DEF d
        <5> QED
          BY <1>2, <1>4, <4>1, <4>3, <5>1 DEF Copied
      <4> QED
        BY <4>2, <4>3
    <3> QED
      BY <2>1, <3>1, <3>2 DEF RunsInv
  <2> QED
    BY <1>2, <2>2, <2>3 DEF SyncInv, RunsInv, d
<1> QED
  BY <1>9, <1>11 DEF SyncInv

LEMMA SyncFinishes ==
    ASSUME SyncInv, ConvergeInv', NEW r \in runs, FinishSync(r)
    PROVE  SyncInv'
<1> DEFINE d == doc["host"]
           B == UNION {Without(d, p) : p \in r.orphans}
           e == d \cup B
           A == B \cup LiftLock(d)
<1>1. /\ ~Listing(r) /\ r.todo = {} /\ runs' = runs \ {r} /\ Does("host", A)
      /\ disk' = disk /\ up' = up /\ active' = active /\ bound' = bound /\ touched' = touched
  BY DEF FinishSync, editor
<1>2. Sound(d) /\ r.orphans \in SUBSET Paths
  BY <1>1 DEF SyncInv, HostInv
<1>3. /\ Sound(e) /\ \A o \in B : o[1] # "lock"
      /\ \A p \in r.orphans : Says(e, p) = Absent
      /\ \A p \in Paths \ r.orphans : Elsewhere(B, p)
  <2>1. /\ \A o \in B : \E p \in r.orphans : o \in Without(d, p)
        /\ \A p \in r.orphans : Without(d, p) \subseteq B
    OBVIOUS
  <2> HIDE DEF d, B
  <2> QED
    BY <1>2, <2>1, WithoutDoes
<1> HIDE DEF d, B
<1>4. \A p \in Paths \ r.orphans : Says(e, p) = Says(d, p)
  BY <1>3, SaysSame
<1>5. d \cup A = e \cup LiftLock(e)
  BY <1>3, LockSame
<1> HIDE DEF e, A
<1>6. /\ Sound(d \cup A) /\ ~Locked(d \cup A) /\ \A p : Says(d \cup A, p) = Says(e, p)
  <2>1. SoundLock(e)
    BY <1>3 DEF Sound
  <2>2. ~Locked(e \cup LiftLock(e))
    BY <2>1, LockSet
  <2>3. Sound(e \cup LiftLock(e)) /\ \A p : Elsewhere(LiftLock(e), p)
    BY <1>3, LockDoes
  <2>4. \A p : Says(e \cup LiftLock(e), p) = Says(e, p)
    BY <2>3, SaysSame
  <2> QED
    BY <1>5, <2>2, <2>3, <2>4
<1>7. HostInv' /\ doc'["host"] = d \cup A
  <2>1. \A s \in runs' : s \in runs
    BY <1>1
  <2> QED
    BY <1>1, <1>6, <2>1, SyncRuns DEF d
<1>8. RunsInv'
  <2>1. CASE runs = {r}
    <3>1. runs' = {}
      BY <1>1, <2>1
    <3>2. ASSUME NEW p \in Paths \ touched' PROVE Says(doc'["host"], p) = disk'[p]
      <4>1. Copied(r, p)
        BY <1>1, <3>2 DEF SyncInv, RunsInv
      <4>2. CASE p \in r.orphans
        BY <1>1, <1>3, <1>6, <1>7, <4>1, <4>2 DEF Copied
      <4>3. CASE p \notin r.orphans
        <5>1. Says(doc["host"], p) = disk[p]
          BY <1>1, <4>1, <4>3 DEF Copied
        <5> QED
          BY <1>1, <1>4, <1>6, <1>7, <4>3, <5>1 DEF d
      <4> QED
        BY <4>2, <4>3
    <3> QED
      BY <1>6, <1>7, <3>1, <3>2 DEF RunsInv
  <2>2. CASE runs # {r}
    <3>1. Paths \subseteq touched'
      BY <1>1, <2>2 DEF SyncInv, RunsInv
    <3>2. runs' # {}
      BY <1>1, <2>2
    <3> QED
      BY <3>1, <3>2 DEF RunsInv
  <2> QED
    BY <2>1, <2>2
<1> QED
  BY <1>7, <1>8 DEF SyncInv

LEMMA SyncStep == SyncInv /\ [SyncNext]_syncVars => SyncInv'
<1> SUFFICES ASSUME SyncInv, [SyncNext]_syncVars PROVE SyncInv'
  OBVIOUS
<1>1. ConvergeInv'
  BY ConvergeStep DEF SyncInv
<1>2. CASE PeersJoin \/ PeersPart \/ HostLeaves \/ UNCHANGED syncVars
  BY <1>1, <1>2, SyncConnects
<1>3. ASSUME NEW x \in Peer, Answer(x) \/ Integrate(x) PROVE SyncInv'
  BY <1>1, <1>3, SyncConnects, SyncIntegrates
<1>4. CASE HostTypes \/ ForceSync
  BY <1>1, <1>4, SyncTypes, SyncForced
<1>5. ASSUME NEW p \in Paths,
             HostOpens(p) \/ GuestTypes(p) \/ AutoSave(p) \/ HostCreates(p) \/ HostDeletes(p)
      PROVE  SyncInv'
  BY <1>1, <1>5, SyncOpens, SyncGuestTypes, SyncDisk
<1>6. ASSUME NEW r \in runs, Listed(r) \/ FinishSync(r) PROVE SyncInv'
  BY <1>1, <1>6, SyncLists, SyncFinishes
<1>7. ASSUME NEW r \in runs, NEW p \in r.todo, NEW tells \in BOOLEAN, Copy(r, p, tells)
      PROVE  SyncInv'
  BY <1>1, <1>7, SyncCopies
<1> QED
  BY <1>2, <1>3, <1>4, <1>5, <1>6, <1>7 DEF SyncNext
-----------------------------------------------------------------------------
(* The types. *)

\* The host's disk and editor.
Desk ==
    /\ disk \in [Paths -> Contents] /\ model \in [Paths -> Contents]
    /\ dirty \subseteq {p \in Paths : model[p] # Absent}
    /\ active \in {p \in Paths : model[p] # Absent} \cup {NoPath}
    /\ bound \in Nat /\ (bound > 0 <=> active # NoPath)

\* The connection, and the syncs under way.
Line == (peered => up) /\ \A x \in Peer : ~peered => wire[x] = <<>>
Tasks == syncs \in Nat /\ \A r \in runs : r.id \in 1 .. syncs /\ r.orphans \subseteq Paths

\* What is typed into the replicas is strokes.
Typing(d) == \A o \in d : o[1] = "ins" => o[4] \in Strokes
Replicas == strokes \in 0 .. MaxStrokes /\ \A x \in Peer : Typing(doc[x])

TypeInv == SyncInv /\ Desk /\ Line /\ Tasks /\ Replicas

LEMMA LineStep == TypeInv /\ [SyncNext]_syncVars => Line'
<1> SUFFICES ASSUME TypeInv, [SyncNext]_syncVars PROVE Line'
  OBVIOUS
<1>1. /\ peered => up
      /\ \A x \in Peer : ~peered => wire[x] = <<>>
      /\ DOMAIN wire = Peer
  BY DEF TypeInv, Line, SyncInv, ConvergeInv, WireInv
<1>2. CASE PeersJoin \/ PeersPart \/ HostLeaves
  BY <1>1, <1>2 DEF PeersJoin, PeersPart, HostLeaves, Line
<1>3. ASSUME NEW x \in Peer, Answer(x) \/ Integrate(x) PROVE Line'
  <2>1. peered /\ peered' = peered /\ up' = up
    BY <1>1, <1>3 DEF Answer, Integrate
  <2> QED
    BY <1>1, <2>1 DEF Line
<1>4. ASSUME NEW x \in Peer, NEW ops, Does(x, ops), peered' = peered, up' = up PROVE Line'
  BY <1>1, <1>4 DEF Does, Line
<1>5. ASSUME wire' = wire, peered' = peered, up' = up PROVE Line'
  BY <1>1, <1>5 DEF Line
<1>6. CASE HostTypes
  BY <1>4, <1>6, Peers, Zenon DEF HostTypes
<1>7. CASE ForceSync
  BY <1>5, <1>7, Zenon DEF ForceSync
<1>8. ASSUME NEW p \in Paths, HostOpens(p) PROVE Line'
  BY <1>4, <1>8, Peers, Zenon DEF HostOpens
<1>9. ASSUME NEW p \in Paths, GuestTypes(p) PROVE Line'
  BY <1>4, <1>9, Peers, Zenon DEF GuestTypes
<1>10. ASSUME NEW p \in Paths, AutoSave(p) \/ HostCreates(p) \/ HostDeletes(p) PROVE Line'
  BY <1>5, <1>10, Zenon DEF AutoSave, HostCreates, HostDeletes
<1>11. ASSUME NEW r \in runs, Listed(r) PROVE Line'
  BY <1>4, <1>11, Peers, Zenon DEF Listed
<1>12. ASSUME NEW r \in runs, FinishSync(r) PROVE Line'
  BY <1>4, <1>12, Peers, Zenon DEF FinishSync
<1>13. ASSUME NEW r \in runs, NEW p \in r.todo, NEW tells \in BOOLEAN, Copy(r, p, tells) PROVE Line'
  BY <1>4, <1>13, Peers, Zenon DEF Copy
<1>14. CASE UNCHANGED syncVars
  BY <1>5, <1>14, Zenon DEF syncVars
<1> QED
  BY <1>2, <1>3, <1>6, <1>7, <1>8, <1>9, <1>10, <1>11, <1>12, <1>13, <1>14, Zenon DEF SyncNext

LEMMA TasksStep == TypeInv /\ [SyncNext]_syncVars => Tasks'
<1> SUFFICES ASSUME TypeInv, [SyncNext]_syncVars PROVE Tasks'
  OBVIOUS
<1>1. /\ syncs \in Nat
      /\ \A r \in runs : r.id \in 1 .. syncs /\ r.orphans \subseteq Paths
      /\ \A r \in runs : r = [id |-> r.id, todo |-> r.todo, orphans |-> r.orphans]
  BY DEF TypeInv, Tasks, SyncInv, HostInv
<1>2. ASSUME runs' \subseteq runs, syncs' = syncs PROVE Tasks'
  BY <1>1, <1>2 DEF Tasks
<1>3. ASSUME NEW r \in runs, NEW g, NEW t, t.id = r.id, t.orphans \subseteq Paths,
             runs' = (runs \ {r}) \cup {t}, syncs' = syncs
      PROVE  Tasks'
  BY <1>1, <1>3 DEF Tasks
<1>4. CASE PeersJoin \/ PeersPart \/ HostLeaves \/ HostTypes \/ UNCHANGED syncVars
  BY <1>2, <1>4 DEF PeersJoin, PeersPart, HostLeaves, HostTypes, syncVars
<1>5. ASSUME NEW x \in Peer, Answer(x) \/ Integrate(x) PROVE Tasks'
  BY <1>2, <1>5 DEF Answer, Integrate
<1>6. ASSUME NEW p \in Paths,
             HostOpens(p) \/ GuestTypes(p) \/ AutoSave(p) \/ HostCreates(p) \/ HostDeletes(p)
      PROVE  Tasks'
  BY <1>2, <1>6 DEF HostOpens, GuestTypes, AutoSave, HostCreates, HostDeletes
<1>7. CASE ForceSync
  <2>1. PICK t : t = [id |-> syncs + 1, todo |-> {NoPath}, orphans |-> {}]
    OBVIOUS
  <2>2. runs' = runs \cup {t} /\ syncs' = syncs + 1
    BY <1>7, <2>1 DEF ForceSync
  <2>3. t.id = syncs + 1 /\ t.orphans = {}
    BY <2>1
  <2> QED
    BY <1>1, <2>2, <2>3 DEF Tasks
<1>8. ASSUME NEW r \in runs, Listed(r) PROVE Tasks'
  <2> DEFINE files == {p \in Paths : disk[p] # Absent}
             orphans == {p \in Paths \ files : DocText(doc["host"], p) # 0}
  <2>1. PICK t : t = [r EXCEPT !.todo = files, !.orphans = orphans]
    OBVIOUS
  <2>2. runs' = (runs \ {r}) \cup {t} /\ syncs' = syncs
    BY <1>8, <2>1 DEF Listed
  <2>3. orphans \subseteq Paths
    OBVIOUS
  <2> HIDE DEF files, orphans
  <2>4. t = [id |-> r.id, todo |-> files, orphans |-> orphans]
    BY <1>1, <2>1, RunParts
  <2> QED
    BY <1>3, <2>2, <2>3, <2>4
<1>9. ASSUME NEW r \in runs, FinishSync(r) PROVE Tasks'
  BY <1>2, <1>9 DEF FinishSync
<1>10. ASSUME NEW r \in runs, NEW p \in r.todo, NEW tells \in BOOLEAN, Copy(r, p, tells) PROVE Tasks'
  <2>1. PICK g : g = r.todo \ {p}
    OBVIOUS
  <2>2. PICK t : t = [r EXCEPT !.todo = g]
    OBVIOUS
  <2>3. runs' = (runs \ {r}) \cup {t} /\ syncs' = syncs
    BY <1>10, <2>1, <2>2 DEF Copy
  <2>4. t = [id |-> r.id, todo |-> g, orphans |-> r.orphans]
    BY <1>1, <2>2, RunParts
  <2> QED
    BY <1>1, <1>3, <2>3, <2>4
<1> QED
  BY <1>4, <1>5, <1>6, <1>7, <1>8, <1>9, <1>10 DEF SyncNext

LEMMA ContentsAre ==
    ASSUME SessionAssumption
    PROVE  /\ Absent \in Contents /\ {} \in Contents
           /\ \A S \in Contents : S # Absent => S \in SUBSET Strokes
           /\ \A S \in SUBSET Strokes : S \in Contents /\ S # Absent
<1>1. -1 \notin Strokes /\ -1 \in Absent
  BY DEF SessionAssumption, Strokes, Absent
<1>2. \A S \in SUBSET Strokes : S # Absent
  BY <1>1
<1> QED
  BY <1>2 DEF Contents

\* What a text says is strokes.
LEMMA SaysStrokes ==
    ASSUME SessionAssumption, NEW d, Typing(d), NEW p
    PROVE  /\ Says(d, p) \in Contents
           /\ DocText(d, p) # 0 => Says(d, p) \in SUBSET Strokes
           /\ Says(d, p) # Absent => DocText(d, p) # 0
<1>1. {o[4] : o \in Stands(d, p, DocText(d, p))} \in SUBSET Strokes
  BY DEF Stands, Inserted, Typing
<1> QED
  BY <1>1, ContentsAre DEF Says

LEMMA TypingGrows ==
    ASSUME NEW d, NEW A, Typing(d), \A o \in A : o[1] = "ins" => o[4] \in Strokes
    PROVE  Typing(d \cup A)
BY DEF Typing

LEMMA NewTextTypes ==
    ASSUME NEW d, NEW p, NEW S \in SUBSET Strokes, NEW o \in NewText(d, p, S), o[1] = "ins"
    PROVE  o[4] \in Strokes
<1> DEFINE n == Last(Numbers(d, "entry", p)) + 1
<1>1. o = Entry(p, n) \/ \E id \in S : o = Ins(p, n, id, 0)
  BY DEF NewText
<1> HIDE DEF n
<1> QED
  BY <1>1, OperationParts

LEMMA CopyTypes ==
    ASSUME SessionAssumption, Desk, NEW p \in Paths, NEW o \in CopyOps(p), o[1] = "ins"
    PROVE  o[4] \in Strokes
<1>1. disk[p] # Absent /\ disk[p] \in SUBSET Strokes
  <2>1. disk[p] # Absent
    BY DEF CopyOps
  <2> QED
    BY <2>1, ContentsAre DEF Desk
<1>2. PICK d, S : d = doc["host"] /\ S = disk[p]
  OBVIOUS
<1>3. CASE DocText(d, p) = 0
  BY <1>1, <1>2, <1>3, NewTextTypes DEF CopyOps
<1>4. CASE DocText(d, p) # 0
  <2>1. o \in Rewrite(d, p, S)
    BY <1>1, <1>2, <1>4 DEF CopyOps
  <2>2. \/ \E q : o = Del(p, DocText(d, p), q[4], q[5])
        \/ \E id \in S : \E v : o = Ins(p, DocText(d, p), id, v)
    BY <2>1 DEF Rewrite
  <2> QED
    BY <1>1, <1>2, <2>2, OperationParts
<1> QED
  BY <1>3, <1>4

\* Locks and removals type nothing.
LEMMA OthersType ==
    /\ \A d : \A o \in SetLock(d) \cup LiftLock(d) : o[1] # "ins"
    /\ \A d, p : \A o \in Without(d, p) : o[1] # "ins"
BY OperationParts DEF SetLock, LiftLock, Without

\* The operations of a step of its own.
LEMMA ReplicasDo ==
    ASSUME TypeInv, NEW x \in Peer, NEW A, Does(x, A), \A o \in A : o[1] = "ins" => o[4] \in Strokes,
           strokes' \in 0 .. MaxStrokes
    PROVE  Replicas'
<1>1. doc' = [doc EXCEPT ![x] = doc[x] \cup A] /\ DOMAIN doc = Peer
  BY DEF Does, TypeInv, SyncInv, ConvergeInv, WireInv
<1>2. \A y \in Peer : doc'[y] = doc[y] \/ doc'[y] = doc[y] \cup A
  BY <1>1
<1>3. \A y \in Peer : Typing(doc[y])
  BY DEF TypeInv, Replicas
<1>4. \A y \in Peer : Typing(doc[y] \cup A)
  BY <1>3, TypingGrows
<1> QED
  BY <1>2, <1>3, <1>4 DEF Replicas, Typing

LEMMA ReplicasStep == SessionAssumption /\ TypeInv /\ [SyncNext]_syncVars => Replicas'
<1> SUFFICES ASSUME SessionAssumption, TypeInv, [SyncNext]_syncVars PROVE Replicas'
  OBVIOUS
<1>1. strokes \in 0 .. MaxStrokes /\ MaxStrokes \in Nat /\ \A x \in Peer : Typing(doc[x])
  BY DEF TypeInv, Replicas, SessionAssumption
<1>2. strokes < MaxStrokes => strokes + 1 \in Strokes /\ strokes + 1 \in 0 .. MaxStrokes
  BY <1>1 DEF Strokes
<1>3. ASSUME doc' = doc, strokes' \in 0 .. MaxStrokes PROVE Replicas'
  BY <1>1, <1>3 DEF Replicas
<1>4. CASE PeersJoin \/ PeersPart \/ HostLeaves \/ ForceSync \/ UNCHANGED syncVars
  BY <1>1, <1>3, <1>4 DEF PeersJoin, PeersPart, HostLeaves, ForceSync, syncVars
<1>5. ASSUME NEW x \in Peer, Answer(x) PROVE Replicas'
  BY <1>1, <1>3, <1>5 DEF Answer
<1>6. ASSUME NEW x \in Peer, Integrate(x) PROVE Replicas'
  <2> DEFINE M == Head(wire[x])[2]
  <2>1. M \subseteq doc[Other(x)]
    <3>1. wire[x] \in Seq(Messages(x)) /\ wire[x] # <<>>
      BY <1>6 DEF TypeInv, SyncInv, ConvergeInv, WireInv, Integrate
    <3>2. Head(wire[x]) \in Messages(x)
      <4> HIDE DEF Messages
      <4> QED
        BY <3>1
    <3> QED
      BY <3>2 DEF Messages
  <2>2. doc' = [doc EXCEPT ![x] = doc[x] \cup M] /\ DOMAIN doc = Peer /\ strokes' = strokes
    BY <1>6 DEF Integrate, TypeInv, SyncInv, ConvergeInv, WireInv
  <2> HIDE DEF M
  <2>3. Typing(doc[x] \cup M)
    BY <1>1, <2>1, Peers DEF Typing
  <2>4. \A y \in Peer : doc'[y] = IF y = x THEN doc[x] \cup M ELSE doc[y]
    BY <2>2
  <2> QED
    BY <1>1, <2>2, <2>3, <2>4 DEF Replicas, Typing
<1>7. CASE HostTypes
  <2>1. PICK A : A = {Ins(active, bound, strokes + 1, 0)} /\ Does("host", A)
    BY <1>7 DEF HostTypes
  <2>2. strokes' = strokes + 1 /\ strokes < MaxStrokes
    BY <1>7 DEF HostTypes
  <2>3. \A o \in A : o[4] \in Strokes
    BY <1>2, <2>1, <2>2, OperationParts
  <2> QED
    BY <1>2, <2>1, <2>2, <2>3, Peers, ReplicasDo
<1>8. ASSUME NEW p \in Paths, GuestTypes(p) PROVE Replicas'
  <2>1. PICK A, n : A = {Ins(p, n, strokes + 1, 0)} /\ Does("guest", A)
    BY <1>8 DEF GuestTypes
  <2>2. strokes' = strokes + 1 /\ strokes < MaxStrokes
    BY <1>8 DEF GuestTypes
  <2>3. \A o \in A : o[4] \in Strokes
    BY <1>2, <2>1, <2>2, OperationParts
  <2> QED
    BY <1>2, <2>1, <2>2, <2>3, Peers, ReplicasDo
<1>9. ASSUME NEW p \in Paths, HostOpens(p) PROVE Replicas'
  <2>1. PICK S : S = IF model[p] = Absent THEN disk[p] ELSE model[p]
    OBVIOUS
  <2>2. PICK A : /\ A = IF DocText(doc["host"], p) = 0 THEN NewText(doc["host"], p, S) ELSE {}
                 /\ Does("host", A)
    BY <1>9, <2>1 DEF HostOpens
  <2>3. S \in SUBSET Strokes
    <3>1. disk[p] \in Contents /\ model[p] \in Contents /\ disk[p] # Absent
      BY <1>9 DEF TypeInv, Desk, HostOpens
    <3> QED
      BY <2>1, <3>1, ContentsAre
  <2>4. \A o \in A : o[1] = "ins" => o[4] \in Strokes
    BY <2>2, <2>3, NewTextTypes
  <2>5. strokes' = strokes
    BY <1>9 DEF HostOpens
  <2> QED
    BY <1>1, <2>2, <2>4, <2>5, Peers, ReplicasDo
<1>10. ASSUME NEW p \in Paths, AutoSave(p) \/ HostDeletes(p) PROVE Replicas'
  BY <1>1, <1>3, <1>10 DEF AutoSave, HostDeletes
<1>11. ASSUME NEW p \in Paths, HostCreates(p) PROVE Replicas'
  BY <1>1, <1>2, <1>3, <1>11 DEF HostCreates
<1>12. ASSUME NEW r \in runs, Listed(r) PROVE Replicas'
  <2>1. Does("host", SetLock(doc["host"])) /\ strokes' = strokes
    BY <1>12 DEF Listed
  <2> QED
    BY <1>1, <2>1, OthersType, Peers, ReplicasDo
<1>13. ASSUME NEW r \in runs, FinishSync(r) PROVE Replicas'
  <2> DEFINE B == UNION {Without(doc["host"], p) : p \in r.orphans}
             A == B \cup LiftLock(doc["host"])
  <2>1. Does("host", A) /\ strokes' = strokes
    BY <1>13 DEF FinishSync
  <2>2. \A o \in B : \E p : o \in Without(doc["host"], p)
    OBVIOUS
  <2> HIDE DEF B
  <2>3. \A o \in A : o[1] # "ins"
    BY <2>2, OthersType
  <2> HIDE DEF A
  <2> QED
    BY <1>1, <2>1, <2>3, Peers, ReplicasDo
<1>14. ASSUME NEW r \in runs, NEW p \in r.todo, NEW tells \in BOOLEAN, Copy(r, p, tells)
       PROVE  Replicas'
  <2>1. PICK B : B = IF tells /\ ~Locked(doc["host"]) THEN SetLock(doc["host"]) ELSE {}
    OBVIOUS
  <2>2. Does("host", CopyOps(p) \cup B) /\ strokes' = strokes /\ ~Listing(r)
    BY <1>14, <2>1 DEF Copy
  <2>3. \A o \in B : o[1] # "ins"
    BY <2>1, OthersType
  <2>4. p \in Paths
    BY <2>2 DEF TypeInv, SyncInv, HostInv
  <2>5. \A o \in CopyOps(p) : o[1] = "ins" => o[4] \in Strokes
    BY <2>4, CopyTypes DEF TypeInv
  <2>6. \A o \in CopyOps(p) \cup B : o[1] = "ins" => o[4] \in Strokes
    BY <2>3, <2>5
  <2> QED
    BY <1>1, <2>2, <2>6, Peers, ReplicasDo
<1> QED
  BY <1>4, <1>5, <1>6, <1>7, <1>8, <1>9, <1>10, <1>11, <1>12, <1>13, <1>14 DEF SyncNext

\* The host's binding: the model takes on what the text says.
LEMMA DeskFollows ==
    ASSUME SessionAssumption, Desk, NEW d, Typing(d), Follows(d), UNCHANGED <<disk, active, bound>>
    PROVE  Desk'
<1>1. CASE UNCHANGED <<model, dirty>>
  BY <1>1 DEF Desk
<1>2. CASE ~UNCHANGED <<model, dirty>>
  <2>1. PICK now : now = Says(d, active)
    OBVIOUS
  <2>2. /\ bound > 0 /\ DocText(d, active) = bound
        /\ model' = [model EXCEPT ![active] = now] /\ dirty' = dirty \cup {active}
    BY <1>2, <2>1 DEF Follows
  <2>3. now \in Contents /\ now # Absent
    BY <2>1, <2>2, SaysStrokes, ContentsAre
  <2>4. active \in Paths /\ active # NoPath
    BY <2>2 DEF Desk
  <2>5. \A p \in Paths : model'[p] = IF p = active THEN now ELSE model[p]
    BY <2>2 DEF Desk
  <2>6. model' \in [Paths -> Contents]
    BY <2>2, <2>3 DEF Desk
  <2> QED
    BY <2>2, <2>3, <2>4, <2>5, <2>6 DEF Desk
<1> QED
  BY <1>1, <1>2

LEMMA DeskOpens ==
    ASSUME SessionAssumption, TypeInv, Replicas', SyncInv', NEW p \in Paths, HostOpens(p)
    PROVE  Desk'
<1>1. PICK S : S = IF model[p] = Absent THEN disk[p] ELSE model[p]
  OBVIOUS
<1>2. PICK now : now = IF DocText(doc["host"], p) = 0 THEN S ELSE Says(doc["host"], p)
  OBVIOUS
<1>3. PICK A : A = IF DocText(doc["host"], p) = 0 THEN NewText(doc["host"], p, S) ELSE {}
  OBVIOUS
<1>4. /\ Does("host", A) /\ active' = p /\ bound' = DocText(doc'["host"], p)
      /\ model' = [model EXCEPT ![p] = now] /\ dirty' = dirty \cup {q \in {p} : now # S}
      /\ disk' = disk /\ disk[p] # Absent
  BY <1>1, <1>2, <1>3 DEF HostOpens
<1>5. Desk /\ Typing(doc["host"]) /\ Typing(doc'["host"])
  BY Peers DEF TypeInv, Replicas
<1>6. S \in Contents /\ S # Absent
  BY <1>1, <1>4, <1>5 DEF Desk
<1>7. now \in Contents /\ now # Absent
  BY <1>2, <1>5, <1>6, SaysStrokes, ContentsAre
<1>8. Sound(doc["host"]) /\ SoundKeys(doc'["host"])
  BY DEF TypeInv, SyncInv, HostInv, Sound
<1>9. doc'["host"] = doc["host"] \cup A
  BY <1>4, HostDoes DEF TypeInv, SyncInv, ConvergeInv
<1>10. DocText(doc'["host"], p) # 0
  <2>1. CASE DocText(doc["host"], p) = 0
    <3>1. Reads(doc["host"] \cup NewText(doc["host"], p, S), p, S)
      BY <1>8, NewTextDoes
    <3>2. Says(doc'["host"], p) = S
      BY <1>3, <1>9, <2>1, <3>1 DEF Reads
    <3> QED
      BY <1>5, <1>6, <3>2, SaysStrokes
  <2>2. CASE DocText(doc["host"], p) # 0
    BY <1>3, <1>9, <2>2
  <2> QED
    BY <2>1, <2>2
<1>11. bound' \in Nat /\ bound' > 0
  <2>1. DocText(doc'["host"], p) \in Nat
    BY <1>8, <1>10, TextIsLast
  <2> QED
    BY <1>4, <1>10, <2>1
<1>12. p # NoPath
  BY DEF SessionAssumption
<1>13. \A q \in Paths : model'[q] = IF q = p THEN now ELSE model[q]
  BY <1>4, <1>5 DEF Desk
<1>14. model' \in [Paths -> Contents]
  BY <1>4, <1>5, <1>7 DEF Desk
<1> QED
  BY <1>4, <1>5, <1>7, <1>11, <1>12, <1>13, <1>14 DEF Desk

LEMMA DeskStep == SessionAssumption /\ TypeInv /\ Replicas' /\ SyncInv' /\ [SyncNext]_syncVars => Desk'
<1> SUFFICES ASSUME SessionAssumption, TypeInv, Replicas', SyncInv', [SyncNext]_syncVars PROVE Desk'
  OBVIOUS
<1>1. Desk /\ Typing(doc'["host"])
  BY Peers DEF TypeInv, Replicas
<1>2. /\ disk \in [Paths -> Contents] /\ model \in [Paths -> Contents]
      /\ dirty \subseteq {q \in Paths : model[q] # Absent}
      /\ active \in {q \in Paths : model[q] # Absent} \cup {NoPath}
      /\ bound \in Nat /\ (bound > 0 <=> active # NoPath)
  BY <1>1 DEF Desk
<1>3. ASSUME UNCHANGED <<disk, editor>> PROVE Desk'
  BY <1>1, <1>3 DEF Desk, editor
<1>4. CASE PeersJoin \/ PeersPart \/ HostLeaves \/ ForceSync \/ UNCHANGED syncVars
  BY <1>3, <1>4 DEF PeersJoin, PeersPart, HostLeaves, ForceSync, syncVars, editor
<1>5. ASSUME NEW x \in Peer, Answer(x) PROVE Desk'
  BY <1>3, <1>5 DEF Answer
<1>6. ASSUME NEW x \in Peer, Integrate(x) PROVE Desk'
  <2>1. Follows(doc'["host"]) /\ UNCHANGED <<disk, active, bound>>
    BY <1>6 DEF Integrate
  <2> QED
    BY <1>1, <2>1, DeskFollows
<1>7. CASE HostTypes
  <2>1. /\ active # NoPath /\ strokes < MaxStrokes
        /\ model' = [model EXCEPT ![active] = @ \cup {strokes + 1}] /\ dirty' = dirty \cup {active}
        /\ UNCHANGED <<disk, active, bound>>
    BY <1>7 DEF HostTypes
  <2>2. strokes + 1 \in Strokes
    BY <2>1 DEF TypeInv, Replicas, SessionAssumption, Strokes
  <2>3. active \in Paths /\ model[active] \in SUBSET Strokes
    BY <1>2, <2>1, ContentsAre
  <2>4. PICK S \in SUBSET Strokes : S = model[active] \cup {strokes + 1}
    BY <2>2, <2>3
  <2>5. S \in Contents /\ S # Absent
    BY ContentsAre
  <2>6. model' = [model EXCEPT ![active] = S]
    BY <2>1, <2>4
  <2>7. model' \in [Paths -> Contents] /\ \A q \in Paths : model'[q] = IF q = active THEN S ELSE model[q]
    BY <1>2, <2>5, <2>6
  <2> QED
    BY <1>2, <2>1, <2>3, <2>5, <2>7 DEF Desk
<1>8. ASSUME NEW p \in Paths, GuestTypes(p) PROVE Desk'
  BY <1>3, <1>8 DEF GuestTypes
<1>9. ASSUME NEW p \in Paths, HostOpens(p) PROVE Desk'
  BY <1>9, DeskOpens
<1>10. ASSUME NEW p \in Paths, AutoSave(p) PROVE Desk'
  <2>1. /\ disk' = [disk EXCEPT ![p] = model[p]] /\ dirty' = dirty \ {p}
        /\ UNCHANGED <<model, active, bound>>
    BY <1>10 DEF AutoSave
  <2> QED
    BY <1>2, <2>1 DEF Desk
<1>11. ASSUME NEW p \in Paths, HostCreates(p) PROVE Desk'
  <2>1. disk' = [disk EXCEPT ![p] = {strokes + 1}] /\ strokes < MaxStrokes /\ UNCHANGED <<model, dirty, active, bound>>
    BY <1>11 DEF HostCreates, editor
  <2>2. strokes + 1 \in Strokes
    BY <2>1 DEF TypeInv, Replicas, SessionAssumption, Strokes
  <2>3. {strokes + 1} \in Contents
    BY <2>2 DEF Contents
  <2> QED
    BY <1>2, <2>1, <2>3 DEF Desk
<1>12. ASSUME NEW p \in Paths, HostDeletes(p) PROVE Desk'
  <2>1. /\ disk' = [disk EXCEPT ![p] = Absent] /\ model' = [model EXCEPT ![p] = Absent]
        /\ dirty' = dirty \ {p}
        /\ active' = (IF active = p THEN NoPath ELSE active)
        /\ bound' = (IF active = p THEN 0 ELSE bound)
    BY <1>12 DEF HostDeletes
  <2>2. disk' \in [Paths -> Contents] /\ model' \in [Paths -> Contents]
    BY <1>2, <2>1, ContentsAre
  <2>3. \A q \in Paths : q # p => model'[q] = model[q]
    BY <1>2, <2>1
  <2> QED
    BY <1>2, <2>1, <2>2, <2>3 DEF Desk
<1>13. ASSUME NEW r \in runs, Listed(r) \/ FinishSync(r) PROVE Desk'
  BY <1>3, <1>13 DEF Listed, FinishSync
<1>14. ASSUME NEW r \in runs, NEW p \in r.todo, NEW tells \in BOOLEAN, Copy(r, p, tells) PROVE Desk'
  <2>1. Follows(doc'["host"]) /\ UNCHANGED <<disk, active, bound>>
    BY <1>14 DEF Copy
  <2> QED
    BY <1>1, <2>1, DeskFollows
<1> QED
  BY <1>4, <1>5, <1>6, <1>7, <1>8, <1>9, <1>10, <1>11, <1>12, <1>13, <1>14 DEF SyncNext

LEMMA TypeInvInit == SessionAssumption /\ SyncInit => TypeInv
<1> SUFFICES ASSUME SessionAssumption, SyncInit PROVE TypeInv
  OBVIOUS
<1>1. Desk
  BY ContentsAre DEF SyncInit, Desk
<1>2. Line /\ Tasks
  BY DEF SyncInit, Line, Tasks
<1>3. Replicas
  <2>1. strokes = 0 /\ \A x \in Peer : \A o \in doc[x] : \E p : o = Entry(p, 1)
    BY DEF SyncInit
  <2>2. \A x \in Peer : \A o \in doc[x] : o[1] = "entry"
    BY <2>1, OperationParts
  <2> QED
    BY <2>1, <2>2 DEF Replicas, Typing, SessionAssumption
<1> QED
  BY <1>1, <1>2, <1>3, SyncInvInit DEF TypeInv

-----------------------------------------------------------------------------
(* The theorems. *)

\* Connected peers with nothing on its way hold the same document
\* (session.ts onPeerJoin, onWireMessage, onYUpdate).
THEOREM ConvergedHolds == SyncSpec => []Converged
<1>1. SyncInit => ConvergeInv
  BY ConvergeInit
<1>2. ConvergeInv /\ [SyncNext]_syncVars => ConvergeInv'
  BY ConvergeStep
<1>3. ConvergeInv => Converged
  <2> SUFFICES ASSUME ConvergeInv, peered, \A x \in Peer : wire[x] = <<>>
               PROVE  doc["host"] = doc["guest"]
    BY DEF Converged, Quiet
  <2>1. \A x \in Peer : DOMAIN wire[x] = {}
    OBVIOUS
  <2>2. \A x \in Peer : \A o \in doc[Other(x)] : o \in doc[x]
    BY <2>1, Peers DEF ConvergeInv, Asks, Coming
  <2>3. doc["guest"] \subseteq doc["host"] /\ doc["host"] \subseteq doc["guest"]
    BY <2>2, Peers
  <2> QED
    BY <2>3, Zenon
<1> QED
  BY <1>1, <1>2, <1>3, PTL DEF SyncSpec

\* Once every sync is over nobody's editor is read-only on its account, the
\* connected guest's included when it has heard all (session.ts forceSync,
\* applyReadOnlyToEditor).
THEOREM LockLiftsHolds == SyncSpec => []LockLifts
<1>1. SyncInit => SyncInv
  BY SyncInvInit
<1>2. SyncInv /\ [SyncNext]_syncVars => SyncInv'
  BY SyncStep
<1>3. SyncInv /\ Converged => LockLifts
  <2> SUFFICES ASSUME SyncInv, Converged, up, runs = {}
               PROVE  ~Locked(doc["host"]) /\ (peered /\ Quiet => ~Locked(doc["guest"]))
    BY DEF LockLifts
  <2>1. ~Locked(doc["host"])
    BY DEF SyncInv, RunsInv
  <2>2. ASSUME peered, Quiet PROVE doc["host"] = doc["guest"]
    BY <2>2 DEF Converged
  <2> QED
    BY <2>1, <2>2
<1> QED
  BY <1>1, <1>2, <1>3, ConvergedHolds, PTL DEF SyncSpec

\* After a forced sync that no other overlapped, the document is what is on the
\* host's disk, but for what changed since (session.ts forceSync).
THEOREM SyncMatchesDiskHolds == SyncSpec => []SyncMatchesDisk
<1>1. SyncInit => SyncInv
  BY SyncInvInit
<1>2. SyncInv /\ [SyncNext]_syncVars => SyncInv'
  BY SyncStep
<1>3. SyncInv => SyncMatchesDisk
  BY DEF SyncInv, RunsInv, SyncMatchesDisk
<1> QED
  BY <1>1, <1>2, <1>3, PTL DEF SyncSpec

\* The host's editor, the connection and the syncs under way keep their types: a tab
\* with an armed timer has its model, the active file is bound and has one, and a
\* session that has ended leaves nothing connected or on its way.
THEOREM TypeOKHolds == ASSUME SessionAssumption PROVE SyncSpec => []SyncTypeOK
<1>1. SyncInit => TypeInv
  BY TypeInvInit
<1>2. TypeInv /\ [SyncNext]_syncVars => TypeInv'
  BY SyncStep, LineStep, TasksStep, ReplicasStep, DeskStep DEF TypeInv
<1>3. TypeInv => SyncTypeOK
  BY DEF TypeInv, Desk, Line, Tasks, SyncTypeOK
<1> QED
  BY <1>1, <1>2, <1>3, PTL DEF SyncSpec
=============================================================================
