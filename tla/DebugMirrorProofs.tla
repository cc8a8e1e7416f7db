-------------------------- MODULE DebugMirrorProofs --------------------------
(***************************************************************************)
(* Proofs about DebugMirror, for any peers, client ids, clicks, sessions   *)
(* and stops.                                                              *)
(***************************************************************************)
EXTENDS DebugMirror, WellFoundedInduction, TLAPS

-----------------------------------------------------------------------------
(* The order of the values of a key of the shared map: it is total and a    *)
(* value comes after the one it replaces.                                   *)

Reached(s, t) == s = t \/ Beyond(t, s)

LEMMA PrefixIs ==
    ASSUME NEW s \in Seq(Nat), NEW t \in Seq(Nat)
    PROVE  IsStrictPrefix(s, t) <=> Len(s) < Len(t) /\ \A i \in 1 .. Len(s) : s[i] = t[i]
<1>1. ASSUME Len(s) <= Len(t), SubSeq(s, 1, Len(s)) = SubSeq(t, 1, Len(s)), NEW i \in 1 .. Len(s)
      PROVE  s[i] = t[i]
  <2>1. SubSeq(s, 1, Len(s))[i] = s[i]
    BY SMT
  <2>2. SubSeq(t, 1, Len(s))[i] = t[i]
    BY <1>1, SMT
  <2> QED BY <1>1, <2>1, <2>2
<1>2. ASSUME Len(s) <= Len(t), \A i \in 1 .. Len(s) : s[i] = t[i]
      PROVE  SubSeq(s, 1, Len(s)) = SubSeq(t, 1, Len(s))
  BY <1>2, SMT
<1>3. ASSUME Len(s) = Len(t), \A i \in 1 .. Len(s) : s[i] = t[i]
      PROVE  s = t
  BY <1>3, SMT
<1> QED BY <1>1, <1>2, <1>3, SMT DEF IsStrictPrefix, IsPrefix

LEMMA NotBefore ==
    ASSUME NEW x \in Nat, NEW y \in Nat, ~(<<y, x>> \in {ss \in Nat \X Nat : ss[1] < ss[2]})
    PROVE  x <= y
<1>1. ~(y < x)
  BY SMT
<1> QED BY <1>1, SMT

LEMMA Least ==
    ASSUME NEW T, T \subseteq Nat, T # {}
    PROVE  \E x \in T : \A y \in T : x <= y
<1> DEFINE R == {ss \in Nat \X Nat : ss[1] < ss[2]}
<1>1. IsWellFoundedOn(R, Nat)
  BY NatLessThanWellFounded, Zenon DEF OpToRel
<1>2. PICK x \in T : \A y \in T : ~(<<y, x>> \in R)
  <2> HIDE DEF R
  <2> QED BY <1>1, WFMin, Zenon
<1>3. ASSUME NEW y \in T PROVE x <= y
  <2>1. ~(<<y, x>> \in R)
    BY <1>2
  <2> QED BY <2>1, NotBefore
<1> QED BY <1>2, <1>3

\* The two ways for s to be beyond t.
Longer(s, t) == Len(t) < Len(s) /\ \A i \in 1 .. Len(t) : s[i] = t[i]
HigherAt(s, t, i) ==
    i <= Len(t) /\ s[i] > t[i] /\ \A j \in 1 .. Len(s) : j < i => s[j] = t[j]

LEMMA BeyondIs ==
    ASSUME NEW s \in Seq(Nat), NEW t \in Seq(Nat)
    PROVE  Beyond(s, t) <=> Longer(s, t) \/ \E i \in 1 .. Len(s) : HigherAt(s, t, i)
<1> DEFINE H(i) == s[i] > t[i] /\ \A j \in 1 .. i - 1 : s[j] = t[j]
<1>1. DOMAIN s = 1 .. Len(s) /\ DOMAIN t = 1 .. Len(t) /\ Len(s) \in Nat /\ Len(t) \in Nat
  OBVIOUS
<1>2. ASSUME NEW i \in 1 .. Len(s), i <= Len(t)
      PROVE  H(i) <=> HigherAt(s, t, i)
  BY <1>1, <1>2, SMT DEF HigherAt
<1>3. \A i : i \in (DOMAIN s) \cap (DOMAIN t) <=> i \in 1 .. Len(s) /\ i <= Len(t)
  BY <1>1, SMT
<1>4. Beyond(s, t) <=> IsStrictPrefix(t, s) \/ \E i \in (DOMAIN s) \cap (DOMAIN t) : H(i)
  BY DEF Beyond
<1>5. IsStrictPrefix(t, s) <=> Longer(s, t)
  BY PrefixIs DEF Longer
<1>6. ASSUME NEW i, HigherAt(s, t, i) PROVE i <= Len(t)
  BY <1>6 DEF HigherAt
<1> HIDE DEF H
<1> QED BY <1>2, <1>3, <1>4, <1>5, <1>6, Zenon

LEMMA Total ==
    ASSUME NEW s \in Seq(Nat), NEW t \in Seq(Nat), s # t
    PROVE  Beyond(s, t) \/ Beyond(t, s)
<1> DEFINE D == {i \in Nat : i \in 1 .. Len(s) /\ i <= Len(t) /\ s[i] # t[i]}
<1>1. CASE D = {}
  <2>1. \A i \in 1 .. Len(s) : i <= Len(t) => s[i] = t[i]
    BY <1>1
  <2>2. Len(s) # Len(t)
    BY <2>1, SMT
  <2> HIDE DEF D
  <2>3. Len(s) \in Nat /\ Len(t) \in Nat
    OBVIOUS
  <2>4. Longer(s, t) \/ Longer(t, s)
    BY <2>1, <2>2, <2>3, SMT DEF Longer
  <2> QED BY <2>4, BeyondIs
<1>2. CASE D # {}
  <2>1. PICK i \in D : \A j \in D : i <= j
    BY <1>2, Least, Zenon
  <2>2. \A j \in 1 .. Len(s) : j < i => s[j] = t[j]
    BY <2>1
  <2>3. \A j \in 1 .. Len(t) : j < i => s[j] = t[j]
    BY <2>1
  <2>4. i \in 1 .. Len(s) /\ i \in 1 .. Len(t) /\ s[i] \in Nat /\ t[i] \in Nat /\ s[i] # t[i]
    BY <2>1
  <2> HIDE DEF D
  <2>5. HigherAt(s, t, i) \/ HigherAt(t, s, i)
    BY <2>2, <2>3, <2>4, SMT DEF HigherAt
  <2> QED BY <2>4, <2>5, BeyondIs
<1> QED BY <1>1, <1>2

\* What is known of the parts of a path.
IsPath(s) == Len(s) \in Nat /\ \A i \in 1 .. Len(s) : s[i] \in Nat

LEMMA PathParts == ASSUME NEW s \in Seq(Nat) PROVE IsPath(s)
BY DEF IsPath

LEMMA Asym ==
    ASSUME NEW s \in Seq(Nat), NEW t \in Seq(Nat), Beyond(s, t)
    PROVE  ~Beyond(t, s) /\ s # t
<1>0. IsPath(s) /\ IsPath(t)
  BY PathParts
<1>1. Longer(s, t) \/ \E i \in 1 .. Len(s) : HigherAt(s, t, i)
  BY BeyondIs
<1>2. Beyond(t, s) <=> Longer(t, s) \/ \E i \in 1 .. Len(t) : HigherAt(t, s, i)
  BY BeyondIs
<1>3. CASE Longer(s, t)
  <2>1. ~Longer(t, s) /\ s # t
    BY <1>0, <1>3, SMT DEF Longer, IsPath
  <2>2. ASSUME NEW k \in 1 .. Len(t) PROVE ~HigherAt(t, s, k)
    BY <1>0, <1>3, SMT DEF Longer, HigherAt, IsPath
  <2> QED BY <1>2, <2>1, <2>2
<1>4. ASSUME NEW i \in 1 .. Len(s), HigherAt(s, t, i) PROVE ~Beyond(t, s) /\ s # t
  <2>1. i \in 1 .. Len(t) /\ i <= Len(s) /\ s[i] \in Nat /\ t[i] \in Nat /\ s[i] > t[i]
    BY <1>0, <1>4, SMT DEF HigherAt, IsPath
  <2>2. ~Longer(t, s) /\ s # t
    BY <2>1, SMT DEF Longer
  <2>3. ASSUME NEW k \in 1 .. Len(t), HigherAt(t, s, k) PROVE FALSE
    <3>1. k \in 1 .. Len(s) /\ s[k] \in Nat /\ t[k] \in Nat /\ t[k] > s[k]
      BY <1>0, <2>3, SMT DEF HigherAt, IsPath
    <3>2. CASE k < i
      BY <1>4, <3>1, <3>2, SMT DEF HigherAt
    <3>3. CASE i < k
      BY <2>1, <2>3, <3>3, SMT DEF HigherAt
    <3>4. CASE i = k
      BY <2>1, <3>1, <3>4, SMT
    <3> QED BY <3>1, <3>2, <3>3, <3>4, SMT
  <2> QED BY <1>2, <2>2, <2>3
<1> QED BY <1>1, <1>3, <1>4

LEMMA Trans ==
    ASSUME NEW s \in Seq(Nat), NEW t \in Seq(Nat), NEW u \in Seq(Nat), Beyond(s, t), Beyond(t, u)
    PROVE  Beyond(s, u)
<1>0. IsPath(s) /\ IsPath(t) /\ IsPath(u)
  BY PathParts
<1>1. Longer(s, t) \/ \E i \in 1 .. Len(s) : HigherAt(s, t, i)
  BY BeyondIs
<1>2. Longer(t, u) \/ \E i \in 1 .. Len(t) : HigherAt(t, u, i)
  BY BeyondIs
<1>3. Beyond(s, u) <=> Longer(s, u) \/ \E i \in 1 .. Len(s) : HigherAt(s, u, i)
  BY BeyondIs
<1>4. CASE Longer(s, t) /\ Longer(t, u)
  BY <1>0, <1>3, <1>4, SMT DEF Longer, IsPath
<1>5. ASSUME Longer(s, t), NEW i \in 1 .. Len(t), HigherAt(t, u, i)
      PROVE  i \in 1 .. Len(s) /\ HigherAt(s, u, i)
  <2>1. i \in 1 .. Len(s) /\ s[i] = t[i] /\ i <= Len(u) /\ s[i] > u[i]
    BY <1>0, <1>5, SMT DEF Longer, HigherAt, IsPath
  <2>2. ASSUME NEW j \in 1 .. Len(s), j < i PROVE s[j] = u[j]
    <3>1. j \in 1 .. Len(t)
      BY <1>0, <2>2, SMT DEF IsPath
    <3> QED BY <1>5, <2>2, <3>1 DEF Longer, HigherAt
  <2> QED BY <2>1, <2>2 DEF HigherAt
<1>6. ASSUME Longer(t, u), NEW i \in 1 .. Len(s), HigherAt(s, t, i)
      PROVE  Longer(s, u) \/ HigherAt(s, u, i)
  BY <1>0, <1>6, SMTT(20) DEF Longer, HigherAt, IsPath
<1>7. ASSUME NEW i \in 1 .. Len(s), HigherAt(s, t, i), NEW k \in 1 .. Len(t), HigherAt(t, u, k)
      PROVE  \E j \in 1 .. Len(s) : HigherAt(s, u, j)
  <2>1. i \in 1 .. Len(t) /\ s[i] \in Nat /\ t[i] \in Nat /\ s[i] > t[i]
    BY <1>0, <1>7, SMT DEF HigherAt, IsPath
  <2>2. k \in 1 .. Len(u) /\ t[k] \in Nat /\ u[k] \in Nat /\ t[k] > u[k]
    BY <1>0, <1>7, SMT DEF HigherAt, IsPath
  <2>3. CASE i <= k
    <3>0. i \in 1 .. Len(u)
      <4>1. i \in Nat /\ k \in Nat /\ Len(u) \in Nat /\ 1 <= i /\ k <= Len(u)
        BY <1>0, <2>1, <2>2, SMT DEF IsPath
      <4> QED BY <2>3, <4>1, SMT
    <3>1. u[i] \in Nat /\ i <= Len(u)
      BY <1>0, <3>0, SMT DEF IsPath
    <3>2. s[i] > u[i]
      <4>1. CASE i = k
        BY <2>1, <2>2, <4>1, SMT
      <4>2. CASE i < k
        <5>1. t[i] = u[i]
          BY <1>7, <2>1, <4>2 DEF HigherAt
        <5> QED BY <2>1, <5>1
      <4> QED BY <2>1, <2>2, <2>3, <4>1, <4>2, SMT
    <3>3. ASSUME NEW j \in 1 .. Len(s), j < i PROVE s[j] = u[j]
      <4>1. j \in 1 .. Len(t) /\ j < k
        BY <1>0, <2>1, <2>2, <2>3, <3>3, SMT DEF IsPath
      <4> QED BY <1>7, <3>3, <4>1 DEF HigherAt
    <3> QED BY <3>1, <3>2, <3>3 DEF HigherAt
  <2>4. CASE k < i
    <3>1. k \in 1 .. Len(s) /\ k <= Len(u)
      BY <1>0, <2>1, <2>2, <2>4, SMT DEF IsPath
    <3>2. s[k] > u[k]
      <4>1. s[k] = t[k]
        BY <1>7, <2>4, <3>1 DEF HigherAt
      <4> QED BY <2>2, <4>1
    <3>3. ASSUME NEW j \in 1 .. Len(s), j < k PROVE s[j] = u[j]
      <4>1. j \in 1 .. Len(t) /\ j < i
        BY <1>0, <2>1, <2>2, <2>4, <3>3, SMT DEF IsPath
      <4> QED BY <1>7, <3>3, <4>1 DEF HigherAt
    <3> QED BY <3>1, <3>2, <3>3 DEF HigherAt
  <2> QED BY <2>1, <2>2, <2>3, <2>4, SMT
<1> QED BY <1>1, <1>2, <1>3, <1>4, <1>5, <1>6, <1>7, Zenon

LEMMA AppendBeyond ==
    ASSUME NEW s \in Seq(Nat), NEW c \in Nat
    PROVE  Append(s, c) \in Seq(Nat) /\ Beyond(Append(s, c), s)
<1>1. Append(s, c) \in Seq(Nat) /\ Len(Append(s, c)) = Len(s) + 1 /\ Len(s) \in Nat
  OBVIOUS
<1>2. \A i \in 1 .. Len(s) : Append(s, c)[i] = s[i]
  OBVIOUS
<1>3. Longer(Append(s, c), s)
  BY <1>1, <1>2, SMT DEF Longer
<1> QED BY <1>1, <1>3, BeyondIs

-----------------------------------------------------------------------------
(* The types. *)

Stops == 0 .. MaxStops
Entry(k) == [path : Seq(Nat), val : Values[k]]
Entries == UNION {Entry(k) : k \in Keys}
Replicas == {d \in [Keys -> Entries] : \A k \in Keys : d[k] \in Entry(k)}
Patches == {f \in UNION {[K -> Entries] : K \in SUBSET Keys} : \A k \in DOMAIN f : f[k] \in Entry(k)}

Messages ==
    [kind : {"doc"}, doc : Patches] \cup [kind : {"rpc"}, op : Control \cup {"terminate"}]
    \cup [kind : {"reply"}, op : Requests \cup {"error"}]

\* Requests to an iframe, and what it sends.
Calls == [op : Requests \ {"scopes"}, by : Peers] \cup [op : {"scopes"}, by : Peers, at : Stops]
Returned == Control \cup {"enter", "scopes", "terminate"}
Events ==
    {r \in Calls : r.op \in Returned} \cup [op : {"frames"}, by : Peers, at : Stops]
    \cup [op : {"launched", "refused", "stopped", "exited", "unwound", "crashed"}]

VmTypes ==
    /\ vm \in [Peers -> [run : Runs, at : Stops]]
    /\ toVm \in [Peers -> Seq(Calls)] /\ toPage \in [Peers -> Seq(Events)]
UiTypes ==
    /\ active \in [Peers -> BOOLEAN] /\ paused \in [Peers -> BOOLEAN] /\ fatal \in [Peers -> BOOLEAN]
    /\ phase \in [Peers -> {"idle", "launching", "entering"}] /\ inner \in [Peers -> {"local", "remote"}]
DocTypes ==
    doc \in [Peers -> Replicas] /\ net \in [Peers -> [Peers -> Seq(Messages)]]
GhostTypes == late \in [Peers -> BOOLEAN] /\ contested \in BOOLEAN /\ cut \in BOOLEAN
DebugTypes == VmTypes /\ UiTypes /\ DocTypes /\ GhostTypes

LEMMA CallIs ==
    /\ \A op \in Requests \ {"scopes"} : \A q \in Peers : [op |-> op, by |-> q] \in Calls
    /\ \A q \in Peers : \A n \in Stops : [op |-> "scopes", by |-> q, at |-> n] \in Calls
    /\ \A r \in Calls : /\ r.op \in Requests /\ r.by \in Peers
                        /\ r.op = "scopes" => r.at \in Stops
<1>1. ASSUME NEW op \in Requests \ {"scopes"}, NEW q \in Peers
      PROVE  [op |-> op, by |-> q] \in [op : Requests \ {"scopes"}, by : Peers]
  OBVIOUS
<1>2. ASSUME NEW q \in Peers, NEW n \in Stops
      PROVE  [op |-> "scopes", by |-> q, at |-> n] \in [op : {"scopes"}, by : Peers, at : Stops]
  OBVIOUS
<1>3. ASSUME NEW r \in [op : Requests \ {"scopes"}, by : Peers]
      PROVE  r.op \in Requests /\ r.by \in Peers /\ r.op # "scopes"
  OBVIOUS
<1>4. ASSUME NEW r \in [op : {"scopes"}, by : Peers, at : Stops]
      PROVE  r.op \in Requests /\ r.by \in Peers /\ r.at \in Stops
  BY DEF Requests
<1> QED BY <1>1, <1>2, <1>3, <1>4 DEF Calls

LEMMA EventIs ==
    /\ \A r \in Calls : r.op \in Returned => r \in Events
    /\ \A q \in Peers : \A n \in Stops : [op |-> "frames", by |-> q, at |-> n] \in Events
    /\ \A op \in {"launched", "refused", "stopped", "exited", "unwound", "crashed"} : [op |-> op] \in Events
    /\ \A r \in Events : /\ r.op \in Answers
                         /\ r.op \in Returned \cup {"frames"} => r.by \in Peers
                         /\ r.op \in {"frames", "scopes"} => r.at \in Stops
<1>1. \A r \in Calls : r.op \in Returned => r.op \in Answers /\ r.by \in Peers /\ (r.op = "scopes" => r.at \in Stops)
  BY CallIs DEF Returned, Answers, Requests, Control
<1>2. \A r \in [op : {"frames"}, by : Peers, at : Stops] : r.op \in Answers /\ r.by \in Peers /\ r.at \in Stops /\ r.op = "frames"
  BY DEF Answers, Requests, Control
<1>3. \A r \in [op : {"launched", "refused", "stopped", "exited", "unwound", "crashed"}] :
         r.op \in Answers /\ r.op \notin Returned \cup {"frames"}
  BY DEF Answers, Requests, Control, Returned
<1>4. "frames" \notin Returned /\ "scopes" \in Returned
  BY DEF Returned, Control
<1> QED BY <1>1, <1>2, <1>3, <1>4 DEF Events

LEMMA MessageIs ==
    /\ \A op \in Control \cup {"terminate"} : [kind |-> "rpc", op |-> op] \in Messages
    /\ \A op \in Requests \cup {"error"} : [kind |-> "reply", op |-> op] \in Messages
    /\ \A f \in Patches : [kind |-> "doc", doc |-> f] \in Messages
    /\ \A m \in Messages : /\ m.kind \in {"doc", "rpc", "reply"}
                           /\ m.kind = "doc" => m.doc \in Patches
                           /\ m.kind = "rpc" => m.op \in Control \cup {"terminate"}
                           /\ m.kind = "reply" => m.op \in Requests \cup {"error"}
BY DEF Messages

LEMMA ValuesAre ==
    /\ Values["initiator"] = Peers \cup {NoOne} /\ Values["paused"] = BOOLEAN /\ Values["frames"] = Stops
    /\ Unset["initiator"] = NoOne /\ Unset["paused"] = FALSE /\ Unset["frames"] = 0
    /\ DebugMirrorAssumption => \A k \in Keys : Unset[k] \in Values[k]
<1>1. /\ Values["initiator"] = Peers \cup {NoOne} /\ Values["paused"] = BOOLEAN /\ Values["frames"] = Stops
  BY DEF Values, Stops
<1>2. Unset["initiator"] = NoOne /\ Unset["paused"] = FALSE /\ Unset["frames"] = 0
  BY DEF Unset
<1>3. DebugMirrorAssumption => 0 \in Stops
  BY DEF DebugMirrorAssumption, Stops
<1> QED BY <1>1, <1>2, <1>3 DEF Keys

LEMMA EntryIs == ASSUME NEW k
    PROVE  /\ \A e \in Entry(k) : e.path \in Seq(Nat) /\ e.val \in Values[k] /\ e = [path |-> e.path, val |-> e.val]
           /\ \A s \in Seq(Nat) : \A v \in Values[k] : [path |-> s, val |-> v] \in Entry(k)
BY DEF Entry

LEMMA ReplicaIs ==
    /\ \A d \in Replicas : \A k \in Keys : d[k] \in Entry(k)
    /\ \A d : d = [k \in Keys |-> d[k]] /\ (\A k \in Keys : d[k] \in Entry(k)) => d \in Replicas
<1>1. \A k \in Keys : Entry(k) \subseteq Entries
  BY DEF Entries
<1> QED BY <1>1, Zenon DEF Replicas

LEMMA PatchIs ==
    /\ \A f \in Patches : DOMAIN f \subseteq Keys /\ \A k \in DOMAIN f : f[k] \in Entry(k)
    /\ \A K \in SUBSET Keys : \A d \in Replicas : [k \in K |-> d[k]] \in Patches
<1>1. \A k \in Keys : Entry(k) \subseteq Entries
  BY DEF Entries
<1>2. ASSUME NEW K \in SUBSET Keys, NEW d \in Replicas
      PROVE  [k \in K |-> d[k]] \in Patches
  <2>1. \A k \in K : d[k] \in Entry(k) /\ d[k] \in Entries
    BY <1>1, ReplicaIs
  <2>2. [k \in K |-> d[k]] \in [K -> Entries]
    BY <2>1
  <2>3. [k \in K |-> d[k]] \in UNION {[J -> Entries] : J \in SUBSET Keys}
    BY <2>2
  <2> QED BY <2>1, <2>3 DEF Patches
<1>3. ASSUME NEW f \in Patches PROVE DOMAIN f \subseteq Keys /\ \A k \in DOMAIN f : f[k] \in Entry(k)
  BY DEF Patches
<1> QED BY <1>2, <1>3

LEMMA SetIs ==
    ASSUME DebugMirrorAssumption, DocTypes, NEW p \in Peers, NEW patch,
           \A k \in Keys \cap DOMAIN patch : patch[k] \in Values[k]
    PROVE  /\ Set(p, patch) \in Replicas
           /\ \A k \in Keys : k \notin DOMAIN patch => Set(p, patch)[k] = doc[p][k]
           /\ \A k \in Keys : k \in DOMAIN patch => Set(p, patch)[k].path = Append(doc[p][k].path, ClientID[p])
                                                /\ Set(p, patch)[k].val = patch[k]
<1>1. doc[p] \in Replicas /\ ClientID[p] \in Nat
  BY DEF DocTypes, DebugMirrorAssumption
<1> DEFINE d == Set(p, patch)
<1>2. ASSUME NEW k \in Keys, k \in DOMAIN patch
      PROVE  /\ d[k] \in Entry(k) /\ d[k].path = Append(doc[p][k].path, ClientID[p])
             /\ d[k].val = patch[k]
  <2>1. d[k] = [path |-> Append(doc[p][k].path, ClientID[p]), val |-> patch[k]]
    BY <1>2 DEF Set
  <2>2. doc[p][k].path \in Seq(Nat)
    BY <1>1, ReplicaIs, EntryIs
  <2>3. Append(doc[p][k].path, ClientID[p]) \in Seq(Nat)
    BY <1>1, <2>2, AppendBeyond
  <2> QED BY <1>2, <2>1, <2>3, EntryIs
<1>3. ASSUME NEW k \in Keys, k \notin DOMAIN patch PROVE d[k] = doc[p][k] /\ d[k] \in Entry(k)
  BY <1>1, <1>3, ReplicaIs DEF Set
<1>4. d = [k \in Keys |-> d[k]]
  BY DEF Set
<1> HIDE DEF d
<1> QED BY <1>2, <1>3, <1>4, ReplicaIs DEF d

LEMMA ClearedIs ==
    ASSUME DebugMirrorAssumption, DocTypes, NEW p \in Peers
    PROVE  /\ Cleared(p) \in Replicas
           /\ \A k \in Keys : /\ Cleared(p)[k].path = doc[p][k].path
                              /\ Mine(p) => Cleared(p)[k].val = Unset[k]
                              /\ ~Mine(p) => Cleared(p)[k] = doc[p][k]
<1>1. doc[p] \in Replicas
  BY DEF DocTypes
<1>2. CASE ~Mine(p)
  BY <1>1, <1>2 DEF Cleared
<1>3. CASE Mine(p)
  <2> DEFINE d == [k \in Keys |-> [doc[p][k] EXCEPT !.val = Unset[k]]]
  <2>1. Cleared(p) = d
    BY <1>3 DEF Cleared
  <2>2. ASSUME NEW k \in Keys
        PROVE d[k] \in Entry(k) /\ d[k].path = doc[p][k].path /\ d[k].val = Unset[k]
    <3>1. doc[p][k] \in Entry(k)
      BY <1>1, ReplicaIs
    <3>2. d[k] = [doc[p][k] EXCEPT !.val = Unset[k]]
      OBVIOUS
    <3>3. d[k] = [path |-> doc[p][k].path, val |-> Unset[k]]
      BY <3>1, <3>2 DEF Entry
    <3> QED BY <3>1, <3>3, EntryIs, ValuesAre
  <2>3. d = [k \in Keys |-> d[k]]
    OBVIOUS
  <2> HIDE DEF d
  <2>4. d \in Replicas
    BY <2>2, <2>3, ReplicaIs
  <2> QED BY <1>3, <2>1, <2>2, <2>4
<1> QED BY <1>2, <1>3

LEMMA PostIs ==
    ASSUME VmTypes, NEW p \in Peers, NEW r \in Calls, toVm' = [toVm EXCEPT ![p] = Append(@, r)]
    PROVE  toVm' \in [Peers -> Seq(Calls)]
<1>1. toVm \in [Peers -> Seq(Calls)]
  BY DEF VmTypes
<1>2. Append(toVm[p], r) \in Seq(Calls)
  BY <1>1
<1> QED BY <1>1, <1>2

LEMMA TellIs ==
    ASSUME VmTypes, NEW p \in Peers, NEW m \in Events, Tell(p, m)
    PROVE  toPage' \in [Peers -> Seq(Events)]
<1>1. toPage \in [Peers -> Seq(Events)]
  BY DEF VmTypes
<1>2. Append(toPage[p], m) \in Seq(Events)
  BY <1>1
<1> QED BY <1>1, <1>2 DEF Tell

LEMMA TakenIs ==
    ASSUME VmTypes, NEW p \in Peers, toPage[p] # <<>>, Taken(p)
    PROVE  Head(toPage[p]) \in Events /\ toPage' \in [Peers -> Seq(Events)]
<1>1. toPage[p] \in Seq(Events)
  BY DEF VmTypes
<1>2. Head(toPage[p]) \in Events /\ Tail(toPage[p]) \in Seq(Events)
  BY <1>1
<1> QED BY <1>2 DEF VmTypes, Taken

LEMMA AnswerIs ==
    /\ Nothing \in [Peers -> Seq(Messages)]
    /\ \A p, by : \A op \in Requests \cup {"error"} : Reply(p, by, op) \in [Peers -> Seq(Messages)]
<1>1. Nothing \in [Peers -> Seq(Messages)]
  BY DEF Nothing
<1>2. ASSUME NEW p, NEW by, NEW op \in Requests \cup {"error"}
      PROVE  Reply(p, by, op) \in [Peers -> Seq(Messages)]
  <2>1. [kind |-> "reply", op |-> op] \in Messages
    BY MessageIs
  <2>2. <<[kind |-> "reply", op |-> op]>> \in Seq(Messages) /\ <<>> \in Seq(Messages)
    BY <2>1
  <2> QED BY <2>2 DEF Reply
<1> QED BY <1>1, <1>2

LEMMA UpdateIs ==
    ASSUME NEW p, NEW d \in Replicas
    PROVE  /\ Update(p, d) \in Messages /\ Update(p, d).kind = "doc"
           /\ Update(p, d).doc = [k \in Changed(p, d) |-> d[k]]
<1>1. [k \in Changed(p, d) |-> d[k]] \in Patches
  BY PatchIs DEF Changed
<1> QED BY <1>1, MessageIs DEF Update

LEMMA OneIs == ASSUME NEW S, NEW m \in S PROVE <<m>> \in Seq(S)
OBVIOUS

LEMMA SendingIs ==
    ASSUME DocTypes, NEW p \in Peers, NEW d \in Replicas, NEW answer \in [Peers -> Seq(Messages)]
    PROVE  Sending(p, d, answer) \in [Peers -> Seq(Messages)]
<1>1. ASSUME NEW q \in Peers
      PROVE  net[p][q] \o (IF q = p \/ Changed(p, d) = {} THEN <<>> ELSE <<Update(p, d)>>) \o answer[q] \in Seq(Messages)
  <2>1. net[p][q] \in Seq(Messages) /\ answer[q] \in Seq(Messages) /\ <<>> \in Seq(Messages)
    BY DEF DocTypes
  <2>2. <<Update(p, d)>> \in Seq(Messages)
    BY UpdateIs, OneIs
  <2> QED BY <2>1, <2>2
<1> QED BY <1>1 DEF Sending

LEMMA PublishIs ==
    ASSUME DocTypes, NEW p \in Peers, NEW d \in Replicas, NEW answer \in [Peers -> Seq(Messages)],
           PublishMap(p, d, answer)
    PROVE  DocTypes'
<1>1. doc' = [doc EXCEPT ![p] = d] /\ net' = [net EXCEPT ![p] = Sending(p, d, answer)]
  BY DEF PublishMap
<1>2. Sending(p, d, answer) \in [Peers -> Seq(Messages)]
  BY SendingIs
<1>3. doc' \in [Peers -> Replicas]
  BY <1>1 DEF DocTypes
<1>4. net' \in [Peers -> [Peers -> Seq(Messages)]]
  BY <1>1, <1>2 DEF DocTypes
<1> QED BY <1>3, <1>4 DEF DocTypes

LEMMA BroadcastIs ==
    ASSUME DebugMirrorAssumption, DocTypes, NEW p \in Peers
    PROVE  /\ doc[p] \in Replicas
           /\ Set(p, [initiator |-> p, paused |-> TRUE]) \in Replicas
           /\ Broadcast(p, [paused |-> FALSE]) \in Replicas
           /\ \A n \in Stops : Broadcast(p, [paused |-> TRUE, frames |-> n]) \in Replicas
<1>1. doc[p] \in Replicas
  BY DEF DocTypes
<1>2. Set(p, [initiator |-> p, paused |-> TRUE]) \in Replicas
  <2> DEFINE patch == [initiator |-> p, paused |-> TRUE]
  <2>1. \A k \in Keys \cap DOMAIN patch : patch[k] \in Values[k]
    <3>1. DOMAIN patch = {"initiator", "paused"} /\ patch["initiator"] = p /\ patch["paused"] = TRUE
      OBVIOUS
    <3> QED BY <3>1, ValuesAre
  <2> QED BY <2>1, SetIs
<1>3. Set(p, [paused |-> FALSE]) \in Replicas
  <2> DEFINE patch == [paused |-> FALSE]
  <2>1. \A k \in Keys \cap DOMAIN patch : patch[k] \in Values[k]
    <3>1. DOMAIN patch = {"paused"} /\ patch["paused"] = FALSE
      OBVIOUS
    <3> QED BY <3>1, ValuesAre
  <2> QED BY <2>1, SetIs
<1>4. ASSUME NEW n \in Stops PROVE Set(p, [paused |-> TRUE, frames |-> n]) \in Replicas
  <2> DEFINE patch == [paused |-> TRUE, frames |-> n]
  <2>1. \A k \in Keys \cap DOMAIN patch : patch[k] \in Values[k]
    <3>1. DOMAIN patch = {"paused", "frames"} /\ patch["paused"] = TRUE /\ patch["frames"] = n
      OBVIOUS
    <3> QED BY <3>1, ValuesAre
  <2> QED BY <2>1, SetIs
<1> QED BY <1>1, <1>2, <1>3, <1>4 DEF Broadcast

\* What p makes of news of the map.
Merged(p, news) ==
    [k \in Keys |-> IF k \in DOMAIN news THEN Joined(k, doc[p][k], news[k]) ELSE doc[p][k]]

LEMMA JoinedIs ==
    ASSUME NEW k, NEW r, NEW s
    PROVE  Joined(k, r, s) \in {r, s}
BY DEF Joined

LEMMA MergedIs ==
    ASSUME DocTypes, NEW p \in Peers, NEW news \in Patches
    PROVE  /\ Merged(p, news) \in Replicas
           /\ \A k \in Keys : Merged(p, news)[k] = IF k \in DOMAIN news THEN Joined(k, doc[p][k], news[k]) ELSE doc[p][k]
<1>1. ASSUME NEW k \in Keys PROVE Merged(p, news)[k] \in Entry(k)
  <2>1. doc[p][k] \in Entry(k)
    BY ReplicaIs DEF DocTypes
  <2>2. CASE k \in DOMAIN news
    <3>1. news[k] \in Entry(k)
      BY <2>2, PatchIs
    <3>2. Merged(p, news)[k] = Joined(k, doc[p][k], news[k])
      BY <2>2 DEF Merged
    <3> QED BY <2>1, <3>1, <3>2, JoinedIs
  <2>3. CASE k \notin DOMAIN news
    BY <2>1, <2>3 DEF Merged
  <2> QED BY <2>2, <2>3
<1>2. Merged(p, news) = [k \in Keys |-> Merged(p, news)[k]]
  BY DEF Merged
<1> QED BY <1>1, <1>2, ReplicaIs DEF Merged

LEMMA TypesInit == DebugMirrorAssumption /\ DebugInit => DebugTypes
<1> SUFFICES ASSUME DebugMirrorAssumption, DebugInit PROVE DebugTypes
  OBVIOUS
<1>1. VmTypes
  <2>1. 0 \in Stops /\ "none" \in Runs
    BY DEF DebugMirrorAssumption, Stops, Runs
  <2> QED BY <2>1 DEF VmTypes, DebugInit
<1>2. UiTypes /\ GhostTypes
  BY DEF UiTypes, GhostTypes, DebugInit
<1>3. DocTypes
  <2> DEFINE d == [k \in Keys |-> [path |-> <<>>, val |-> Unset[k]]]
  <2>1. ASSUME NEW k \in Keys PROVE d[k] \in Entry(k)
    <3>1. <<>> \in Seq(Nat) /\ Unset[k] \in Values[k]
      BY ValuesAre
    <3> QED BY <3>1, EntryIs
  <2>2. d = [k \in Keys |-> d[k]]
    OBVIOUS
  <2>3. d \in Replicas
    <3> HIDE DEF d
    <3> QED BY <2>1, <2>2, ReplicaIs
  <2>4. doc = [p \in Peers |-> d] /\ net = [p \in Peers |-> [q \in Peers |-> <<>>]]
    BY DEF DebugInit
  <2> HIDE DEF d
  <2> QED BY <2>3, <2>4 DEF DocTypes
<1> QED BY <1>1, <1>2, <1>3 DEF DebugTypes

\* The user's steps.
LEMMA TypesUser ==
    ASSUME DebugMirrorAssumption, DebugTypes, NEW p \in Peers,
           Debug(p) \/ Stop(p) \/ \E op \in Control : Press(p, op)
    PROVE  DebugTypes'
<1> USE DEF DebugTypes
<1>0. \A op \in Control \cup {"launch", "terminate"} : \A q \in Peers : [op |-> op, by |-> q] \in Calls
  BY CallIs DEF Requests, Control
<1>n. ASSUME NEW op \in Control \cup {"terminate"}, NEW q, net' = [net EXCEPT ![p][q] = Append(@, [kind |-> "rpc", op |-> op])]
      PROVE  net' \in [Peers -> [Peers -> Seq(Messages)]]
  <2>1. [kind |-> "rpc", op |-> op] \in Messages
    BY MessageIs
  <2>2. CASE q \in Peers
    <3>1. Append(net[p][q], [kind |-> "rpc", op |-> op]) \in Seq(Messages)
      BY <2>1, <2>2 DEF DocTypes
    <3> QED BY <1>n, <3>1 DEF DocTypes
  <2>3. CASE q \notin Peers
    <3>1. net' = net
      BY <1>n, <2>3 DEF DocTypes
    <3> QED BY <3>1 DEF DocTypes
  <2> QED BY <2>2, <2>3
<1>1. CASE Debug(p)
  <2>1. toVm' \in [Peers -> Seq(Calls)]
    BY <1>0, <1>1, PostIs DEF Debug, Post
  <2>2. UNCHANGED <<vm, toPage, active, paused, fatal, inner, doc, net, late, contested, cut>>
        /\ phase' = [phase EXCEPT ![p] = "launching"]
    BY <1>1 DEF Debug
  <2> QED BY <2>1, <2>2 DEF VmTypes, UiTypes, DocTypes, GhostTypes
<1>2. CASE Stop(p)
  <2>1. toVm' \in [Peers -> Seq(Calls)]
    <3>1. CASE Post(p, "terminate", p)
      BY <1>0, <3>1, PostIs DEF Post
    <3> QED BY <1>2, <3>1 DEF Stop, VmTypes
  <2>2. net' \in [Peers -> [Peers -> Seq(Messages)]]
    <3>1. CASE UNCHANGED net
      BY <3>1 DEF DocTypes
    <3>2. CASE net' = [net EXCEPT ![p][Initiator(p)] = Append(@, [kind |-> "rpc", op |-> "terminate"])]
      BY <1>n, <3>2
    <3> QED BY <1>2, <3>1, <3>2 DEF Stop
  <2>3. UNCHANGED <<vm, toPage, phase, inner, doc, late, contested, cut>>
        /\ active' = [active EXCEPT ![p] = FALSE] /\ paused' = [paused EXCEPT ![p] = FALSE]
        /\ fatal' = [fatal EXCEPT ![p] = FALSE]
    BY <1>2 DEF Stop
  <2> QED BY <2>1, <2>2, <2>3 DEF VmTypes, UiTypes, DocTypes, GhostTypes
<1>3. ASSUME NEW op \in Control, Press(p, op) PROVE DebugTypes'
  <2>1. toVm' \in [Peers -> Seq(Calls)]
    <3>1. CASE Post(p, op, p)
      BY <1>0, <3>1, PostIs DEF Post
    <3> QED BY <1>3, <3>1 DEF Press, VmTypes
  <2>2. net' \in [Peers -> [Peers -> Seq(Messages)]]
    <3>1. CASE UNCHANGED net
      BY <3>1 DEF DocTypes
    <3>2. CASE net' = [net EXCEPT ![p][Initiator(p)] = Append(@, [kind |-> "rpc", op |-> op])]
      BY <1>n, <3>2
    <3> QED BY <1>3, <3>1, <3>2 DEF Press
  <2>3. UNCHANGED <<vm, toPage, ui, doc, late, contested, cut>>
    BY <1>3 DEF Press
  <2> QED BY <2>1, <2>2, <2>3 DEF VmTypes, UiTypes, DocTypes, GhostTypes, ui
<1> QED BY <1>1, <1>2, <1>3

\* The iframe's steps.
LEMMA TypesVm ==
    ASSUME DebugMirrorAssumption, DebugTypes, NEW p \in Peers, VmTakes(p) \/ VmStops(p) \/ VmEnds(p)
    PROVE  DebugTypes'
<1> USE DEF DebugTypes
<1>0. vm[p] \in [run : Runs, at : Stops]
  BY DEF VmTypes
<1>1. ASSUME NEW run \in Runs, vm' = [vm EXCEPT ![p].run = run]
      PROVE  vm' \in [Peers -> [run : Runs, at : Stops]]
  BY <1>0, <1>1 DEF VmTypes
<1>2. \A op \in {"launched", "refused", "stopped", "exited", "unwound", "crashed"} : [op |-> op] \in Events
  BY EventIs
<1>3. CASE VmTakes(p)
  <2> DEFINE r == Head(toVm[p])  alive == vm[p].run \in Going \cup {"paused"}
  <2>1. r \in Calls /\ toVm' \in [Peers -> Seq(Calls)]
    <3>1. toVm[p] \in Seq(Calls) /\ toVm[p] # <<>>
      BY <1>3 DEF VmTypes, VmTakes
    <3>2. r \in Calls /\ Tail(toVm[p]) \in Seq(Calls)
      BY <3>1
    <3>3. toVm' = [toVm EXCEPT ![p] = Tail(@)]
      BY <1>3 DEF VmTakes
    <3> QED BY <3>2, <3>3 DEF VmTypes
  <2>2. r.by \in Peers /\ (r.op = "scopes" => r.at \in Stops) /\ (r.op \in Returned => r \in Events)
    BY <2>1, CallIs, EventIs
  <2>3. UNCHANGED <<ui, doc, net, late, contested, cut>>
    BY <1>3 DEF VmTakes
  <2>4. vm' \in [Peers -> [run : Runs, at : Stops]] /\ toPage' \in [Peers -> Seq(Events)]
    <3>0. {"none", "paused", "running", "stepping", "crashed"} = Runs /\ vm[p].run \in Runs
      BY <1>0 DEF Runs, Going
    <3>1. CASE r.op = "launch"
      <4>1. \/ vm' = [vm EXCEPT ![p].run = "paused"] /\ Tell(p, [op |-> "launched"])
            \/ vm' = [vm EXCEPT ![p].run = "none"] /\ Tell(p, [op |-> "refused"])
        BY <1>3, <3>1 DEF VmTakes, Control
      <4> QED BY <1>1, <1>2, <3>0, <4>1, TellIs
    <3>2. CASE r.op \in {"enter", "continue", "step"} /\ vm[p].run # "crashed"
      <4> DEFINE run == IF ~alive THEN vm[p].run ELSE IF r.op = "step" THEN "stepping" ELSE "running"
      <4>1. vm' = [vm EXCEPT ![p].run = run] /\ Tell(p, r)
        BY <1>3, <3>2 DEF VmTakes, Control
      <4>2. run \in Runs
        BY <3>0
      <4>3. r \in Events
        BY <2>2, <3>2 DEF Returned, Control
      <4> HIDE DEF run, r
      <4> QED BY <1>1, <4>1, <4>2, <4>3, TellIs
    <3>3. CASE r.op = "pause" /\ vm[p].run # "crashed"
      <4> DEFINE run == IF alive THEN "paused" ELSE vm[p].run
      <4>1. vm' = [vm EXCEPT ![p].run = run] /\ Tell(p, r)
        BY <1>3, <3>3 DEF VmTakes, Control
      <4>2. run \in Runs
        BY <3>0
      <4>3. r \in Events
        BY <2>2, <3>3 DEF Returned, Control
      <4> HIDE DEF run, r
      <4> QED BY <1>1, <4>1, <4>2, <4>3, TellIs
    <3>4. CASE r.op \in Control \cup {"enter"} /\ vm[p].run = "crashed"
      <4>1. UNCHANGED <<vm, toPage>>
        BY <1>3, <3>4 DEF VmTakes, Control
      <4> QED BY <4>1 DEF VmTypes
    <3>5. CASE r.op = "frames"
      <4>1. UNCHANGED vm /\ Tell(p, [op |-> "frames", by |-> r.by, at |-> vm[p].at])
        BY <1>3, <3>5 DEF VmTakes, Control
      <4>2. [op |-> "frames", by |-> r.by, at |-> vm[p].at] \in Events
        BY <1>0, <2>2, EventIs
      <4> QED BY <4>1, <4>2, TellIs DEF VmTypes
    <3>6. CASE r.op = "scopes"
      <4>1. UNCHANGED vm /\ Tell(p, r)
        BY <1>3, <3>6 DEF VmTakes, Control
      <4>2. r \in Events
        BY <2>2, <3>6 DEF Returned
      <4> HIDE DEF r
      <4> QED BY <4>1, <4>2, TellIs DEF VmTypes
    <3>7. CASE r.op = "terminate"
      <4>1. vm' = [vm EXCEPT ![p].run = "none"]
        BY <1>3, <3>7 DEF VmTakes, Control
      <4>2. r \in Events
        BY <2>2, <3>7 DEF Returned
      <4>3. \/ Tell(p, r) \/ toPage' = [toPage EXCEPT ![p] = @ \o <<r, [op |-> "exited"]>>]
            \/ toPage' = [toPage EXCEPT ![p] = @ \o <<r, [op |-> "unwound"]>>]
        BY <1>3, <3>7 DEF VmTakes, Control
      <4>4. toPage' \in [Peers -> Seq(Events)]
        <5> HIDE DEF r
        <5>1. CASE Tell(p, r)
          BY <4>2, <5>1, TellIs
        <5>2. ASSUME NEW m \in Events, toPage' = [toPage EXCEPT ![p] = @ \o <<r, m>>]
              PROVE  toPage' \in [Peers -> Seq(Events)]
          <6>1. <<r, m>> \in Seq(Events) /\ toPage[p] \in Seq(Events)
            BY <4>2 DEF VmTypes
          <6>2. toPage[p] \o <<r, m>> \in Seq(Events)
            BY <6>1
          <6> QED BY <5>2, <6>2 DEF VmTypes
        <5> QED BY <1>2, <4>3, <5>1, <5>2
      <4> QED BY <1>1, <3>0, <4>1, <4>4
    <3>8. CASE r.op = "halt"
      <4>1. UNCHANGED toPage /\ vm' = [vm EXCEPT ![p].run = "none"]
        BY <1>3, <3>8 DEF VmTakes, Control
      <4> QED BY <1>1, <3>0, <4>1 DEF VmTypes
    <3>9. r.op \in Requests
      BY <2>1, CallIs
    <3> HIDE DEF r
    <3> QED BY <3>1, <3>2, <3>3, <3>4, <3>5, <3>6, <3>7, <3>8, <3>9 DEF Requests, Control
  <2> QED BY <2>1, <2>3, <2>4 DEF VmTypes, UiTypes, DocTypes, GhostTypes, ui
<1>4. CASE VmStops(p)
  <2>1. vm' = [vm EXCEPT ![p] = [run |-> "paused", at |-> vm[p].at + 1]] /\ vm[p].at < MaxStops
    BY <1>4 DEF VmStops
  <2>2. vm[p].at + 1 \in Stops /\ "paused" \in Runs
    BY <1>0, <2>1 DEF Stops, DebugMirrorAssumption, Runs
  <2>3. toPage' \in [Peers -> Seq(Events)]
    BY <1>2, <1>4, TellIs DEF VmStops
  <2>4. UNCHANGED <<toVm, ui, doc, net, late, contested, cut>>
    BY <1>4 DEF VmStops
  <2> QED BY <2>1, <2>2, <2>3, <2>4 DEF VmTypes, UiTypes, DocTypes, GhostTypes, ui
<1>5. CASE VmEnds(p)
  <2>1. \/ vm' = [vm EXCEPT ![p].run = "none"] /\ Tell(p, [op |-> "exited"])
        \/ vm' = [vm EXCEPT ![p].run = "crashed"] /\ Tell(p, [op |-> "crashed"])
    BY <1>5 DEF VmEnds
  <2>2. toPage' \in [Peers -> Seq(Events)]
    BY <1>2, <2>1, TellIs
  <2>3. vm' \in [Peers -> [run : Runs, at : Stops]]
    BY <1>1, <2>1 DEF Runs
  <2>4. UNCHANGED <<toVm, ui, doc, net, late, contested, cut>>
    BY <1>5 DEF VmEnds
  <2> QED BY <2>2, <2>3, <2>4 DEF VmTypes, UiTypes, DocTypes, GhostTypes, ui
<1> QED BY <1>3, <1>4, <1>5

\* What the page has taken.
LEMMA HeadIs ==
    ASSUME VmTypes, NEW p \in Peers, NEW op, Takes(p, op), Taken(p)
    PROVE  /\ toPage' \in [Peers -> Seq(Events)] /\ Head(toPage[p]).op = op
           /\ op \in Returned \cup {"frames"} => Head(toPage[p]).by \in Peers
           /\ op \in {"frames", "scopes"} => Head(toPage[p]).at \in Stops
<1>1. toPage[p] # <<>> /\ Head(toPage[p]).op = op
  BY DEF Takes
<1>2. Head(toPage[p]) \in Events
  BY <1>1, TakenIs
<1> QED BY <1>1, <1>2, TakenIs, EventIs

\* The steps of the page.
LEMMA TypesPage ==
    ASSUME DebugMirrorAssumption, DebugTypes, NEW p \in Peers, Page(p)
    PROVE  DebugTypes'
<1> USE DEF DebugTypes
<1> DEFINE r == Head(toPage[p])
<1>0. \A op \in Requests \ {"scopes"} : \A q \in Peers : [op |-> op, by |-> q] \in Calls
  BY CallIs
<1>p. ASSUME NEW op \in Requests \ {"scopes"}, NEW q \in Peers, Post(p, op, q) PROVE toVm' \in [Peers -> Seq(Calls)]
  BY <1>0, <1>p, PostIs DEF Post
<1>r. {"enter", "continue", "step", "pause", "terminate", "scopes"} \subseteq Returned /\ Returned \subseteq Requests
  BY DEF Returned, Requests, Control
<1>b. doc[p] \in Replicas /\ Cleared(p) \in Replicas
  BY BroadcastIs, ClearedIs
<1>u. ASSUME NEW f, f \in [Peers -> BOOLEAN], NEW b, b \in BOOLEAN PROVE [f EXCEPT ![p] = b] \in [Peers -> BOOLEAN]
  BY <1>u
<1>1. CASE Launched(p)
  <2>1. toPage' \in [Peers -> Seq(Events)]
    BY <1>1, HeadIs DEF Launched
  <2>2. toVm' \in [Peers -> Seq(Calls)]
    BY <1>1, <1>p DEF Launched, Requests
  <2>3. DocTypes'
    BY <1>1, BroadcastIs, AnswerIs, PublishIs DEF Launched
  <2>4. UNCHANGED <<vm, contested, cut>> /\ phase' = [phase EXCEPT ![p] = "entering"]
        /\ active' = [active EXCEPT ![p] = TRUE] /\ paused' = [paused EXCEPT ![p] = TRUE]
        /\ fatal' = [fatal EXCEPT ![p] = FALSE] /\ inner' = [inner EXCEPT ![p] = "local"]
        /\ late' = [late EXCEPT ![p] = FALSE]
    BY <1>1 DEF Launched
  <2> QED BY <2>1, <2>2, <2>3, <2>4 DEF VmTypes, UiTypes, GhostTypes
<1>2. CASE Refused(p)
  <2>1. toPage' \in [Peers -> Seq(Events)]
    BY <1>2, HeadIs DEF Refused
  <2>2. UNCHANGED <<vm, toVm, active, paused, fatal, inner, doc, net, late, contested, cut>>
        /\ phase' = [phase EXCEPT ![p] = "idle"]
    BY <1>2 DEF Refused
  <2> QED BY <2>1, <2>2 DEF VmTypes, UiTypes, DocTypes, GhostTypes
<1>3. CASE Resumed(p)
  <2>1. toPage' \in [Peers -> Seq(Events)] /\ r.op \in Requests /\ r.by \in Peers
    BY <1>3, <1>r, HeadIs DEF Resumed
  <2>2. DocTypes'
    <3>1. PublishMap(p, Broadcast(p, [paused |-> FALSE]), Reply(p, r.by, r.op))
      BY <1>3 DEF Resumed
    <3> HIDE DEF r
    <3> QED BY <2>1, <3>1, BroadcastIs, AnswerIs, PublishIs
  <2>3. UNCHANGED <<vm, toVm, active, fatal, inner, contested, cut>>
    BY <1>3 DEF Resumed
  <2>4. paused' = [paused EXCEPT ![p] = FALSE]
    BY <1>3 DEF Resumed
  <2>5. phase' \in [Peers -> {"idle", "launching", "entering"}]
    <3>1. phase' = [phase EXCEPT ![p] = "idle"] \/ phase' = phase
      BY <1>3 DEF Resumed
    <3> QED BY <3>1 DEF UiTypes
  <2>6. late' \in [Peers -> BOOLEAN]
    <3>1. late' = [late EXCEPT ![p] = ~active[p]] \/ late' = [late EXCEPT ![p] = late[p]]
      BY <1>3 DEF Resumed
    <3>2. late[p] \in BOOLEAN
      BY DEF GhostTypes
    <3>3. (~active[p]) \in BOOLEAN
      OBVIOUS
    <3> QED BY <3>1, <3>2, <3>3 DEF GhostTypes
  <2> QED BY <2>1, <2>2, <2>3, <2>4, <2>5, <2>6 DEF VmTypes, UiTypes, GhostTypes
<1>4. CASE Stepped(p)
  <2>1. toPage' \in [Peers -> Seq(Events)]
    BY <1>4, <1>r, HeadIs DEF Stepped
  <2>2. DocTypes'
    <3>1. PublishMap(p, doc[p], Reply(p, r.by, "step"))
      BY <1>4 DEF Stepped
    <3>2. "step" \in Requests
      BY <1>r
    <3> QED BY <1>b, <3>1, <3>2, AnswerIs, PublishIs
  <2>3. UNCHANGED <<vm, toVm, active, fatal, phase, inner, late, contested, cut>>
        /\ paused' = [paused EXCEPT ![p] = FALSE]
    BY <1>4 DEF Stepped
  <2> QED BY <2>1, <2>2, <2>3 DEF VmTypes, UiTypes, GhostTypes
<1>5. CASE Paused(p)
  <2> DEFINE event == r.op = "stopped"
             heard == event => inner[p] = "local"
             by == IF event THEN p ELSE r.by
  <2>1. toPage' \in [Peers -> Seq(Events)] /\ by \in Peers
    <3>1. CASE Takes(p, "pause") /\ Taken(p)
      BY <1>r, <3>1, HeadIs
    <3>2. CASE Takes(p, "stopped") /\ Taken(p)
      BY <1>r, <3>2, HeadIs
    <3> QED BY <1>5, <3>1, <3>2 DEF Paused
  <2>2. \/ Post(p, "frames", by) /\ UNCHANGED <<doc, net>>
        \/ UNCHANGED toVm /\ PublishMap(p, doc[p], Reply(p, by, "pause"))
    BY <1>5 DEF Paused
  <2>3. UNCHANGED <<vm, active, fatal, phase, inner, late, contested, cut>>
        /\ paused' = [paused EXCEPT ![p] = @ \/ heard]
    BY <1>5 DEF Paused
  <2>4. paused' \in [Peers -> BOOLEAN]
    BY <2>3 DEF UiTypes
  <2> HIDE DEF by
  <2>5. toVm' \in [Peers -> Seq(Calls)]
    BY <1>p, <2>1, <2>2 DEF VmTypes, Requests
  <2>6. DocTypes'
    <3>1. "pause" \in Requests
      BY <1>r
    <3>2. CASE UNCHANGED <<doc, net>>
      BY <3>2 DEF DocTypes
    <3>3. CASE PublishMap(p, doc[p], Reply(p, by, "pause"))
      BY <1>b, <3>1, <3>3, AnswerIs, PublishIs
    <3> QED BY <2>2, <3>2, <3>3
  <2> QED BY <2>1, <2>3, <2>4, <2>5, <2>6 DEF VmTypes, UiTypes, GhostTypes
<1>6. CASE Framed(p)
  <2>1. toPage' \in [Peers -> Seq(Events)] /\ r.by \in Peers /\ r.at \in Stops
    BY <1>6, HeadIs DEF Framed
  <2>2. \/ /\ toVm' = [toVm EXCEPT ![p] = Append(@, [op |-> "scopes", by |-> r.by, at |-> r.at])]
           /\ UNCHANGED <<doc, net>>
        \/ UNCHANGED toVm /\ PublishMap(p, doc[p], Reply(p, r.by, "pause"))
    BY <1>6 DEF Framed
  <2>3. UNCHANGED <<vm, ui, late, contested, cut>>
    BY <1>6 DEF Framed
  <2>4. [op |-> "scopes", by |-> r.by, at |-> r.at] \in Calls
    BY <2>1, CallIs
  <2> HIDE DEF r
  <2>5. toVm' \in [Peers -> Seq(Calls)]
    <3>1. CASE UNCHANGED toVm
      BY <3>1 DEF VmTypes
    <3> QED BY <2>2, <2>4, <3>1, PostIs
  <2>6. DocTypes'
    <3>1. "pause" \in Requests
      BY <1>r
    <3>2. CASE UNCHANGED <<doc, net>>
      BY <3>2 DEF DocTypes
    <3>3. CASE PublishMap(p, doc[p], Reply(p, r.by, "pause"))
      BY <1>b, <3>1, <3>3, AnswerIs, PublishIs
    <3> QED BY <2>2, <3>2, <3>3
  <2> QED BY <2>1, <2>3, <2>5, <2>6 DEF VmTypes, UiTypes, GhostTypes, ui
<1>7. CASE Snapshot(p)
  <2>1. toPage' \in [Peers -> Seq(Events)] /\ r.at \in Stops
    BY <1>7, HeadIs DEF Snapshot
  <2>2. PublishMap(p, Broadcast(p, [paused |-> TRUE, frames |-> r.at]), Reply(p, r.by, "pause"))
    BY <1>7 DEF Snapshot
  <2>3. UNCHANGED <<vm, toVm, ui, contested, cut>>
        /\ late' = [late EXCEPT ![p] = IF Mine(p) THEN ~(active[p] /\ paused[p]) ELSE @]
    BY <1>7 DEF Snapshot
  <2>4. late' \in [Peers -> BOOLEAN]
    BY <2>3 DEF GhostTypes
  <2>5. DocTypes'
    <3>1. "pause" \in Requests
      BY <1>r
    <3> HIDE DEF r
    <3> QED BY <2>1, <2>2, <3>1, BroadcastIs, AnswerIs, PublishIs
  <2> QED BY <2>1, <2>3, <2>4, <2>5 DEF VmTypes, UiTypes, GhostTypes, ui
<1>8. CASE Exited(p)
  <2> DEFINE heard == inner[p] = "local"
  <2>1. toPage' \in [Peers -> Seq(Events)]
    BY <1>8, HeadIs DEF Exited
  <2>2. DocTypes'
    <3>1. PublishMap(p, Cleared(p), Nothing) \/ PublishMap(p, doc[p], Nothing)
      BY <1>8 DEF Exited
    <3> QED BY <1>b, <3>1, AnswerIs, PublishIs
  <2>3. UNCHANGED <<vm, toVm, phase, inner, late, contested, cut>>
        /\ active' = [active EXCEPT ![p] = @ /\ ~heard]
        /\ paused' = [paused EXCEPT ![p] = @ /\ ~heard]
        /\ fatal' = [fatal EXCEPT ![p] = @ /\ ~heard]
    BY <1>8 DEF Exited
  <2> QED BY <2>1, <2>2, <2>3 DEF VmTypes, UiTypes, GhostTypes
<1>9. CASE Unwound(p)
  <2> DEFINE heard == inner[p] = "local"
  <2>1. toPage' \in [Peers -> Seq(Events)]
    BY <1>9, HeadIs DEF Unwound
  <2>3. UNCHANGED <<vm, toVm, doc, net, phase, inner, late, contested>>
        /\ active' = [active EXCEPT ![p] = @ /\ ~heard]
        /\ paused' = [paused EXCEPT ![p] = @ /\ ~heard]
        /\ fatal' = [fatal EXCEPT ![p] = @ /\ ~heard]
        /\ cut' = (cut \/ (heard /\ Initiator(p) = p))
    BY <1>9 DEF Unwound
  <2> QED BY <2>1, <2>3 DEF VmTypes, UiTypes, GhostTypes, DocTypes
<1>10. CASE Crashed(p)
  <2> DEFINE heard == inner[p] = "local"
  <2>1. toPage' \in [Peers -> Seq(Events)]
    BY <1>10, HeadIs DEF Crashed
  <2>3. UNCHANGED <<vm, toVm, active, doc, net, phase, inner, late, contested, cut>>
        /\ paused' = [paused EXCEPT ![p] = @ \/ heard]
        /\ fatal' = [fatal EXCEPT ![p] = @ \/ heard]
    BY <1>10 DEF Crashed
  <2> QED BY <2>1, <2>3 DEF VmTypes, UiTypes, GhostTypes, DocTypes
<1>11. CASE Terminated(p)
  <2>1. toPage' \in [Peers -> Seq(Events)]
    BY <1>11, HeadIs DEF Terminated
  <2>2. \/ PublishMap(p, Cleared(p), Nothing) /\ Post(p, "halt", p)
        \/ PublishMap(p, doc[p], Reply(p, r.by, "terminate")) /\ UNCHANGED toVm
    BY <1>11 DEF Terminated
  <2>3. UNCHANGED <<vm, ui, late, contested, cut>>
    BY <1>11 DEF Terminated
  <2>4. toVm' \in [Peers -> Seq(Calls)]
    BY <1>p, <2>2 DEF VmTypes, Requests
  <2>5. DocTypes'
    <3>1. "terminate" \in Requests
      BY <1>r
    <3>2. CASE PublishMap(p, Cleared(p), Nothing)
      BY <1>b, <3>2, AnswerIs, PublishIs
    <3>3. CASE PublishMap(p, doc[p], Reply(p, r.by, "terminate"))
      BY <1>b, <3>1, <3>3, AnswerIs, PublishIs
    <3> QED BY <2>2, <3>2, <3>3
  <2> QED BY <2>1, <2>3, <2>4, <2>5 DEF VmTypes, UiTypes, GhostTypes, ui
<1> QED BY <1>1, <1>2, <1>3, <1>4, <1>5, <1>6, <1>7, <1>8, <1>9, <1>10, <1>11 DEF Page

\* The head of a channel.
LEMMA ArrivalIs ==
    ASSUME DocTypes, NEW p \in Peers, NEW q \in Peers, NEW kind, Arrives(p, q, kind)
    PROVE  /\ net[q][p] \in Seq(Messages) /\ net[q][p] # <<>> /\ Tail(net[q][p]) \in Seq(Messages)
           /\ Head(net[q][p]) \in Messages /\ Head(net[q][p]).kind = kind
BY DEF DocTypes, Arrives

\* Messages between peers.
LEMMA TypesMeet ==
    ASSUME DebugMirrorAssumption, DebugTypes, NEW p \in Peers, NEW q \in Peers, Meets(p, q)
    PROVE  DebugTypes'
<1> USE DEF DebugTypes
<1>t. ASSUME NEW kind, Arrives(p, q, kind), Received(p, q)
      PROVE  net' \in [Peers -> [Peers -> Seq(Messages)]]
  BY <1>t, ArrivalIs DEF DocTypes, Received
<1>b. doc[p] \in Replicas /\ Cleared(p) \in Replicas
  BY BroadcastIs, ClearedIs
<1>1. CASE Learn(p, q)
  <2> DEFINE m == Head(net[q][p])  d == Merged(p, m.doc)
  <2>1. Arrives(p, q, "doc") /\ Received(p, q) /\ doc' = [doc EXCEPT ![p] = d] /\ Swap(p, d)
        /\ contested' = (contested \/ (inner[p] # inner'[p] /\ inner[p] = "local" /\ Own(p)))
        /\ UNCHANGED <<vmvars, phase, late, cut>>
    BY <1>1 DEF Learn, Merged
  <2>2. m.doc \in Patches
    BY <2>1, ArrivalIs, MessageIs
  <2>3. d \in Replicas
    <3> HIDE DEF m
    <3> QED BY <2>2, MergedIs
  <2>4. d["initiator"].val \in Peers \cup {NoOne} /\ d["paused"].val \in BOOLEAN
    BY <2>3, ReplicaIs, EntryIs, ValuesAre DEF Keys
  <2> HIDE DEF d
  <2>5. UiTypes'
    <3> DEFINE init == d["initiator"].val  observe == init \notin {NoOne, p}
               release == ~observe /\ inner[p] = "remote" /\ init # p
    <3>1. inner' = [inner EXCEPT ![p] = IF observe THEN "remote" ELSE "local"]
      BY <2>1 DEF Swap
    <3>2. active' = [active EXCEPT ![p] = IF observe THEN TRUE ELSE @ /\ ~release]
      BY <2>1 DEF Swap
    <3>3. paused' = [paused EXCEPT ![p] = IF observe THEN d["paused"].val ELSE @ /\ ~release]
      BY <2>1 DEF Swap
    <3>4. fatal' = [fatal EXCEPT ![p] = @ /\ ~release]
      BY <2>1 DEF Swap
    <3>5. active[p] \in BOOLEAN /\ paused[p] \in BOOLEAN /\ fatal[p] \in BOOLEAN
      BY DEF UiTypes
    <3>6. observe \in BOOLEAN /\ release \in BOOLEAN
      OBVIOUS
    <3> HIDE DEF observe, release
    <3>7. inner' \in [Peers -> {"local", "remote"}]
      BY <3>1 DEF UiTypes
    <3>8. active' \in [Peers -> BOOLEAN]
      BY <3>2, <3>5, <3>6 DEF UiTypes
    <3>9. paused' \in [Peers -> BOOLEAN]
      BY <2>4, <3>3, <3>5, <3>6 DEF UiTypes
    <3>10. fatal' \in [Peers -> BOOLEAN]
      BY <3>4, <3>5, <3>6 DEF UiTypes
    <3> QED BY <2>1, <3>7, <3>8, <3>9, <3>10 DEF UiTypes
  <2>6. DocTypes'
    BY <1>t, <2>1, <2>3 DEF DocTypes
  <2>7. GhostTypes'
    BY <2>1 DEF GhostTypes
  <2> QED BY <2>1, <2>5, <2>6, <2>7 DEF VmTypes, vmvars
<1>2. CASE Serve(p, q)
  <2> DEFINE op == Head(net[q][p]).op
  <2>1. Arrives(p, q, "rpc") /\ UNCHANGED <<vm, toPage, ui, doc, late, contested, cut>>
    BY <1>2 DEF Serve
  <2>2. \/ Received(p, q) /\ Post(p, op, q)
        \/ /\ UNCHANGED toVm
           /\ net' = [net EXCEPT ![q][p] = Tail(@), ![p][q] = Append(@, [kind |-> "reply", op |-> "error"])]
    BY <1>2 DEF Serve
  <2>3. op \in Control \cup {"terminate"}
    BY <2>1, ArrivalIs, MessageIs
  <2>4. [op |-> op, by |-> q] \in Calls
    <3> HIDE DEF op
    <3> QED BY <2>3, CallIs DEF Requests, Control
  <2>5. toVm' \in [Peers -> Seq(Calls)]
    BY <2>2, <2>4, PostIs DEF Post, VmTypes
  <2>6. net' \in [Peers -> [Peers -> Seq(Messages)]]
    <3>1. CASE net' = [net EXCEPT ![q][p] = Tail(@), ![p][q] = Append(@, [kind |-> "reply", op |-> "error"])]
      <4> DEFINE t == Tail(net[q][p])  a == Append(net[p][q], [kind |-> "reply", op |-> "error"])
      <4>1. net' = [net EXCEPT ![q][p] = t, ![p][q] = a]
        BY <3>1
      <4>2. t \in Seq(Messages)
        BY <2>1, ArrivalIs
      <4>3. a \in Seq(Messages)
        <5>1. [kind |-> "reply", op |-> "error"] \in Messages
          BY MessageIs
        <5> QED BY <5>1 DEF DocTypes
      <4> HIDE DEF t, a
      <4> QED BY <4>1, <4>2, <4>3 DEF DocTypes
    <3> QED BY <1>t, <2>1, <2>2, <3>1
  <2> QED BY <2>1, <2>5, <2>6 DEF VmTypes, UiTypes, DocTypes, GhostTypes, ui
<1>3. CASE Answered(p, q)
  <2> DEFINE op == Head(net[q][p]).op
             d == CASE op = "continue" -> Broadcast(p, [paused |-> FALSE])
                    [] op = "terminate" -> Cleared(p)
                    [] OTHER -> doc[p]
  <2>1. /\ Arrives(p, q, "reply") /\ UNCHANGED <<vm, toPage, active, fatal, phase, inner, cut>>
        /\ paused' = IF op \in Control THEN [paused EXCEPT ![p] = op = "pause"] ELSE paused
        /\ doc' = [doc EXCEPT ![p] = d]
        /\ net' = [net EXCEPT ![q][p] = Tail(@), ![p] = Sending(p, d, Nothing)]
        /\ contested' = (contested \/ (inner[p] = "local" /\ Own(p)))
        /\ late' = [late EXCEPT ![p] = @ \/ d # doc[p]]
    BY <1>3 DEF Answered
  <2>2. toVm' = toVm \/ Post(p, "frames", p) \/ Post(p, "halt", p)
    BY <1>3 DEF Answered
  <2>3. d \in Replicas
    BY <1>b, BroadcastIs
  <2> HIDE DEF d
  <2>4. toVm' \in [Peers -> Seq(Calls)]
    <3>1. [op |-> "frames", by |-> p] \in Calls /\ [op |-> "halt", by |-> p] \in Calls
      BY CallIs DEF Requests
    <3> QED BY <2>2, <3>1, PostIs DEF Post, VmTypes
  <2>5. DocTypes'
    <3>1. Sending(p, d, Nothing) \in [Peers -> Seq(Messages)]
      BY <2>3, AnswerIs, SendingIs
    <3> DEFINE n == [net EXCEPT ![q][p] = Tail(@)]
    <3>2. n \in [Peers -> [Peers -> Seq(Messages)]]
      BY <2>1, ArrivalIs DEF DocTypes
    <3>3. net' = [n EXCEPT ![p] = Sending(p, d, Nothing)]
      BY <2>1
    <3> HIDE DEF n
    <3> QED BY <2>1, <2>3, <3>1, <3>2, <3>3 DEF DocTypes
  <2>6. UiTypes' /\ GhostTypes'
    <3>1. paused' \in [Peers -> BOOLEAN]
      BY <2>1 DEF UiTypes
    <3>2. late' \in [Peers -> BOOLEAN] /\ contested' \in BOOLEAN
      BY <2>1 DEF GhostTypes
    <3> QED BY <2>1, <3>1, <3>2 DEF UiTypes, GhostTypes
  <2> QED BY <2>1, <2>4, <2>5, <2>6 DEF VmTypes
<1> QED BY <1>1, <1>2, <1>3 DEF Meets

LEMMA TypesStep == DebugMirrorAssumption /\ DebugTypes /\ [DebugNext]_debugVars => DebugTypes'
<1> SUFFICES ASSUME DebugMirrorAssumption, DebugTypes, [DebugNext]_debugVars PROVE DebugTypes'
  OBVIOUS
<1>1. CASE UNCHANGED debugVars
  BY <1>1 DEF DebugTypes, VmTypes, UiTypes, DocTypes, GhostTypes, debugVars, vmvars, ui
<1>2. ASSUME NEW p \in Peers,
             \/ Debug(p) \/ Stop(p) \/ \E op \in Control : Press(p, op)
             \/ VmTakes(p) \/ VmStops(p) \/ VmEnds(p) \/ Page(p) \/ \E q \in Peers : Meets(p, q)
      PROVE  DebugTypes'
  BY <1>2, TypesUser, TypesVm, TypesPage, TypesMeet
<1> QED BY <1>1, <1>2 DEF DebugNext

-----------------------------------------------------------------------------
(* Claims of the role, and how they travel. *)

Claims == Entry("initiator")
Mark(p) == doc[p]["initiator"]
IsClaim(m) == m.kind = "doc" /\ "initiator" \in DOMAIN m.doc
Claimed(m) == m.doc["initiator"]

\* e was made by r.
Signed(e, r) == e.path # <<>> /\ e.path[Len(e.path)] = ClientID[r]

\* One who has f has no use for e.
Covers(f, e) == Reached(e.path, f.path) /\ (e.path = f.path /\ e.val = NoOne => f.val = NoOne)

MessageOK(m, r) ==
    IsClaim(m) => Signed(Claimed(m), r) /\ Claimed(m).val \in {NoOne, r} /\ Covers(Mark(r), Claimed(m))
Brings(s, e) == \E i \in DOMAIN s : IsClaim(s[i]) /\ Covers(Claimed(s[i]), e)
Names(s, path) == \E i \in DOMAIN s : IsClaim(s[i]) /\ Claimed(s[i]).path = path
NamesBefore(s, i, path) == \E j \in DOMAIN s : j < i /\ IsClaim(s[j]) /\ Claimed(s[j]).path = path

\* A claim is made by who it names, and who made it knows it.
MarkInv == \A p \in Peers : Mark(p).val # NoOne => Signed(Mark(p), Mark(p).val)
MessageInv == \A r, q \in Peers : \A i \in DOMAIN net[r][q] : MessageOK(net[r][q][i], r)

\* What one knows the others know, or will be told.
Covered(e, q) == Covers(Mark(q), e) \/ \E r \in Peers : Brings(net[r][q], e)
CoverInv == \A p, q \in Peers : Covered(Mark(p), q)

\* A claim arrives before it is withdrawn.
ClearInv == \A r, p \in Peers : \A i \in DOMAIN net[r][p] :
    IsClaim(net[r][p][i]) /\ Claimed(net[r][p][i]).val = NoOne =>
        \/ Reached(Claimed(net[r][p][i]).path, Mark(p).path)
        \/ NamesBefore(net[r][p], i, Claimed(net[r][p][i]).path)
TellInv == \A r, p \in Peers :
    Mark(r).val = r => Reached(Mark(r).path, Mark(p).path) \/ Names(net[r][p], Mark(r).path)

ClaimInv == MarkInv /\ MessageInv /\ CoverInv /\ ClearInv /\ TellInv

\* s2 has the claims of s, in their order; or those and m at the end; or all but the first.
Same(s, s2) ==
    /\ \A i \in DOMAIN s2 : IsClaim(s2[i]) =>
          \E k \in DOMAIN s : s[k] = s2[i] /\ \A j \in DOMAIN s :
              IsClaim(s[j]) /\ j < k => \E l \in DOMAIN s2 : l < i /\ s2[l] = s[j]
    /\ \A j \in DOMAIN s : IsClaim(s[j]) => \E l \in DOMAIN s2 : s2[l] = s[j]
Adds(s, s2, m) ==
    /\ \A i \in DOMAIN s2 : IsClaim(s2[i]) =>
          \/ \E k \in DOMAIN s : s[k] = s2[i] /\ \A j \in DOMAIN s :
                 IsClaim(s[j]) /\ j < k => \E l \in DOMAIN s2 : l < i /\ s2[l] = s[j]
          \/ s2[i] = m /\ \A j \in DOMAIN s : IsClaim(s[j]) => \E l \in DOMAIN s2 : l < i /\ s2[l] = s[j]
    /\ \A j \in DOMAIN s : IsClaim(s[j]) => \E l \in DOMAIN s2 : s2[l] = s[j]
    /\ \E l \in DOMAIN s2 : s2[l] = m
Drops(s, s2) ==
    /\ \A i \in DOMAIN s2 : \E k \in DOMAIN s : s[k] = s2[i] /\ \A j \in DOMAIN s :
          1 < j /\ j < k => \E l \in DOMAIN s2 : l < i /\ s2[l] = s[j]
    /\ \A j \in DOMAIN s : 1 < j => \E l \in DOMAIN s2 : s2[l] = s[j]

LEMMA SameRefl == ASSUME NEW s PROVE Same(s, s)
BY DEF Same

LEMMA TailParts ==
    ASSUME NEW S, NEW s \in Seq(S), s # <<>>
    PROVE  /\ \A i \in DOMAIN Tail(s) : i + 1 \in DOMAIN s /\ Tail(s)[i] = s[i + 1]
           /\ \A j \in DOMAIN s : j # 1 => j - 1 \in DOMAIN Tail(s) /\ Tail(s)[j - 1] = s[j]
           /\ Head(s) = s[1] /\ DOMAIN s \subseteq Nat /\ DOMAIN Tail(s) \subseteq Nat /\ 1 \in DOMAIN s
OBVIOUS

LEMMA SameTail ==
    ASSUME NEW s \in Seq(Messages), s # <<>>, ~IsClaim(Head(s)) PROVE Same(s, Tail(s))
<1> DEFINE t == Tail(s)
<1>1. /\ \A i \in DOMAIN t : i + 1 \in DOMAIN s /\ t[i] = s[i + 1]
      /\ \A j \in DOMAIN s : j # 1 => j - 1 \in DOMAIN t /\ t[j - 1] = s[j]
      /\ Head(s) = s[1] /\ DOMAIN s \subseteq Nat /\ DOMAIN t \subseteq Nat
  BY TailParts
<1> HIDE DEF t
<1>2. ASSUME NEW i \in DOMAIN t
      PROVE  \E k \in DOMAIN s : s[k] = t[i] /\ \A j \in DOMAIN s :
              IsClaim(s[j]) /\ j < k => \E l \in DOMAIN t : l < i /\ t[l] = s[j]
  <2>1. i + 1 \in DOMAIN s /\ s[i + 1] = t[i]
    BY <1>1
  <2>2. ASSUME NEW j \in DOMAIN s, IsClaim(s[j]), j < i + 1
        PROVE  \E l \in DOMAIN t : l < i /\ t[l] = s[j]
    <3>1. j # 1
      BY <1>1, <2>2
    <3>2. j - 1 \in DOMAIN t /\ t[j - 1] = s[j]
      BY <1>1, <3>1
    <3>3. j - 1 < i
      BY <1>1, <2>2
    <3> QED BY <3>2, <3>3
  <2> QED BY <2>1, <2>2
<1>3. ASSUME NEW j \in DOMAIN s, IsClaim(s[j]) PROVE \E l \in DOMAIN t : t[l] = s[j]
  <2>1. j # 1
    BY <1>1, <1>3
  <2> QED BY <1>1, <2>1
<1> QED BY <1>2, <1>3 DEF Same, t

LEMMA SameMore ==
    ASSUME NEW s, NEW u, \A i \in DOMAIN s : i \in DOMAIN u /\ u[i] = s[i],
           \A i \in DOMAIN u : i \notin DOMAIN s => ~IsClaim(u[i])
    PROVE  Same(s, u)
<1>1. ASSUME NEW i \in DOMAIN u, IsClaim(u[i]) PROVE i \in DOMAIN s /\ s[i] = u[i]
  BY <1>1
<1> QED BY <1>1 DEF Same

LEMMA SameAppend ==
    ASSUME NEW s \in Seq(Messages), NEW m, ~IsClaim(m) PROVE Same(s, Append(s, m))
<1> DEFINE u == Append(s, m)
<1>1. /\ \A i \in DOMAIN s : i \in DOMAIN u /\ u[i] = s[i]
      /\ \A i \in DOMAIN u : i \notin DOMAIN s => i = Len(s) + 1
      /\ u[Len(s) + 1] = m
  OBVIOUS
<1> HIDE DEF u
<1> QED BY <1>1, SameMore DEF u

LEMMA AddsOne ==
    ASSUME NEW s \in Seq(Messages), NEW m PROVE Adds(s, Append(s, m), m)
<1> DEFINE u == Append(s, m)
<1>1. /\ \A i \in DOMAIN s : i \in DOMAIN u /\ u[i] = s[i] /\ i < Len(s) + 1
      /\ \A i \in DOMAIN u : i \notin DOMAIN s => i = Len(s) + 1
      /\ Len(s) + 1 \in DOMAIN u /\ u[Len(s) + 1] = m
  OBVIOUS
<1> HIDE DEF u
<1>2. ASSUME NEW i \in DOMAIN u
      PROVE  \/ \E k \in DOMAIN s : s[k] = u[i] /\ \A j \in DOMAIN s :
                 IsClaim(s[j]) /\ j < k => \E l \in DOMAIN u : l < i /\ u[l] = s[j]
             \/ u[i] = m /\ \A j \in DOMAIN s : IsClaim(s[j]) => \E l \in DOMAIN u : l < i /\ u[l] = s[j]
  <2>1. CASE i \in DOMAIN s
    BY <1>1, <2>1
  <2>2. CASE i \notin DOMAIN s
    BY <1>1, <2>2
  <2> QED BY <2>1, <2>2
<1> QED BY <1>1, <1>2 DEF Adds, u

LEMMA DropsOne ==
    ASSUME NEW s \in Seq(Messages), s # <<>> PROVE Drops(s, Tail(s)) /\ s[1] = Head(s) /\ 1 \in DOMAIN s
<1> DEFINE t == Tail(s)
<1>1. /\ \A i \in DOMAIN t : i + 1 \in DOMAIN s /\ t[i] = s[i + 1]
      /\ \A j \in DOMAIN s : j # 1 => j - 1 \in DOMAIN t /\ t[j - 1] = s[j]
      /\ Head(s) = s[1] /\ DOMAIN s \subseteq Nat /\ DOMAIN t \subseteq Nat /\ 1 \in DOMAIN s
  BY TailParts
<1> HIDE DEF t
<1>2. ASSUME NEW i \in DOMAIN t
      PROVE  \E k \in DOMAIN s : s[k] = t[i] /\ \A j \in DOMAIN s :
              1 < j /\ j < k => \E l \in DOMAIN t : l < i /\ t[l] = s[j]
  <2>1. i + 1 \in DOMAIN s /\ s[i + 1] = t[i]
    BY <1>1
  <2>2. ASSUME NEW j \in DOMAIN s, 1 < j, j < i + 1
        PROVE  \E l \in DOMAIN t : l < i /\ t[l] = s[j]
    <3>2. j - 1 \in DOMAIN t /\ t[j - 1] = s[j]
      BY <1>1, <2>2
    <3>3. j - 1 < i
      BY <1>1, <2>2
    <3> QED BY <3>2, <3>3
  <2> QED BY <2>1, <2>2
<1>3. ASSUME NEW j \in DOMAIN s, 1 < j PROVE \E l \in DOMAIN t : t[l] = s[j]
  <2>1. j # 1
    BY <1>3
  <2> QED BY <1>1, <2>1
<1> QED BY <1>1, <1>2, <1>3 DEF Drops, t

LEMMA ClaimIs ==
    /\ \A e \in Claims : e.path \in Seq(Nat) /\ e.val \in Peers \cup {NoOne}
    /\ DocTypes => \A p \in Peers : Mark(p) \in Claims
    /\ \A m \in Messages : IsClaim(m) => Claimed(m) \in Claims
<1>1. "initiator" \in Keys
  BY DEF Keys
<1>2. \A e \in Claims : e.path \in Seq(Nat) /\ e.val \in Peers \cup {NoOne}
  BY EntryIs, ValuesAre DEF Claims
<1>3. DocTypes => \A p \in Peers : Mark(p) \in Claims
  BY <1>1, ReplicaIs DEF DocTypes, Mark, Claims
<1>4. \A m \in Messages : IsClaim(m) => Claimed(m) \in Claims
  BY MessageIs, PatchIs DEF IsClaim, Claimed, Claims
<1> QED BY <1>2, <1>3, <1>4

LEMMA ClaimIsNext == ASSUME DocTypes' PROVE \A q \in Peers : Mark(q)' \in Claims
<1>1. doc' \in [Peers -> Replicas] /\ "initiator" \in Keys
  BY DEF DocTypes, Keys
<1> QED BY <1>1, ReplicaIs DEF Mark, Claims

LEMMA ReachedIs ==
    ASSUME NEW s \in Seq(Nat), NEW t \in Seq(Nat), NEW u \in Seq(Nat), Reached(s, t), Reached(t, u)
    PROVE  Reached(s, u) /\ (s = u => s = t)
BY Trans, Asym DEF Reached

LEMMA CoversRefl == ASSUME NEW e PROVE Covers(e, e)
BY DEF Covers, Reached

LEMMA CoversTrans ==
    ASSUME NEW e \in Claims, NEW f \in Claims, NEW g \in Claims, Covers(f, e), Covers(g, f)
    PROVE  Covers(g, e)
<1>1. e.path \in Seq(Nat) /\ f.path \in Seq(Nat) /\ g.path \in Seq(Nat)
  BY ClaimIs
<1>2. Reached(e.path, g.path) /\ (e.path = g.path => e.path = f.path)
  BY <1>1, ReachedIs DEF Covers
<1> QED BY <1>2 DEF Covers

\* Two who cover each other are the same but for what is withdrawn.
LEMMA CoversBoth ==
    ASSUME NEW e \in Claims, NEW f \in Claims, Covers(f, e), Covers(e, f)
    PROVE  e.path = f.path /\ (e.val = NoOne <=> f.val = NoOne)
<1>1. e.path \in Seq(Nat) /\ f.path \in Seq(Nat)
  BY ClaimIs
<1>2. e.path = f.path
  BY <1>1, Asym DEF Covers, Reached
<1> QED BY <1>2 DEF Covers

LEMMA SignedOnce ==
    ASSUME DebugMirrorAssumption, NEW e, NEW p \in Peers, NEW q \in Peers, Signed(e, p), Signed(e, q)
    PROVE  p = q
BY DEF Signed, DebugMirrorAssumption

LEMMA JoinedCovers ==
    ASSUME NEW e \in Claims, NEW f \in Claims,
           e.path = f.path => e.val = f.val \/ e.val = NoOne \/ f.val = NoOne
    PROVE  LET j == Joined("initiator", e, f) IN
           /\ j \in {e, f} /\ Covers(j, e) /\ Covers(j, f)
           /\ j = f => j = e \/ Beyond(f.path, e.path) \/ (e.path = f.path /\ e.val # NoOne)
<1> DEFINE j == Joined("initiator", e, f)
<1>1. e.path \in Seq(Nat) /\ f.path \in Seq(Nat)
  BY ClaimIs
<1>2. CASE Beyond(e.path, f.path)
  <2>1. j = e
    BY <1>1, <1>2, Asym DEF Joined
  <2>2. e.path # f.path
    BY <1>1, <1>2, Asym
  <2> QED BY <1>2, <2>1, <2>2, CoversRefl DEF Covers, Reached
<1>3. CASE Beyond(f.path, e.path)
  <2>1. j = f
    BY <1>1, <1>3, Asym DEF Joined
  <2>2. e.path # f.path
    BY <1>1, <1>3, Asym
  <2> QED BY <1>3, <2>1, <2>2, CoversRefl DEF Covers, Reached
<1>4. CASE ~Beyond(e.path, f.path) /\ ~Beyond(f.path, e.path)
  <2>1. e.path = f.path
    BY <1>1, <1>4, Total
  <2>2. j = IF e.val = NoOne THEN e ELSE f
    BY <1>4, ValuesAre DEF Joined
  <2> QED BY <2>1, <2>2 DEF Covers, Reached
<1> QED BY <1>2, <1>3, <1>4

LEMMA SameKeeps ==
    ASSUME NEW s, NEW s2, Same(s, s2)
    PROVE  /\ \A e : Brings(s, e) => Brings(s2, e)
           /\ \A path : Names(s, path) => Names(s2, path)
           /\ \A i \in DOMAIN s2 : IsClaim(s2[i]) => \E k \in DOMAIN s :
                 s[k] = s2[i] /\ \A path : NamesBefore(s, k, path) => NamesBefore(s2, i, path)
<1>1. \A j \in DOMAIN s : IsClaim(s[j]) => \E l \in DOMAIN s2 : s2[l] = s[j]
  BY DEF Same
<1>2. ASSUME NEW i \in DOMAIN s2, IsClaim(s2[i])
      PROVE  \E k \in DOMAIN s :
                 s[k] = s2[i] /\ \A path : NamesBefore(s, k, path) => NamesBefore(s2, i, path)
  <2>1. PICK k \in DOMAIN s : s[k] = s2[i] /\ \A j \in DOMAIN s :
              IsClaim(s[j]) /\ j < k => \E l \in DOMAIN s2 : l < i /\ s2[l] = s[j]
    BY <1>2 DEF Same
  <2>2. ASSUME NEW path, NamesBefore(s, k, path) PROVE NamesBefore(s2, i, path)
    BY <2>1, <2>2, Zenon DEF NamesBefore
  <2> QED BY <2>1, <2>2
<1> QED BY <1>1, <1>2, Zenon DEF Brings, Names

LEMMA AddsKeeps ==
    ASSUME NEW s, NEW s2, NEW m, Adds(s, s2, m)
    PROVE  /\ \A e : Brings(s, e) => Brings(s2, e)
           /\ \A path : Names(s, path) => Names(s2, path)
           /\ \A i \in DOMAIN s2 : IsClaim(s2[i]) =>
                 \/ \E k \in DOMAIN s :
                       s[k] = s2[i] /\ \A path : NamesBefore(s, k, path) => NamesBefore(s2, i, path)
                 \/ s2[i] = m /\ \A path : Names(s, path) => NamesBefore(s2, i, path)
           /\ IsClaim(m) => /\ Names(s2, Claimed(m).path)
                            /\ \A e : Covers(Claimed(m), e) => Brings(s2, e)
<1>1. \A j \in DOMAIN s : IsClaim(s[j]) => \E l \in DOMAIN s2 : s2[l] = s[j]
  BY DEF Adds
<1>2. ASSUME NEW i \in DOMAIN s2, IsClaim(s2[i])
      PROVE  \/ \E k \in DOMAIN s :
                    s[k] = s2[i] /\ \A path : NamesBefore(s, k, path) => NamesBefore(s2, i, path)
             \/ s2[i] = m /\ \A path : Names(s, path) => NamesBefore(s2, i, path)
  <2>1. CASE \E k \in DOMAIN s : s[k] = s2[i] /\ \A j \in DOMAIN s :
              IsClaim(s[j]) /\ j < k => \E l \in DOMAIN s2 : l < i /\ s2[l] = s[j]
    <3>1. PICK k \in DOMAIN s : s[k] = s2[i] /\ \A j \in DOMAIN s :
              IsClaim(s[j]) /\ j < k => \E l \in DOMAIN s2 : l < i /\ s2[l] = s[j]
      BY <2>1
    <3>2. ASSUME NEW path, NamesBefore(s, k, path) PROVE NamesBefore(s2, i, path)
      BY <3>1, <3>2, Zenon DEF NamesBefore
    <3> QED BY <3>1, <3>2
  <2>2. CASE s2[i] = m /\ \A j \in DOMAIN s : IsClaim(s[j]) => \E l \in DOMAIN s2 : l < i /\ s2[l] = s[j]
    <3>1. ASSUME NEW path, Names(s, path) PROVE NamesBefore(s2, i, path)
      BY <2>2, <3>1, Zenon DEF NamesBefore, Names
    <3> QED BY <2>2, <3>1
  <2> QED BY <1>2, <2>1, <2>2, Zenon DEF Adds
<1>3. \E l \in DOMAIN s2 : s2[l] = m
  BY DEF Adds
<1> QED BY <1>1, <1>2, <1>3, Zenon DEF Brings, Names

LEMMA DropsKeeps ==
    ASSUME NEW s, NEW s2, Drops(s, s2), DOMAIN s \subseteq Nat, 0 \notin DOMAIN s
    PROVE  /\ \A e : Brings(s, e) => Brings(s2, e) \/ (IsClaim(s[1]) /\ Covers(Claimed(s[1]), e))
           /\ \A path : Names(s, path) => Names(s2, path) \/ Claimed(s[1]).path = path
           /\ \A i \in DOMAIN s2 : \E k \in DOMAIN s :
                 s[k] = s2[i] /\ \A path : NamesBefore(s, k, path) =>
                                        NamesBefore(s2, i, path) \/ Claimed(s[1]).path = path
<1>0. \A j \in DOMAIN s : j = 1 \/ 1 < j
  OBVIOUS
<1>1. \A j \in DOMAIN s : 1 < j => \E l \in DOMAIN s2 : s2[l] = s[j]
  BY DEF Drops
<1>2. ASSUME NEW i \in DOMAIN s2
      PROVE  \E k \in DOMAIN s : s[k] = s2[i] /\ \A path : NamesBefore(s, k, path) =>
                                        NamesBefore(s2, i, path) \/ Claimed(s[1]).path = path
  <2>1. PICK k \in DOMAIN s : s[k] = s2[i] /\ \A j \in DOMAIN s :
              1 < j /\ j < k => \E l \in DOMAIN s2 : l < i /\ s2[l] = s[j]
    BY DEF Drops
  <2>2. ASSUME NEW path, NamesBefore(s, k, path)
        PROVE  NamesBefore(s2, i, path) \/ Claimed(s[1]).path = path
    BY <1>0, <2>1, <2>2, Zenon DEF NamesBefore
  <2> QED BY <2>1, <2>2
<1> QED BY <1>0, <1>1, <1>2, Zenon DEF Brings, Names

\* A step that claims nothing.
LEMMA ClaimsStay ==
    ASSUME ClaimInv, \A p \in Peers : Mark(p)' = Mark(p),
           \A r, q \in Peers : Same(net[r][q], net'[r][q])
    PROVE  ClaimInv'
<1>1. MarkInv'
  BY DEF ClaimInv, MarkInv
<1>2. MessageInv'
  <2> SUFFICES ASSUME NEW r \in Peers, NEW q \in Peers, NEW i \in DOMAIN net'[r][q], IsClaim(net'[r][q][i])
               PROVE  MessageOK(net[r][q][i], r)'
    BY DEF MessageInv, MessageOK
  <2>1. PICK k \in DOMAIN net[r][q] : net[r][q][k] = net'[r][q][i]
    BY SameKeeps
  <2>2. MessageOK(net[r][q][k], r)
    BY DEF ClaimInv, MessageInv
  <2> QED BY <2>1, <2>2 DEF MessageOK
<1>3. CoverInv'
  <2> SUFFICES ASSUME NEW p \in Peers, NEW q \in Peers
               PROVE  Covers(Mark(q), Mark(p)) \/ \E r \in Peers : Brings(net'[r][q], Mark(p))
    BY DEF CoverInv, Covered
  <2>1. Covers(Mark(q), Mark(p)) \/ \E r \in Peers : Brings(net[r][q], Mark(p))
    BY DEF ClaimInv, CoverInv, Covered
  <2> QED BY <2>1, SameKeeps
<1>4. ClearInv'
  <2> SUFFICES ASSUME NEW r \in Peers, NEW p \in Peers, NEW i \in DOMAIN net'[r][p],
                      IsClaim(net'[r][p][i]), Claimed(net'[r][p][i]).val = NoOne
               PROVE  \/ Reached(Claimed(net'[r][p][i]).path, Mark(p).path)
                      \/ NamesBefore(net'[r][p], i, Claimed(net'[r][p][i]).path)
    BY DEF ClearInv
  <2>1. PICK k \in DOMAIN net[r][p] : /\ net[r][p][k] = net'[r][p][i]
                 /\ \A path : NamesBefore(net[r][p], k, path) => NamesBefore(net'[r][p], i, path)
    BY SameKeeps
  <2>2. \/ Reached(Claimed(net[r][p][k]).path, Mark(p).path)
        \/ NamesBefore(net[r][p], k, Claimed(net[r][p][k]).path)
    BY <2>1 DEF ClaimInv, ClearInv
  <2> QED BY <2>1, <2>2
<1>5. TellInv'
  BY SameKeeps DEF ClaimInv, TellInv
<1> QED BY <1>1, <1>2, <1>3, <1>4, <1>5 DEF ClaimInv

\* p claims the role, or withdraws its claim: e is what its replica says now.
Writes(p, e) ==
    \/ e.path = Append(Mark(p).path, ClientID[p]) /\ e.val = p
    \/ Mark(p).val = p /\ e.path = Mark(p).path /\ e.val = NoOne

LEMMA WritesIs ==
    ASSUME DebugMirrorAssumption, ClaimInv, DocTypes, NEW p \in Peers, NEW e \in Claims, Writes(p, e)
    PROVE  Signed(e, p) /\ e.val \in {NoOne, p} /\ Covers(e, Mark(p))
<1>1. Mark(p) \in Claims /\ Mark(p).path \in Seq(Nat) /\ ClientID[p] \in Nat
  BY ClaimIs DEF DebugMirrorAssumption
<1>2. CASE e.path = Append(Mark(p).path, ClientID[p]) /\ e.val = p
  <2>1. Beyond(e.path, Mark(p).path)
    BY <1>1, <1>2, AppendBeyond
  <2>2. e.path # Mark(p).path
    BY <1>1, <1>2, <2>1, AppendBeyond, Asym
  <2>3. e.path # <<>> /\ e.path[Len(e.path)] = ClientID[p]
    <3> DEFINE t == Mark(p).path  c == ClientID[p]
    <3>1. t \in Seq(Nat) /\ e.path = Append(t, c)
      BY <1>1, <1>2
    <3> HIDE DEF t, c
    <3>2. Append(t, c) # <<>> /\ Append(t, c)[Len(Append(t, c))] = c
      BY <3>1
    <3> QED BY <3>1, <3>2 DEF c
  <2> QED BY <1>2, <2>1, <2>2, <2>3 DEF Signed, Covers, Reached
<1>3. CASE Mark(p).val = p /\ e.path = Mark(p).path /\ e.val = NoOne
  <2>1. p # NoOne
    BY DEF DebugMirrorAssumption
  <2>2. Signed(Mark(p), p)
    BY <1>3, <2>1 DEF ClaimInv, MarkInv
  <2> QED BY <1>3, <2>2 DEF Signed, Covers, Reached
<1> QED BY <1>2, <1>3 DEF Writes

\* What p knows grows, and nothing else: what was known goes on being known.
LEMMA Grows ==
    ASSUME DocTypes, NEW p \in Peers, NEW e \in Claims, Covers(e, Mark(p)), Mark(p)' = e,
           \A q \in Peers \ {p} : Mark(q)' = Mark(q)
    PROVE  /\ \A q \in Peers : \A f \in Claims : Covers(Mark(q), f) => Covers(Mark(q)', f)
           /\ \A q \in Peers : \A path \in Seq(Nat) :
                 Reached(path, Mark(q).path) => Reached(path, Mark(q)'.path)
<1>1. Mark(p) \in Claims /\ Mark(p).path \in Seq(Nat) /\ e.path \in Seq(Nat)
  BY ClaimIs
<1>2. \A f \in Claims : Covers(Mark(p), f) => Covers(Mark(p)', f)
  BY <1>1, CoversTrans
<1>3. \A path \in Seq(Nat) : Reached(path, Mark(p).path) => Reached(path, Mark(p)'.path)
  BY <1>1, ReachedIs DEF Covers
<1> QED BY <1>2, <1>3

\* A step that claims the role or withdraws a claim.
LEMMA ClaimsWrite ==
    ASSUME DebugMirrorAssumption, ClaimInv, DocTypes, DocTypes', NEW p \in Peers, NEW e \in Claims, NEW m,
           Writes(p, e), Mark(p)' = e, \A q \in Peers \ {p} : Mark(q)' = Mark(q),
           IsClaim(m), Claimed(m) = e,
           \A q \in Peers \ {p} : Adds(net[p][q], net'[p][q], m),
           \A r, q \in Peers : r # p \/ q = p => Same(net[r][q], net'[r][q])
    PROVE  ClaimInv'
<1>1. Signed(e, p) /\ e.val \in {NoOne, p} /\ Covers(e, Mark(p))
  BY WritesIs
<1>2. /\ \A q \in Peers : \A f \in Claims : Covers(Mark(q), f) => Covers(Mark(q)', f)
      /\ \A q \in Peers : \A path \in Seq(Nat) :
            Reached(path, Mark(q).path) => Reached(path, Mark(q)'.path)
  BY <1>1, Grows
<1>3. \A q \in Peers : Mark(q) \in Claims /\ Mark(q).path \in Seq(Nat) /\ Mark(q)' \in Claims
  BY ClaimIs, ClaimIsNext
<1>4. MarkInv'
  BY <1>1, <1>3 DEF ClaimInv, MarkInv
<1>5. MessageInv'
  <2> SUFFICES ASSUME NEW r \in Peers, NEW q \in Peers, NEW i \in DOMAIN net'[r][q], IsClaim(net'[r][q][i])
               PROVE  MessageOK(net[r][q][i], r)'
    BY DEF MessageInv, MessageOK
  <2>1. CASE \E k \in DOMAIN net[r][q] : net[r][q][k] = net'[r][q][i]
    <3>1. PICK k \in DOMAIN net[r][q] : net[r][q][k] = net'[r][q][i]
      BY <2>1
    <3>2. MessageOK(net[r][q][k], r) /\ net[r][q][k] \in Messages
      BY DEF ClaimInv, MessageInv, DocTypes
    <3>3. Claimed(net[r][q][k]) \in Claims
      BY <3>1, <3>2, ClaimIs
    <3> QED BY <1>2, <3>1, <3>2, <3>3 DEF MessageOK
  <2>2. CASE r = p /\ net'[r][q][i] = m
    BY <1>1, <2>2, CoversRefl DEF MessageOK
  <2> QED BY <2>1, <2>2, SameKeeps, AddsKeeps
<1>7. CoverInv'
  <2> SUFFICES ASSUME NEW x \in Peers, NEW q \in Peers
               PROVE  Covers(Mark(q)', Mark(x)') \/ \E r \in Peers : Brings(net'[r][q], Mark(x)')
    BY DEF CoverInv, Covered
  <2>1. CASE x # p
    <3>1. Covers(Mark(q), Mark(x)) \/ \E r \in Peers : Brings(net[r][q], Mark(x))
      BY DEF ClaimInv, CoverInv, Covered
    <3>2. \A r \in Peers : Brings(net[r][q], Mark(x)) => Brings(net'[r][q], Mark(x))
      BY SameKeeps, AddsKeeps
    <3> QED BY <1>2, <1>3, <2>1, <3>1, <3>2
  <2>2. CASE x = p /\ q = p
    BY <2>2, CoversRefl
  <2>3. CASE x = p /\ q # p
    BY <2>3, AddsKeeps, CoversRefl
  <2> QED BY <2>1, <2>2, <2>3
<1>8. ClearInv'
  <2> SUFFICES ASSUME NEW r \in Peers, NEW x \in Peers, NEW i \in DOMAIN net'[r][x],
                      IsClaim(net'[r][x][i]), Claimed(net'[r][x][i]).val = NoOne
               PROVE  \/ Reached(Claimed(net'[r][x][i]).path, Mark(x)'.path)
                      \/ NamesBefore(net'[r][x], i, Claimed(net'[r][x][i]).path)
    BY DEF ClearInv
  <2>1. CASE \E k \in DOMAIN net[r][x] : /\ net[r][x][k] = net'[r][x][i]
                 /\ \A path : NamesBefore(net[r][x], k, path) => NamesBefore(net'[r][x], i, path)
    <3>1. PICK k \in DOMAIN net[r][x] : /\ net[r][x][k] = net'[r][x][i]
                 /\ \A path : NamesBefore(net[r][x], k, path) => NamesBefore(net'[r][x], i, path)
      BY <2>1
    <3>2. \/ Reached(Claimed(net[r][x][k]).path, Mark(x).path)
          \/ NamesBefore(net[r][x], k, Claimed(net[r][x][k]).path)
      BY <3>1 DEF ClaimInv, ClearInv
    <3>3. Claimed(net[r][x][k]).path \in Seq(Nat)
      <4>1. net[r][x][k] \in Messages
        BY DEF DocTypes
      <4> QED BY <3>1, <4>1, ClaimIs
    <3> QED BY <1>2, <3>1, <3>2, <3>3
  <2>2. CASE r = p /\ x # p /\ net'[r][x][i] = m /\ \A path : Names(net[r][x], path) => NamesBefore(net'[r][x], i, path)
    <3>1. e.val = NoOne /\ p # NoOne
      BY <2>2 DEF DebugMirrorAssumption
    <3>2. Mark(p).val = p /\ e.path = Mark(p).path
      BY <3>1 DEF Writes
    <3>3. Reached(Mark(p).path, Mark(x).path) \/ Names(net[p][x], Mark(p).path)
      BY <3>2 DEF ClaimInv, TellInv
    <3> QED BY <2>2, <3>2, <3>3
  <2> QED BY <2>1, <2>2, SameKeeps, AddsKeeps
<1>9. TellInv'
  <2> SUFFICES ASSUME NEW r \in Peers, NEW x \in Peers, Mark(r)'.val = r
               PROVE  Reached(Mark(r)'.path, Mark(x)'.path) \/ Names(net'[r][x], Mark(r)'.path)
    BY DEF TellInv
  <2>1. CASE r = p
    <3>1. CASE x = p
      BY <2>1, <3>1 DEF Reached
    <3>2. CASE x # p
      BY <2>1, <3>2, AddsKeeps
    <3> QED BY <3>1, <3>2
  <2>2. CASE r # p
    <3>1. Reached(Mark(r).path, Mark(x).path) \/ Names(net[r][x], Mark(r).path)
      BY <2>2 DEF ClaimInv, TellInv
    <3>2. Names(net[r][x], Mark(r).path) => Names(net'[r][x], Mark(r).path)
      BY <2>2, SameKeeps
    <3> QED BY <1>2, <1>3, <2>2, <3>1, <3>2
  <2> QED BY <2>1, <2>2
<1> QED BY <1>4, <1>5, <1>7, <1>8, <1>9 DEF ClaimInv

\* Claims made by different peers, or once withdrawn.
LEMMA Coherent ==
    ASSUME DebugMirrorAssumption, ClaimInv, DocTypes, NEW p \in Peers, NEW q \in Peers,
           NEW e \in Claims, Signed(e, q), e.val \in {NoOne, q}, Mark(p).path = e.path
    PROVE  Mark(p).val = e.val \/ Mark(p).val = NoOne \/ e.val = NoOne
<1>1. ASSUME Mark(p).val # NoOne PROVE Mark(p).val = q
  <2>1. Signed(Mark(p), Mark(p).val) /\ Mark(p).val \in Peers
    BY <1>1, ClaimIs DEF ClaimInv, MarkInv
  <2>2. Signed(e, Mark(p).val)
    BY <2>1 DEF Signed
  <2> QED BY <2>1, <2>2, SignedOnce
<1> QED BY <1>1

\* A step that takes a claim.
LEMMA ClaimsLearn ==
    ASSUME DebugMirrorAssumption, ClaimInv, DocTypes, DocTypes', NEW p \in Peers, NEW q \in Peers \ {p},
           net[q][p] # <<>>, IsClaim(Head(net[q][p])), net' = [net EXCEPT ![q][p] = Tail(@)],
           Mark(p)' = Joined("initiator", Mark(p), Claimed(Head(net[q][p]))),
           \A x \in Peers \ {p} : Mark(x)' = Mark(x)
    PROVE  ClaimInv'
<1> DEFINE s == net[q][p]  m == Head(s)  e == Claimed(m)  n == Mark(p)'
<1>1. s \in Seq(Messages) /\ s[1] = m /\ 1 \in DOMAIN s /\ Drops(s, net'[q][p])
      /\ m \in Messages /\ 0 \notin DOMAIN s /\ DOMAIN s \subseteq Nat
  <2>1. s \in Seq(Messages) /\ net'[q][p] = Tail(s)
    BY DEF DocTypes
  <2> QED BY <2>1, DropsOne
<1>2. \A r, x \in Peers : (r # q \/ x # p) => net'[r][x] = net[r][x]
  BY DEF DocTypes
<1>3. MessageOK(m, q)
  BY <1>1 DEF ClaimInv, MessageInv
<1>4. e \in Claims /\ Signed(e, q) /\ e.val \in {NoOne, q} /\ Covers(Mark(q), e)
  BY <1>1, <1>3, ClaimIs DEF MessageOK
<1>5. \A x \in Peers : Mark(x) \in Claims /\ Mark(x).path \in Seq(Nat) /\ Mark(x)' \in Claims
  BY ClaimIs, ClaimIsNext
<1>6. n \in {Mark(p), e} /\ Covers(n, Mark(p)) /\ Covers(n, e)
  <2>1. Mark(p).path = e.path => Mark(p).val = e.val \/ Mark(p).val = NoOne \/ e.val = NoOne
    BY <1>4, Coherent
  <2> QED BY <1>4, <1>5, <2>1, JoinedCovers
<1>7. /\ \A x \in Peers : \A f \in Claims : Covers(Mark(x), f) => Covers(Mark(x)', f)
      /\ \A x \in Peers : \A path \in Seq(Nat) :
            Reached(path, Mark(x).path) => Reached(path, Mark(x)'.path)
  BY <1>5, <1>6, Grows
<1>8. /\ \A f : Brings(s, f) => Brings(net'[q][p], f) \/ Covers(e, f)
      /\ \A path : Names(s, path) => Names(net'[q][p], path) \/ e.path = path
      /\ \A i \in DOMAIN net'[q][p] : \E k \in DOMAIN s :
            s[k] = net'[q][p][i] /\ \A path : NamesBefore(s, k, path) =>
                                        NamesBefore(net'[q][p], i, path) \/ e.path = path
  <2> DEFINE t == net'[q][p]
  <2>1. /\ \A f : Brings(s, f) => Brings(t, f) \/ (IsClaim(s[1]) /\ Covers(Claimed(s[1]), f))
        /\ \A path : Names(s, path) => Names(t, path) \/ Claimed(s[1]).path = path
        /\ \A i \in DOMAIN t : \E k \in DOMAIN s :
              s[k] = t[i] /\ \A path : NamesBefore(s, k, path) =>
                                        NamesBefore(t, i, path) \/ Claimed(s[1]).path = path
    <3>1. Drops(s, t) /\ DOMAIN s \subseteq Nat /\ 0 \notin DOMAIN s
      BY <1>1
    <3> HIDE DEF s, t
    <3> QED BY <3>1, DropsKeeps
  <2>2. Claimed(s[1]) = e
    BY <1>1
  <2> HIDE DEF s, e
  <2> QED BY <2>1, <2>2
<1> HIDE DEF s, m, e, n
<1>9. \A r, x \in Peers : \A i \in DOMAIN net'[r][x] : \E k \in DOMAIN net[r][x] :
        /\ net[r][x][k] = net'[r][x][i]
        /\ \A path : NamesBefore(net[r][x], k, path) =>
              NamesBefore(net'[r][x], i, path) \/ (x = p /\ e.path = path)
  <2> SUFFICES ASSUME NEW r \in Peers, NEW x \in Peers, NEW i \in DOMAIN net'[r][x]
               PROVE  \E k \in DOMAIN net[r][x] :
                         /\ net[r][x][k] = net'[r][x][i]
                         /\ \A path : NamesBefore(net[r][x], k, path) =>
                               NamesBefore(net'[r][x], i, path) \/ (x = p /\ e.path = path)
    OBVIOUS
  <2>1. CASE r = q /\ x = p
    BY <1>8, <2>1 DEF s
  <2>2. CASE r # q \/ x # p
    BY <1>2, <2>2
  <2> QED BY <2>1, <2>2
<1>10. MarkInv'
  <2>1. \A x \in Peers \ {p} : Mark(x)'.val # NoOne => Signed(Mark(x)', Mark(x)'.val)
    BY DEF ClaimInv, MarkInv
  <2>2. n.val # NoOne => Signed(n, n.val)
    BY <1>4, <1>6 DEF ClaimInv, MarkInv
  <2> QED BY <2>1, <2>2 DEF MarkInv, n, Signed
<1>11. MessageInv'
  <2> SUFFICES ASSUME NEW r \in Peers, NEW x \in Peers, NEW i \in DOMAIN net'[r][x], IsClaim(net'[r][x][i])
               PROVE  MessageOK(net[r][x][i], r)'
    BY DEF MessageInv, MessageOK
  <2>1. PICK k \in DOMAIN net[r][x] : net[r][x][k] = net'[r][x][i]
    BY <1>9
  <2>2. MessageOK(net[r][x][k], r) /\ net[r][x][k] \in Messages
    BY DEF ClaimInv, MessageInv, DocTypes
  <2>3. Claimed(net[r][x][k]) \in Claims
    BY <2>1, <2>2, ClaimIs
  <2> QED BY <1>7, <2>1, <2>2, <2>3 DEF MessageOK
<1>13. ASSUME NEW x \in Peers, NEW y \in Peers, NEW f \in Claims, Covers(Mark(y), f)
       PROVE  Covers(Mark(x)', f) \/ \E r \in Peers : Brings(net'[r][x], f)
  <2>1. CASE Covers(Mark(x), Mark(y))
    BY <1>5, <1>7, <1>13, <2>1, CoversTrans
  <2>2. ASSUME NEW r \in Peers, Brings(net[r][x], Mark(y))
        PROVE  Covers(Mark(x)', f) \/ Brings(net'[r][x], f)
    <3>1. Brings(net[r][x], f)
      <4>1. PICK i \in DOMAIN net[r][x] : IsClaim(net[r][x][i]) /\ Covers(Claimed(net[r][x][i]), Mark(y))
        BY <2>2 DEF Brings
      <4>2. net[r][x][i] \in Messages
        <5>1. net[r][x] \in Seq(Messages)
          BY DEF DocTypes
        <5> QED BY <5>1
      <4>3. Claimed(net[r][x][i]) \in Claims
        BY <4>1, <4>2, ClaimIs
      <4> QED BY <1>5, <1>13, <4>1, <4>3, CoversTrans DEF Brings
    <3>2. CASE r = q /\ x = p
      <4>1. Brings(net'[q][p], f) \/ Covers(e, f)
        BY <1>8, <3>1, <3>2 DEF s
      <4>2. Covers(e, f) => Covers(Mark(p)', f)
        BY <1>4, <1>5, <1>6, CoversTrans DEF n
      <4> QED BY <3>2, <4>1, <4>2
    <3>3. CASE r # q \/ x # p
      BY <1>2, <3>1, <3>3
    <3> QED BY <3>2, <3>3
  <2>3. Covers(Mark(x), Mark(y)) \/ \E r \in Peers : Brings(net[r][x], Mark(y))
    BY DEF ClaimInv, CoverInv, Covered
  <2> QED BY <2>1, <2>2, <2>3
<1>14. CoverInv'
  <2> SUFFICES ASSUME NEW y \in Peers, NEW x \in Peers
               PROVE  Covers(Mark(x)', Mark(y)') \/ \E r \in Peers : Brings(net'[r][x], Mark(y)')
    BY DEF CoverInv, Covered
  <2>1. CASE Mark(y)' = Mark(y)
    BY <1>5, <1>13, <2>1, CoversRefl
  <2>2. CASE y = p /\ n = e
    BY <1>4, <1>13, <2>2 DEF n
  <2> QED BY <1>6, <2>1, <2>2 DEF n
<1>15. ClearInv'
  <2> SUFFICES ASSUME NEW r \in Peers, NEW x \in Peers, NEW i \in DOMAIN net'[r][x],
                      IsClaim(net'[r][x][i]), Claimed(net'[r][x][i]).val = NoOne
               PROVE  \/ Reached(Claimed(net'[r][x][i]).path, Mark(x)'.path)
                      \/ NamesBefore(net'[r][x], i, Claimed(net'[r][x][i]).path)
    BY DEF ClearInv
  <2>1. PICK k \in DOMAIN net[r][x] : /\ net[r][x][k] = net'[r][x][i]
          /\ \A path : NamesBefore(net[r][x], k, path) =>
                NamesBefore(net'[r][x], i, path) \/ (x = p /\ e.path = path)
    BY <1>9
  <2>2. \/ Reached(Claimed(net[r][x][k]).path, Mark(x).path)
        \/ NamesBefore(net[r][x], k, Claimed(net[r][x][k]).path)
    BY <2>1 DEF ClaimInv, ClearInv
  <2>3. Claimed(net[r][x][k]).path \in Seq(Nat)
    <3>1. net[r][x][k] \in Messages
      BY DEF DocTypes
    <3> QED BY <2>1, <3>1, ClaimIs
  <2>4. Reached(e.path, n.path)
    BY <1>6 DEF Covers
  <2> QED BY <1>7, <2>1, <2>2, <2>3, <2>4 DEF n
<1>16. TellInv'
  <2> SUFFICES ASSUME NEW r \in Peers, NEW x \in Peers, Mark(r)'.val = r
               PROVE  Reached(Mark(r)'.path, Mark(x)'.path) \/ Names(net'[r][x], Mark(r)'.path)
    BY DEF TellInv
  <2>1. Mark(r)' = Mark(r)
    <3>1. CASE r = p
      <4>1. p # q /\ p # NoOne
        BY DEF DebugMirrorAssumption
      <4> QED BY <1>4, <1>6, <3>1, <4>1 DEF n
    <3>2. CASE r # p
      BY <3>2
    <3> QED BY <3>1, <3>2
  <2>2. Reached(Mark(r).path, Mark(x).path) \/ Names(net[r][x], Mark(r).path)
    BY <2>1 DEF ClaimInv, TellInv
  <2>3. Names(net[r][x], Mark(r).path) => Names(net'[r][x], Mark(r).path) \/ (x = p /\ e.path = Mark(r).path)
    <3>1. CASE r = q /\ x = p
      BY <1>8, <3>1 DEF s
    <3>2. CASE r # q \/ x # p
      BY <1>2, <3>2
    <3> QED BY <3>1, <3>2
  <2>4. Reached(e.path, n.path)
    BY <1>6 DEF Covers
  <2> QED BY <1>5, <1>7, <2>1, <2>2, <2>3, <2>4 DEF n
<1> QED BY <1>10, <1>11, <1>14, <1>15, <1>16 DEF ClaimInv

-----------------------------------------------------------------------------
(* What a peer sends. *)

LEMMA UpdateClaims ==
    ASSUME NEW p, NEW d \in Replicas
    PROVE  /\ IsClaim(Update(p, d)) <=> "initiator" \in Changed(p, d)
           /\ IsClaim(Update(p, d)) => Claimed(Update(p, d)) = d["initiator"]
<1> DEFINE C == Changed(p, d)  m == Update(p, d)
<1>1. m.kind = "doc" /\ m.doc = [k \in C |-> d[k]]
  BY UpdateIs
<1> HIDE DEF C, m
<1>2. DOMAIN m.doc = C
  BY <1>1
<1>3. "initiator" \in C => m.doc["initiator"] = d["initiator"]
  BY <1>1
<1> QED BY <1>1, <1>2, <1>3 DEF IsClaim, Claimed, C, m

LEMMA SendingParts ==
    ASSUME DocTypes, NEW p \in Peers, NEW d \in Replicas, NEW answer \in [Peers -> Seq(Messages)], NEW x \in Peers,
           \A i \in DOMAIN answer[x] : ~IsClaim(answer[x][i])
    PROVE  /\ d["initiator"] = Mark(p) \/ x = p => Same(net[p][x], Sending(p, d, answer)[x])
           /\ d["initiator"] # Mark(p) /\ x # p /\ answer[x] = <<>>
                => Adds(net[p][x], Sending(p, d, answer)[x], Update(p, d))
           /\ answer[x] = <<>> /\ x = p => Sending(p, d, answer)[x] = net[p][x]
<1> DEFINE s == net[p][x]  t == answer[x]
           y == IF x = p \/ Changed(p, d) = {} THEN <<>> ELSE <<Update(p, d)>>
<1>1. Sending(p, d, answer)[x] = s \o y \o t
  BY DEF Sending
<1>2. s \in Seq(Messages) /\ t \in Seq(Messages) /\ Update(p, d) \in Messages
  BY UpdateIs DEF DocTypes
<1>3. y \in Seq(Messages)
  BY <1>2, OneIs
<1>4. ASSUME d["initiator"] = Mark(p) \/ x = p PROVE Same(s, s \o y \o t)
  <2>1. \A i \in DOMAIN y : ~IsClaim(y[i])
    <3>1. CASE x = p \/ Changed(p, d) = {}
      BY <3>1
    <3>2. CASE x # p /\ Changed(p, d) # {}
      <4>1. "initiator" \notin Changed(p, d)
        BY <1>4, <3>2 DEF Changed, Mark
      <4>2. ~IsClaim(Update(p, d))
        BY <4>1, UpdateClaims
      <4> QED BY <3>2, <4>2
    <3> QED BY <3>1, <3>2
  <2> DEFINE u == s \o y \o t
  <2>2. \A i \in DOMAIN s : i \in DOMAIN u /\ u[i] = s[i]
    <3> HIDE DEF s, y, t
    <3> QED BY <1>2, <1>3
  <2>3. ASSUME NEW i \in DOMAIN u, i \notin DOMAIN s
        PROVE  (\E j \in DOMAIN y : u[i] = y[j]) \/ (\E j \in DOMAIN t : u[i] = t[j])
    <3> HIDE DEF s, y, t
    <3>1. CASE i <= Len(s) + Len(y)
      <4>1. i - Len(s) \in DOMAIN y /\ u[i] = y[i - Len(s)]
        BY <1>2, <1>3, <2>3, <3>1
      <4> QED BY <4>1
    <3>2. CASE ~(i <= Len(s) + Len(y))
      <4>1. i - (Len(s) + Len(y)) \in DOMAIN t /\ u[i] = t[i - (Len(s) + Len(y))]
        BY <1>2, <1>3, <2>3, <3>2
      <4> QED BY <4>1
    <3> QED BY <3>1, <3>2
  <2>4. \A i \in DOMAIN t : ~IsClaim(t[i])
    OBVIOUS
  <2> HIDE DEF s, y, t, u
  <2>5. Same(s, u)
    BY <2>1, <2>2, <2>3, <2>4, SameMore
  <2> QED BY <2>5 DEF u
<1>5. ASSUME d["initiator"] # Mark(p), x # p, t = <<>> PROVE Adds(s, s \o y \o t, Update(p, d))
  <2>1. "initiator" \in Changed(p, d)
    BY <1>5 DEF Changed, Keys, Mark
  <2>2. y = <<Update(p, d)>>
    BY <1>5, <2>1
  <2> HIDE DEF s, y, t
  <2>3. s \o y \o t = Append(s, Update(p, d))
    BY <1>2, <1>5, <2>2
  <2> QED BY <1>2, <2>3, AddsOne
<1>6. ASSUME t = <<>>, x = p PROVE s \o y \o t = s
  <2>1. y = <<>>
    BY <1>6
  <2> HIDE DEF s, y, t
  <2> QED BY <1>2, <1>6, <2>1
<1> QED BY <1>1, <1>4, <1>5, <1>6

\* Nobody sends to itself.
SelfInv == \A p \in Peers : net[p][p] = <<>>

LEMMA ClaimsSent ==
    ASSUME DebugMirrorAssumption, ClaimInv, SelfInv, DocTypes, DocTypes', NEW p \in Peers, NEW d \in Replicas,
           NEW answer \in [Peers -> Seq(Messages)],
           \A x \in Peers : \A i \in DOMAIN answer[x] : ~IsClaim(answer[x][i]), answer[p] = <<>>,
           d["initiator"] = Mark(p) \/ (answer = Nothing /\ Writes(p, d["initiator"])),
           doc' = [doc EXCEPT ![p] = d],
           \A x \in Peers : net'[p][x] = Sending(p, d, answer)[x],
           \A r \in Peers \ {p} : \A x \in Peers : Same(net[r][x], net'[r][x]),
           \A r \in Peers \ {p} : net'[r][r] = <<>>
    PROVE  ClaimInv' /\ SelfInv' /\ Mark(p)' = d["initiator"] /\ \A x \in Peers \ {p} : Mark(x)' = Mark(x)
<1>1. Mark(p)' = d["initiator"] /\ \A x \in Peers \ {p} : Mark(x)' = Mark(x)
  BY DEF Mark, DocTypes
<1>2. SelfInv'
  <2>1. net'[p][p] = net[p][p]
    BY SendingParts
  <2> QED BY <2>1 DEF SelfInv
<1>3. CASE d["initiator"] = Mark(p)
  <2>1. \A x \in Peers : Same(net[p][x], net'[p][x])
    BY <1>3, SendingParts
  <2> QED BY <1>1, <1>2, <1>3, <2>1, ClaimsStay
<1>4. CASE d["initiator"] # Mark(p)
  <2> DEFINE e == d["initiator"]  m == Update(p, d)
  <2>1. answer = Nothing /\ Writes(p, e) /\ \A x \in Peers : answer[x] = <<>>
    BY <1>4 DEF Nothing
  <2>2. \A x \in Peers \ {p} : Adds(net[p][x], net'[p][x], m)
    BY <1>4, <2>1, SendingParts
  <2>3. Same(net[p][p], net'[p][p])
    BY SendingParts
  <2>4. IsClaim(m) /\ Claimed(m) = e /\ e \in Claims
    <3>1. "initiator" \in Changed(p, d) /\ "initiator" \in Keys
      BY <1>4 DEF Changed, Keys, Mark
    <3> QED BY <3>1, UpdateClaims, ReplicaIs DEF Claims
  <2>5. \A r, q \in Peers : r # p \/ q = p => Same(net[r][q], net'[r][q])
    BY <2>3
  <2>6. Mark(p)' = e
    BY <1>1
  <2> HIDE DEF e, m
  <2>7. ClaimInv'
    BY <1>1, <2>1, <2>2, <2>4, <2>5, <2>6, ClaimsWrite
  <2> QED BY <1>1, <1>2, <2>7
<1> QED BY <1>3, <1>4

LEMMA ClaimsPublished ==
    ASSUME DebugMirrorAssumption, ClaimInv, SelfInv, DocTypes, NEW p \in Peers, NEW d \in Replicas,
           NEW answer \in [Peers -> Seq(Messages)],
           \A x \in Peers : \A i \in DOMAIN answer[x] : ~IsClaim(answer[x][i]), answer[p] = <<>>,
           d["initiator"] = Mark(p) \/ (answer = Nothing /\ Writes(p, d["initiator"])),
           PublishMap(p, d, answer)
    PROVE  ClaimInv' /\ SelfInv' /\ Mark(p)' = d["initiator"] /\ \A x \in Peers \ {p} : Mark(x)' = Mark(x)
<1>1. DocTypes'
  BY PublishIs
<1>2. doc' = [doc EXCEPT ![p] = d] /\ net' = [net EXCEPT ![p] = Sending(p, d, answer)]
  BY DEF PublishMap
<1>3. /\ \A x \in Peers : net'[p][x] = Sending(p, d, answer)[x]
      /\ \A r \in Peers \ {p} : net'[r] = net[r]
  BY <1>2 DEF DocTypes
<1>4. \A r \in Peers \ {p} : \A x \in Peers : Same(net[r][x], net'[r][x])
  BY <1>3, SameRefl
<1>5. \A r \in Peers \ {p} : net'[r][r] = <<>>
  BY <1>3 DEF SelfInv
<1> QED BY <1>1, <1>2, <1>3, <1>4, <1>5, ClaimsSent

\* The two answers that go with what is published.
LEMMA AnswersClaimNothing ==
    ASSUME NEW p \in Peers
    PROVE  /\ \A x \in Peers : Nothing[x] = <<>>
           /\ \A by, op : /\ Reply(p, by, op)[p] = <<>>
                         /\ \A x \in Peers : \A i \in DOMAIN Reply(p, by, op)[x] : ~IsClaim(Reply(p, by, op)[x][i])
<1>1. \A op : ~IsClaim([kind |-> "reply", op |-> op])
  BY DEF IsClaim
<1> QED BY <1>1 DEF Nothing, Reply

\* The map cleared, and the values written besides the role.
LEMMA RoleWritten ==
    ASSUME DebugMirrorAssumption, ClaimInv, DocTypes, NEW p \in Peers
    PROVE  /\ Cleared(p)["initiator"] = Mark(p) \/ Writes(p, Cleared(p)["initiator"])
           /\ Cleared(p)["initiator"].path = Mark(p).path
           /\ Cleared(p)["initiator"].val = IF Mark(p).val = p THEN NoOne ELSE Mark(p).val
           /\ Broadcast(p, [paused |-> FALSE])["initiator"] = Mark(p)
           /\ \A n : Broadcast(p, [paused |-> TRUE, frames |-> n])["initiator"] = Mark(p)
           /\ LET e == Set(p, [initiator |-> p, paused |-> TRUE])["initiator"] IN
              Writes(p, e) /\ e.val = p
<1>0. "initiator" \in Keys /\ Mark(p) \in Claims /\ Cleared(p) \in Replicas /\ Mine(p) = (Mark(p).val \in {NoOne, p})
  BY ClaimIs, ClearedIs DEF Keys, Mine, Initiator, Says, Mark
<1>1. /\ Cleared(p)["initiator"].path = Mark(p).path
      /\ Mine(p) => Cleared(p)["initiator"].val = NoOne
      /\ ~Mine(p) => Cleared(p)["initiator"] = Mark(p)
  BY <1>0, ClearedIs, ValuesAre DEF Mark
<1>2. Cleared(p)["initiator"].val = IF Mark(p).val = p THEN NoOne ELSE Mark(p).val
  BY <1>0, <1>1
<1>3. Cleared(p)["initiator"] = Mark(p) \/ Writes(p, Cleared(p)["initiator"])
  <2>1. CASE Mark(p).val = p
    BY <1>1, <1>2, <2>1 DEF Writes
  <2>2. CASE Mark(p).val # p
    <3>1. Cleared(p)["initiator"] \in Claims
      BY <1>0, ReplicaIs DEF Claims
    <3>2. Cleared(p)["initiator"].val = Mark(p).val
      BY <1>2, <2>2
    <3> QED BY <1>0, <1>1, <3>1, <3>2, EntryIs DEF Claims
  <2> QED BY <2>1, <2>2
<1>4. \A patch : "initiator" \notin DOMAIN patch => Broadcast(p, patch)["initiator"] = Mark(p)
  BY <1>0 DEF Broadcast, Set, Mark
<1> DEFINE e == Set(p, [initiator |-> p, paused |-> TRUE])["initiator"]
<1>5. e = [path |-> Append(Mark(p).path, ClientID[p]), val |-> p]
  BY <1>0 DEF Set, Mark
<1>6. Writes(p, e) /\ e.val = p
  <2> HIDE DEF e
  <2> QED BY <1>5 DEF Writes
<1>7. /\ Broadcast(p, [paused |-> FALSE])["initiator"] = Mark(p)
      /\ \A n : Broadcast(p, [paused |-> TRUE, frames |-> n])["initiator"] = Mark(p)
  BY <1>4
<1> QED BY <1>1, <1>2, <1>3, <1>6, <1>7

-----------------------------------------------------------------------------
(* A peer, its iframe and its role. *)

\* The messages that say something of the program, and what the last says of one that runs so.
Status == {"launched", "enter", "continue", "step", "pause", "stopped", "crashed", "exited", "unwound"}
Tells(run) == IF run \in Going THEN {"enter", "continue", "step"} ELSE {"launched", "pause", "stopped", "crashed"}
LastSays(s, ops) == \E i \in DOMAIN s : s[i].op \in ops /\ \A j \in DOMAIN s : j > i => s[j].op \notin Status
Lacks(s, ops) == \A i \in DOMAIN s : s[i].op \notin ops
Ending(s, p) == \E i \in DOMAIN s : s[i].op = "terminate" /\ s[i].by = p

\* The adapter follows the role.
InnerOK(p) == inner[p] = "remote" <=> Mark(p).val \notin {NoOne, p}

\* The last claim that one who drives knows of is its own.
DriveOK(p) == active[p] /\ inner[p] = "local" => Signed(Mark(p), p)

\* One who has the role and no session is about to give it up.
StopOK(p) == Mark(p).val = p => active[p] \/ cut \/ Ending(toVm[p], p) \/ Ending(toPage[p], p)

\* An observer has no program.
AwayOK(p) == inner[p] = "remote" /\ ~contested =>
    vm[p].run = "none" /\ Lacks(toVm[p], {"launch"}) /\ Lacks(toPage[p], {"launched"})

\* The panel shows the program once it has what it was sent.
ShownOK(p) == vm[p].run # "none" /\ ~contested =>
    \/ LastSays(toPage[p], Tells(vm[p].run))
    \/ Lacks(toPage[p], Status) /\ (active[p] => (paused[p] <=> vm[p].run \notin Going))

PeerOK(p) == InnerOK(p) /\ DriveOK(p) /\ StopOK(p) /\ AwayOK(p) /\ ShownOK(p)
DebugInv == DebugTypes /\ ClaimInv /\ SelfInv /\ \A p \in Peers : PeerOK(p)

LEMMA AppendSays ==
    ASSUME NEW S, NEW s \in Seq(S), NEW m, NEW p, NEW ops
    PROVE  /\ m.op \in ops => LastSays(Append(s, m), ops)
           /\ m.op \notin Status /\ LastSays(s, ops) => LastSays(Append(s, m), ops)
           /\ m.op \notin ops /\ Lacks(s, ops) => Lacks(Append(s, m), ops)
           /\ Ending(s, p) => Ending(Append(s, m), p)
           /\ m.op = "terminate" /\ m.by = p => Ending(Append(s, m), p)
<1> DEFINE t == Append(s, m)  n == Len(s) + 1
<1>1. /\ \A i \in DOMAIN s : i \in DOMAIN t /\ t[i] = s[i]
      /\ \A i \in DOMAIN t : i \notin DOMAIN s => i = n
      /\ \A i \in DOMAIN t : ~(i > n)
      /\ n \in DOMAIN t /\ t[n] = m
  OBVIOUS
<1> HIDE DEF t, n
<1>2. m.op \in ops => LastSays(t, ops)
  BY <1>1, Zenon DEF LastSays
<1>3. ASSUME m.op \notin Status, LastSays(s, ops) PROVE LastSays(t, ops)
  <2>1. PICK i \in DOMAIN s : s[i].op \in ops /\ \A j \in DOMAIN s : j > i => s[j].op \notin Status
    BY <1>3 DEF LastSays
  <2>2. i \in DOMAIN t /\ t[i].op \in ops
    BY <1>1, <2>1
  <2>3. ASSUME NEW j \in DOMAIN t, j > i PROVE t[j].op \notin Status
    <3>1. CASE j \in DOMAIN s
      BY <1>1, <2>1, <2>3, <3>1
    <3>2. CASE j = n
      BY <1>1, <1>3, <3>2
    <3> QED BY <1>1, <3>1, <3>2
  <2> QED BY <2>2, <2>3 DEF LastSays
<1>4. m.op \notin ops /\ Lacks(s, ops) => Lacks(t, ops)
  BY <1>1, Zenon DEF Lacks
<1>5. /\ Ending(s, p) => Ending(t, p)
      /\ m.op = "terminate" /\ m.by = p => Ending(t, p)
  BY <1>1, Zenon DEF Ending
<1> QED BY <1>2, <1>3, <1>4, <1>5 DEF t

LEMMA TailSays ==
    ASSUME NEW S, NEW s \in Seq(S), s # <<>>, NEW p, NEW ops
    PROVE  /\ LastSays(s, ops) => LastSays(Tail(s), ops) \/ (Head(s).op \in ops /\ Lacks(Tail(s), Status))
           /\ Lacks(s, ops) => Lacks(Tail(s), ops) /\ Head(s).op \notin ops
           /\ Ending(s, p) => Ending(Tail(s), p) \/ (Head(s).op = "terminate" /\ Head(s).by = p)
<1> DEFINE t == Tail(s)
<1>1. /\ \A i \in DOMAIN t : i + 1 \in DOMAIN s /\ t[i] = s[i + 1]
      /\ \A j \in DOMAIN s : j # 1 => j - 1 \in DOMAIN t /\ t[j - 1] = s[j]
      /\ Head(s) = s[1] /\ DOMAIN s \subseteq Nat /\ DOMAIN t \subseteq Nat /\ 1 \in DOMAIN s
      /\ \A i \in DOMAIN t : i + 1 > 1
  BY TailParts
<1> HIDE DEF t
<1>2. ASSUME LastSays(s, ops) PROVE LastSays(t, ops) \/ (Head(s).op \in ops /\ Lacks(t, Status))
  <2>1. PICK i \in DOMAIN s : s[i].op \in ops /\ \A j \in DOMAIN s : j > i => s[j].op \notin Status
    BY <1>2 DEF LastSays
  <2>2. CASE i = 1
    <3>1. \A k \in DOMAIN t : t[k].op \notin Status
      BY <1>1, <2>1, <2>2
    <3> QED BY <1>1, <2>1, <2>2, <3>1 DEF Lacks
  <2>3. CASE i # 1
    <3>1. i - 1 \in DOMAIN t /\ t[i - 1].op \in ops
      BY <1>1, <2>1, <2>3
    <3>2. ASSUME NEW k \in DOMAIN t, k > i - 1 PROVE t[k].op \notin Status
      <4>1. k + 1 \in DOMAIN s /\ k + 1 > i /\ t[k] = s[k + 1]
        BY <1>1, <3>2
      <4> QED BY <2>1, <4>1
    <3> QED BY <3>1, <3>2 DEF LastSays
  <2> QED BY <2>2, <2>3
<1>3. Lacks(s, ops) => Lacks(t, ops) /\ Head(s).op \notin ops
  BY <1>1 DEF Lacks
<1>4. ASSUME Ending(s, p) PROVE Ending(t, p) \/ (Head(s).op = "terminate" /\ Head(s).by = p)
  BY <1>1, <1>4, Zenon DEF Ending
<1> QED BY <1>2, <1>3, <1>4 DEF t

\* A peer that a step leaves alone.
Alone(p) ==
    /\ vm'[p] = vm[p] /\ toVm'[p] = toVm[p] /\ toPage'[p] = toPage[p]
    /\ active'[p] = active[p] /\ paused'[p] = paused[p] /\ inner'[p] = inner[p]
Onward == (contested => contested') /\ (cut => cut')

LEMMA AloneKeeps ==
    ASSUME NEW p, Alone(p), Onward, Mark(p)' = Mark(p), PeerOK(p) PROVE PeerOK(p)'
<1>1. InnerOK(p)' /\ DriveOK(p)'
  BY DEF Alone, PeerOK, InnerOK, DriveOK
<1>2. StopOK(p)'
  BY DEF Alone, Onward, PeerOK, StopOK
<1>3. AwayOK(p)'
  BY DEF Alone, Onward, PeerOK, AwayOK
<1>4. ShownOK(p)'
  BY DEF Alone, Onward, PeerOK, ShownOK
<1> QED BY <1>1, <1>2, <1>3, <1>4 DEF PeerOK

\* What the page takes: the head of its queue goes.

\* What the page takes: the head of its queue goes.
LEMMA PageTakes ==
    ASSUME VmTypes, NEW p \in Peers, toPage[p] # <<>>, Taken(p), UNCHANGED <<vm, contested>>,
           toVm'[p] = toVm[p] \/ \E m : m.op # "launch" /\ toVm'[p] = Append(toVm[p], m),
           PeerOK(p), inner'[p] = inner[p]
    PROVE  /\ AwayOK(p)'
           /\ Ending(toVm[p], p) => Ending(toVm'[p], p)
           /\ Ending(toPage[p], p) /\ ~(Head(toPage[p]).op = "terminate" /\ Head(toPage[p]).by = p)
                => Ending(toPage'[p], p)
<1> DEFINE s == toPage[p]  t == toVm[p]  L == {"launch"}  M == {"launched"}
<1>1. toPage'[p] = Tail(s) /\ s \in Seq(Events) /\ t \in Seq(Calls) /\ s # <<>>
  BY DEF VmTypes, Taken
<1>2. (Ending(t, p) => Ending(toVm'[p], p)) /\ (Lacks(t, L) => Lacks(toVm'[p], L))
  <2>1. CASE toVm'[p] = t
    BY <2>1
  <2>2. ASSUME NEW m, m.op # "launch", toVm'[p] = Append(t, m)
        PROVE  (Ending(t, p) => Ending(toVm'[p], p)) /\ (Lacks(t, L) => Lacks(toVm'[p], L))
    <3>1. m.op \notin L
      BY <2>2
    <3> HIDE DEF t, L
    <3>2. (Ending(t, p) => Ending(Append(t, m), p)) /\ (Lacks(t, L) => Lacks(Append(t, m), L))
      BY <1>1, <3>1, AppendSays
    <3> QED BY <2>2, <3>2
  <2> QED BY <2>1, <2>2
<1>3. /\ Lacks(s, M) => Lacks(Tail(s), M)
      /\ Ending(s, p) => Ending(Tail(s), p) \/ (Head(s).op = "terminate" /\ Head(s).by = p)
  <2> HIDE DEF s, M
  <2> QED BY <1>1, TailSays
<1> QED BY <1>1, <1>2, <1>3 DEF AwayOK, PeerOK

LEMMA PageShows ==
    ASSUME VmTypes, NEW p \in Peers, toPage[p] # <<>>, Taken(p), UNCHANGED <<vm, contested>>, PeerOK(p),
           /\ vm[p].run # "none" /\ ~contested /\ Head(toPage[p]).op \in Tells(vm[p].run)
           => (active'[p] => (paused'[p] <=> vm[p].run \notin Going)),
           Head(toPage[p]).op \notin Status => active'[p] = active[p] /\ paused'[p] = paused[p]
    PROVE  ShownOK(p)'
<1> SUFFICES ASSUME vm[p].run # "none", ~contested
             PROVE  \/ LastSays(toPage'[p], Tells(vm[p].run))
                    \/ Lacks(toPage'[p], Status) /\ (active'[p] => (paused'[p] <=> vm[p].run \notin Going))
  BY DEF ShownOK
<1> DEFINE s == toPage[p]  T == Tells(vm[p].run)
<1>1. toPage'[p] = Tail(s) /\ s \in Seq(Events) /\ s # <<>>
  BY DEF VmTypes, Taken
<1>2. CASE LastSays(s, T)
  <2>1. LastSays(Tail(s), T) \/ (Head(s).op \in T /\ Lacks(Tail(s), Status))
    <3> HIDE DEF s, T
    <3> QED BY <1>1, <1>2, TailSays
  <2> QED BY <1>1, <2>1
<1>3. CASE Lacks(s, Status) /\ (active[p] => (paused[p] <=> vm[p].run \notin Going))
  <2>1. Lacks(Tail(s), Status) /\ Head(s).op \notin Status
    <3> HIDE DEF s
    <3> QED BY <1>1, <1>3, TailSays
  <2> QED BY <1>1, <1>3, <2>1
<1> QED BY <1>2, <1>3 DEF PeerOK, ShownOK

-----------------------------------------------------------------------------
(* What the user does. *)

\* What a step of p must show.
Carried(p) ==
    /\ ClaimInv' /\ SelfInv' /\ Onward /\ PeerOK(p)'
    /\ \A q \in Peers \ {p} : Mark(q)' = Mark(q) /\ Alone(q)

\* A step that says nothing to the other peers, and one that says something to one of them.
LEMMA MarksStay == ASSUME doc' = doc PROVE \A q \in Peers : Mark(q)' = Mark(q)
BY DEF Mark

LEMMA Unsaid ==
    ASSUME ClaimInv, SelfInv, UNCHANGED <<doc, net>>
    PROVE  ClaimInv' /\ SelfInv' /\ \A q \in Peers : Mark(q)' = Mark(q)
<1>1. SelfInv' /\ \A q \in Peers : Mark(q)' = Mark(q)
  BY DEF SelfInv, Mark
<1>2. \A r, q \in Peers : Same(net[r][q], net'[r][q])
  BY SameRefl
<1> QED BY <1>1, <1>2, ClaimsStay

LEMMA Asked ==
    ASSUME DocTypes, ClaimInv, SelfInv, NEW p \in Peers, NEW x \in Peers \ {p}, NEW m, ~IsClaim(m), doc' = doc,
           net' = [net EXCEPT ![p][x] = Append(@, m)]
    PROVE  ClaimInv' /\ SelfInv' /\ \A q \in Peers : Mark(q)' = Mark(q)
<1>1. /\ \A r, q \in Peers : (r # p \/ q # x) => net'[r][q] = net[r][q]
      /\ net'[p][x] = Append(net[p][x], m)
  BY DEF DocTypes
<1>2. net[p][x] \in Seq(Messages)
  BY DEF DocTypes
<1>3. Same(net[p][x], net'[p][x])
  BY <1>1, <1>2, SameAppend
<1>4. \A r, q \in Peers : Same(net[r][q], net'[r][q])
  BY <1>1, <1>3, SameRefl
<1>5. SelfInv'
  BY <1>1 DEF SelfInv
<1> QED BY <1>4, <1>5, MarksStay, ClaimsStay

LEMMA OthersUser ==
    ASSUME VmTypes, UiTypes, NEW p \in Peers, \E op \in Control : Debug(p) \/ Stop(p) \/ Press(p, op)
    PROVE  \A q \in Peers \ {p} : Alone(q)
<1>1. UNCHANGED <<vm, toPage, inner>>
  BY DEF Debug, Stop, Press, ui
<1>2. \A q \in Peers \ {p} : active'[q] = active[q] /\ paused'[q] = paused[q]
  BY DEF Debug, Stop, Press, ui, UiTypes
<1>3. \A q \in Peers \ {p} : toVm'[q] = toVm[q]
  BY DEF Debug, Stop, Press, Post, VmTypes
<1> QED BY <1>1, <1>2, <1>3 DEF Alone

LEMMA DebugCarries ==
    ASSUME DebugMirrorAssumption, DebugInv, NEW p \in Peers, Debug(p) PROVE Carried(p)
<1>1. UNCHANGED <<vm, toPage, active, paused, inner, doc, net, contested, cut>> /\ inner[p] = "local"
  BY DEF Debug
<1>2. ClaimInv' /\ SelfInv' /\ \A q \in Peers : Mark(q)' = Mark(q)
  BY <1>1, Unsaid DEF DebugInv
<1>3. Ending(toVm[p], p) => Ending(toVm'[p], p)
  <2> DEFINE s == toVm[p]  m == [op |-> "launch", by |-> p]
  <2>1. s \in Seq(Calls) /\ toVm'[p] = Append(s, m)
    BY DEF DebugInv, DebugTypes, VmTypes, Debug, Post
  <2> HIDE DEF s, m
  <2> QED BY <2>1, AppendSays DEF s
<1>4. PeerOK(p)'
  <2>0. PeerOK(p) /\ Mark(p)' = Mark(p)
    BY <1>2 DEF DebugInv
  <2>1. InnerOK(p)' /\ DriveOK(p)'
    BY <1>1, <2>0 DEF PeerOK, InnerOK, DriveOK
  <2>2. StopOK(p)'
    BY <1>1, <1>3, <2>0 DEF PeerOK, StopOK
  <2>3. AwayOK(p)'
    BY <1>1 DEF AwayOK
  <2>4. ShownOK(p)'
    BY <1>1, <2>0 DEF PeerOK, ShownOK
  <2> QED BY <2>1, <2>2, <2>3, <2>4 DEF PeerOK
<1>5. Control # {}
  BY DEF Control
<1> QED BY <1>1, <1>2, <1>4, <1>5, OthersUser DEF Carried, Onward, DebugInv, DebugTypes

\* A command goes to the initiator, another peer.
LEMMA Elsewhere ==
    ASSUME DebugTypes, NEW p \in Peers, PeerOK(p), inner[p] = "remote"
    PROVE  Initiator(p) \in Peers \ {p} /\ Initiator(p) = Mark(p).val
<1>1. Mark(p) \in Claims
  BY ClaimIs DEF DebugTypes
<1>2. Mark(p).val \in Peers \cup {NoOne}
  BY <1>1, ClaimIs
<1> QED BY <1>2 DEF PeerOK, InnerOK, Initiator, Says, Mark

LEMMA PressCarries ==
    ASSUME DebugMirrorAssumption, DebugInv, NEW p \in Peers, NEW op \in Control, Press(p, op) PROVE Carried(p)
<1>1. UNCHANGED <<vm, toPage, active, paused, inner, doc, contested, cut>>
  BY DEF Press, ui
<1>2. PeerOK(p) /\ DebugTypes /\ DocTypes /\ ClaimInv /\ SelfInv
  BY DEF DebugInv, DebugTypes
<1>3. /\ ClaimInv' /\ SelfInv' /\ \A q \in Peers : Mark(q)' = Mark(q)
      /\ Ending(toVm[p], p) => Ending(toVm'[p], p)
      /\ inner[p] = "local" \/ toVm' = toVm
  <2>1. CASE inner[p] = "local" /\ Post(p, op, p) /\ UNCHANGED net
    <3> DEFINE s == toVm[p]  m == [op |-> op, by |-> p]
    <3>1. s \in Seq(Calls) /\ toVm'[p] = Append(s, m)
      BY <2>1, <1>2 DEF DebugTypes, VmTypes, Post
    <3> HIDE DEF s, m
    <3>2. Ending(s, p) => Ending(toVm'[p], p)
      BY <3>1, AppendSays
    <3> QED BY <1>1, <1>2, <2>1, <3>2, Unsaid DEF s
  <2>2. CASE /\ inner[p] = "remote" /\ UNCHANGED toVm
             /\ net' = [net EXCEPT ![p][Initiator(p)] = Append(@, [kind |-> "rpc", op |-> op])]
    <3>1. Initiator(p) \in Peers \ {p}
      BY <1>2, <2>2, Elsewhere
    <3>2. ~IsClaim([kind |-> "rpc", op |-> op])
      BY DEF IsClaim
    <3> QED BY <1>1, <1>2, <2>2, <3>1, <3>2, Asked
  <2> QED BY <2>1, <2>2 DEF Press
<1>4. PeerOK(p)'
  <2>0. Mark(p)' = Mark(p)
    BY <1>3
  <2>1. InnerOK(p)' /\ DriveOK(p)'
    BY <1>1, <1>2, <2>0 DEF PeerOK, InnerOK, DriveOK
  <2>2. StopOK(p)'
    BY <1>1, <1>2, <1>3, <2>0 DEF PeerOK, StopOK
  <2>3. AwayOK(p)'
    BY <1>1, <1>2, <1>3 DEF PeerOK, AwayOK
  <2>4. ShownOK(p)'
    BY <1>1, <1>2 DEF PeerOK, ShownOK
  <2> QED BY <2>1, <2>2, <2>3, <2>4 DEF PeerOK
<1> QED BY <1>1, <1>2, <1>3, <1>4, OthersUser DEF Carried, Onward, DebugTypes

LEMMA StopCarries ==
    ASSUME DebugMirrorAssumption, DebugInv, NEW p \in Peers, Stop(p) PROVE Carried(p)
<1>1. UNCHANGED <<vm, toPage, inner, doc, contested, cut>>
  BY DEF Stop
<1>2. PeerOK(p) /\ DebugTypes /\ DocTypes /\ ClaimInv /\ SelfInv
  BY DEF DebugInv, DebugTypes
<1>3. active'[p] = FALSE
  BY <1>2 DEF Stop, DebugTypes, UiTypes
<1>4. /\ ClaimInv' /\ SelfInv' /\ \A q \in Peers : Mark(q)' = Mark(q)
      /\ (inner[p] = "local" /\ Ending(toVm'[p], p)) \/ (inner[p] = "remote" /\ toVm' = toVm)
  <2>1. CASE inner[p] = "local" /\ Post(p, "terminate", p) /\ UNCHANGED net
    <3> DEFINE s == toVm[p]  m == [op |-> "terminate", by |-> p]
    <3>1. s \in Seq(Calls) /\ toVm'[p] = Append(s, m) /\ m.op = "terminate" /\ m.by = p
      BY <2>1, <1>2 DEF DebugTypes, VmTypes, Post
    <3> HIDE DEF s, m
    <3>2. m.op = "terminate" /\ m.by = p => Ending(Append(s, m), p)
      BY <3>1, AppendSays, Zenon
    <3>3. Ending(toVm'[p], p)
      BY <3>1, <3>2
    <3>4. ClaimInv' /\ SelfInv' /\ \A q \in Peers : Mark(q)' = Mark(q)
      BY <1>1, <1>2, <2>1, Unsaid
    <3> QED BY <2>1, <3>3, <3>4
  <2>2. CASE /\ inner[p] = "remote" /\ UNCHANGED toVm
             /\ net' = [net EXCEPT ![p][Initiator(p)] = Append(@, [kind |-> "rpc", op |-> "terminate"])]
    <3>1. Initiator(p) \in Peers \ {p}
      BY <1>2, <2>2, Elsewhere
    <3>2. ~IsClaim([kind |-> "rpc", op |-> "terminate"])
      BY DEF IsClaim
    <3> QED BY <1>1, <1>2, <2>2, <3>1, <3>2, Asked
  <2> QED BY <2>1, <2>2 DEF Stop
<1>5. PeerOK(p)'
  <2>0. Mark(p)' = Mark(p) /\ (inner[p] = "remote" => Mark(p).val # p)
    BY <1>2, <1>4, Elsewhere
  <2>1. InnerOK(p)' /\ DriveOK(p)'
    BY <1>1, <1>2, <1>3, <2>0 DEF PeerOK, InnerOK, DriveOK
  <2>2. StopOK(p)'
    BY <1>1, <1>2, <1>4, <2>0 DEF PeerOK, StopOK
  <2>3. AwayOK(p)'
    BY <1>1, <1>2, <1>4 DEF PeerOK, AwayOK
  <2>4. ShownOK(p)'
    BY <1>1, <1>2, <1>3 DEF PeerOK, ShownOK
  <2> QED BY <2>1, <2>2, <2>3, <2>4 DEF PeerOK
<1>6. Control # {}
  BY DEF Control
<1> QED BY <1>1, <1>2, <1>4, <1>5, <1>6, OthersUser DEF Carried, Onward, DebugTypes

-----------------------------------------------------------------------------
(* What the iframe does. *)

LEMMA OthersVm ==
    ASSUME VmTypes, NEW p \in Peers, VmTakes(p) \/ VmStops(p) \/ VmEnds(p)
    PROVE  \A q \in Peers \ {p} : Alone(q)
<1>1. UNCHANGED <<active, paused, inner>>
  BY DEF VmTakes, VmStops, VmEnds, ui
<1>2. \A q \in Peers \ {p} : vm'[q] = vm[q]
  BY DEF VmTakes, VmStops, VmEnds, VmTypes
<1>3. \A q \in Peers \ {p} : toVm'[q] = toVm[q]
  BY DEF VmTakes, VmStops, VmEnds, VmTypes
<1>4. \A q \in Peers \ {p} : toPage'[q] = toPage[q]
  BY DEF VmTakes, VmStops, VmEnds, VmTypes, Tell
<1> QED BY <1>1, <1>2, <1>3, <1>4 DEF Alone

\* What the iframe says of its program is what the panel will show.
LEMMA VmShows ==
    ASSUME VmTypes, NEW p \in Peers, NEW m, toPage'[p] = Append(toPage[p], m), ShownOK(p),
           UNCHANGED <<active, paused, contested>>,
           vm'[p].run # "none" =>
               m.op \in Tells(vm'[p].run) \/ (m.op \notin Status /\ vm'[p].run = vm[p].run)
    PROVE  ShownOK(p)'
<1> DEFINE s == toPage[p]  run == vm'[p].run  T == Tells(run)
<1> SUFFICES ASSUME run # "none", ~contested
             PROVE  \/ LastSays(Append(s, m), T)
                    \/ Lacks(Append(s, m), Status) /\ (active[p] => (paused[p] <=> run \notin Going))
  BY DEF ShownOK
<1>1. s \in Seq(Events)
  BY DEF VmTypes
<1>2. CASE m.op \in T
  <2> HIDE DEF s, T
  <2> QED BY <1>1, <1>2, AppendSays
<1>3. CASE m.op \notin Status /\ run = vm[p].run
  <2>1. LastSays(s, T) \/ (Lacks(s, Status) /\ (active[p] => (paused[p] <=> run \notin Going)))
    BY <1>3 DEF ShownOK
  <2> HIDE DEF s, T
  <2>2. LastSays(s, T) => LastSays(Append(s, m), T)
    BY <1>1, <1>3, AppendSays
  <2>3. Lacks(s, Status) => Lacks(Append(s, m), Status)
    BY <1>1, <1>3, AppendSays
  <2> QED BY <2>1, <2>2, <2>3
<1> QED BY <1>2, <1>3

\* The iframe serves a request: r leaves its queue.
LEMMA VmQueues ==
    ASSUME VmTypes, NEW p \in Peers, toVm[p] # <<>>, toVm'[p] = Tail(toVm[p]),
           \/ toPage'[p] = toPage[p] /\ Head(toVm[p]).op # "terminate"
           \/ \E m : /\ toPage'[p] = Append(toPage[p], m)
                     /\ m.op = "launched" => Head(toVm[p]).op = "launch"
                     /\ Head(toVm[p]).op = "terminate" => m = Head(toVm[p])
           \/ \E n \in {"exited", "unwound"} :
                 toPage'[p] = Append(Append(toPage[p], Head(toVm[p])), [op |-> n]) /\ Head(toVm[p]).op = "terminate"
    PROVE  /\ Lacks(toVm[p], {"launch"}) => Lacks(toVm'[p], {"launch"}) /\ Head(toVm[p]).op # "launch"
           /\ Lacks(toVm[p], {"launch"}) /\ Lacks(toPage[p], {"launched"}) => Lacks(toPage'[p], {"launched"})
           /\ Ending(toVm[p], p) \/ Ending(toPage[p], p) => Ending(toVm'[p], p) \/ Ending(toPage'[p], p)
<1> DEFINE s == toVm[p]  t == toPage[p]  r == Head(s)  L == {"launch"}  M == {"launched"}
<1>1. s \in Seq(Calls) /\ t \in Seq(Events) /\ s # <<>> /\ toVm'[p] = Tail(s) /\ r \in Calls
  BY DEF VmTypes
<1>2. /\ Lacks(s, L) => Lacks(Tail(s), L) /\ r.op # "launch"
      /\ Ending(s, p) => Ending(Tail(s), p) \/ (r.op = "terminate" /\ r.by = p)
  <2>1. Lacks(s, L) => Lacks(Tail(s), L) /\ r.op \notin L
    <3> HIDE DEF s, L
    <3> QED BY <1>1, TailSays DEF r
  <2>2. Ending(s, p) => Ending(Tail(s), p) \/ (r.op = "terminate" /\ r.by = p)
    <3> HIDE DEF s
    <3> QED BY <1>1, TailSays DEF r
  <2> QED BY <2>1, <2>2
<1>3. ASSUME NEW S, NEW u \in Seq(S), NEW m
      PROVE  /\ m.op # "launched" /\ Lacks(u, M) => Lacks(Append(u, m), M)
             /\ Ending(u, p) => Ending(Append(u, m), p)
             /\ m.op = "terminate" /\ m.by = p => Ending(Append(u, m), p)
  <2>1. m.op # "launched" => m.op \notin M
    OBVIOUS
  <2> HIDE DEF M
  <2>2. m.op \notin M /\ Lacks(u, M) => Lacks(Append(u, m), M)
    BY AppendSays, Zenon
  <2>3. /\ Ending(u, p) => Ending(Append(u, m), p)
        /\ m.op = "terminate" /\ m.by = p => Ending(Append(u, m), p)
    BY AppendSays, Zenon
  <2> QED BY <2>1, <2>2, <2>3
<1>4. CASE toPage'[p] = t /\ r.op # "terminate"
  BY <1>1, <1>2, <1>4
<1>5. ASSUME NEW m, toPage'[p] = Append(t, m), m.op = "launched" => r.op = "launch",
             r.op = "terminate" => m = r
      PROVE  /\ Lacks(s, L) /\ Lacks(t, M) => Lacks(toPage'[p], M)
             /\ Ending(s, p) \/ Ending(t, p) => Ending(toVm'[p], p) \/ Ending(toPage'[p], p)
  <2>1. /\ m.op # "launched" /\ Lacks(t, M) => Lacks(toPage'[p], M)
        /\ Ending(t, p) => Ending(toPage'[p], p)
        /\ m.op = "terminate" /\ m.by = p => Ending(toPage'[p], p)
    BY <1>1, <1>3, <1>5
  <2> QED BY <1>1, <1>2, <1>5, <2>1
<1>6. ASSUME NEW n \in {"exited", "unwound"}, toPage'[p] = Append(Append(t, r), [op |-> n]), r.op = "terminate"
      PROVE  /\ Lacks(s, L) /\ Lacks(t, M) => Lacks(toPage'[p], M)
             /\ Ending(s, p) \/ Ending(t, p) => Ending(toVm'[p], p) \/ Ending(toPage'[p], p)
  <2> DEFINE u == Append(t, r)  m == [op |-> n]
  <2>1. u \in Seq(Events \cup {r}) /\ m.op # "launched" /\ toPage'[p] = Append(u, m)
    <3> HIDE DEF t, r
    <3> QED BY <1>1, <1>6
  <2>2. /\ Lacks(t, M) => Lacks(u, M)
        /\ Ending(t, p) => Ending(u, p)
        /\ r.op = "terminate" /\ r.by = p => Ending(u, p)
    BY <1>1, <1>3, <1>6
  <2> HIDE DEF u, m
  <2>3. /\ Lacks(u, M) => Lacks(toPage'[p], M)
        /\ Ending(u, p) => Ending(toPage'[p], p)
    BY <1>3, <2>1
  <2> QED BY <1>1, <1>2, <1>6, <2>2, <2>3
<1> QED BY <1>1, <1>2, <1>4, <1>5, <1>6

LEMMA VmTakesCarries ==
    ASSUME DebugMirrorAssumption, DebugInv, NEW p \in Peers, VmTakes(p) PROVE Carried(p)
<1> DEFINE r == Head(toVm[p])  alive == vm[p].run \in Going \cup {"paused"}  old == vm[p].run  run == vm'[p].run
<1>1. UNCHANGED <<active, paused, inner, doc, net, contested, cut>> /\ toVm[p] # <<>> /\ toVm'[p] = Tail(toVm[p])
  BY DEF VmTakes, ui, DebugInv, DebugTypes, VmTypes
<1>2. PeerOK(p) /\ VmTypes /\ ClaimInv /\ SelfInv /\ old \in Runs /\ r \in Calls
  <2>1. VmTypes /\ PeerOK(p) /\ ClaimInv /\ SelfInv
    BY DEF DebugInv, DebugTypes
  <2>2. toVm[p] \in Seq(Calls) /\ vm[p].run \in Runs
    BY <2>1 DEF VmTypes
  <2> QED BY <1>1, <2>1, <2>2
<1>3. ClaimInv' /\ SelfInv' /\ Mark(p)' = Mark(p) /\ \A q \in Peers : Mark(q)' = Mark(q)
  BY <1>1, <1>2, Unsaid
<1>4. /\ vm \in [Peers -> [run : Runs, at : Stops]] /\ vm[p].run = old
      /\ \A v : vm' = [vm EXCEPT ![p].run = v] => run = v
      /\ vm' = vm => run = old
      /\ \A m : Tell(p, m) => toPage'[p] = Append(toPage[p], m)
      /\ toPage' = toPage => toPage'[p] = toPage[p]
  BY <1>2 DEF VmTypes, Tell
\* What a request does to the program, and what is said of it.
<1> DEFINE Said(m) == /\ toPage'[p] = Append(toPage[p], m)
                      /\ m.op = "launched" => r.op = "launch"
                      /\ r.op = "terminate" => m = r
                      /\ run # "none" => m.op \in Tells(run) \/ (m.op \notin Status /\ run = old)
           Done == \/ \E m : Said(m)
                   \/ toPage'[p] = toPage[p] /\ r.op # "terminate" /\ (run = "none" \/ run = old)
                   \/ \E n \in {"exited", "unwound"} :
                         toPage'[p] = Append(Append(toPage[p], r), [op |-> n]) /\ r.op = "terminate" /\ run = "none"
<1>5. Done /\ (old = "none" /\ r.op # "launch" => run = "none")
  <2>1. ASSUME r.op = "launch", NEW w \in {"paused", "none"}, vm' = [vm EXCEPT ![p].run = w],
               Tell(p, [op |-> IF w = "paused" THEN "launched" ELSE "refused"])
        PROVE  Done /\ (old = "none" /\ r.op # "launch" => run = "none")
    <3> DEFINE m == [op |-> IF w = "paused" THEN "launched" ELSE "refused"]
    <3>1. run = w /\ m.op = (IF w = "paused" THEN "launched" ELSE "refused") /\ toPage'[p] = Append(toPage[p], m)
      BY <1>4, <2>1
    <3> HIDE DEF m, r, run
    <3>2. Said(m)
      BY <2>1, <3>1 DEF Tells, Going
    <3> QED BY <2>1, <3>2
  <2>2. CASE /\ r.op \in {"enter", "continue", "step"} /\ old # "crashed"
             /\ vm' = [vm EXCEPT ![p].run = IF ~alive THEN @ ELSE IF r.op = "step" THEN "stepping" ELSE "running"]
             /\ Tell(p, r)
    <3>1. run = IF ~alive THEN old ELSE IF r.op = "step" THEN "stepping" ELSE "running"
      BY <1>4, <2>2
    <3>2. toPage'[p] = Append(toPage[p], r)
      BY <1>4, <2>2
    <3> HIDE DEF r, run, old
    <3>3. ~alive => run = "none" /\ run = old
      BY <1>2, <2>2, <3>1 DEF Runs, old
    <3>4. alive => run \in Going /\ old # "none"
      BY <3>1 DEF Going, old
    <3>5. Said(r)
      BY <2>2, <3>2, <3>3, <3>4 DEF Tells
    <3> QED BY <2>2, <3>3, <3>4, <3>5
  <2>3. CASE /\ r.op = "pause" /\ old # "crashed"
             /\ vm' = [vm EXCEPT ![p].run = IF alive THEN "paused" ELSE @]
             /\ Tell(p, r)
    <3>1. run = IF alive THEN "paused" ELSE old
      BY <1>4, <2>3
    <3>2. toPage'[p] = Append(toPage[p], r)
      BY <1>4, <2>3
    <3> HIDE DEF r, run, old
    <3>3. ~alive => run = "none" /\ run = old
      BY <1>2, <2>3, <3>1 DEF Runs, old
    <3>4. alive => run \notin Going /\ old # "none"
      BY <3>1 DEF Going, old
    <3>5. Said(r)
      BY <2>3, <3>2, <3>3, <3>4 DEF Tells
    <3> QED BY <2>3, <3>3, <3>4, <3>5
  <2>4. CASE r.op \in Control \cup {"enter"} /\ old = "crashed" /\ UNCHANGED <<vm, toPage>>
    BY <1>4, <2>4 DEF Control
  <2>5. ASSUME NEW m, m.op = r.op, r.op \in {"frames", "scopes"}, vm' = vm, Tell(p, m)
        PROVE  Done /\ (old = "none" /\ r.op # "launch" => run = "none")
    <3>1. toPage'[p] = Append(toPage[p], m) /\ run = old
      BY <1>4, <2>5
    <3>2. m.op \notin Status /\ r.op # "terminate" /\ m.op # "launched"
      BY <2>5 DEF Status
    <3> HIDE DEF r, run
    <3>3. Said(m)
      BY <3>1, <3>2
    <3> QED BY <3>1, <3>3
  <2>6. CASE r.op = "terminate" /\ vm' = [vm EXCEPT ![p].run = "none"] /\ Tell(p, r)
    <3>1. toPage'[p] = Append(toPage[p], r) /\ run = "none"
      BY <1>4, <2>6
    <3> HIDE DEF r, run
    <3>2. Said(r)
      BY <2>6, <3>1
    <3> QED BY <3>1, <3>2
  <2>7. ASSUME r.op = "terminate", vm' = [vm EXCEPT ![p].run = "none"], NEW n \in {"exited", "unwound"},
               toPage' = [toPage EXCEPT ![p] = @ \o <<r, [op |-> n]>>]
        PROVE  Done /\ (old = "none" /\ r.op # "launch" => run = "none")
    <3> DEFINE t == toPage[p]  m == [op |-> n]
    <3>1. toPage'[p] = t \o <<r, m>> /\ run = "none" /\ t \in Seq(Events)
      BY <1>2, <1>4, <2>7 DEF VmTypes
    <3> HIDE DEF t, r, m, run
    <3>2. t \o <<r, m>> = Append(Append(t, r), m)
      BY <3>1
    <3> QED BY <2>7, <3>1, <3>2 DEF t, m
  <2>8. CASE r.op = "halt" /\ toPage' = toPage /\ vm' = [vm EXCEPT ![p].run = "none"]
    BY <1>4, <2>8
  <2>9. [op |-> "frames", by |-> r.by, at |-> vm[p].at].op = "frames"
    OBVIOUS
  <2> QED
    <3> HIDE DEF Done
    <3> QED BY <2>1, <2>2, <2>3, <2>4, <2>5, <2>6, <2>7, <2>8, <2>9 DEF VmTakes
<1>6. /\ Lacks(toVm[p], {"launch"}) => Lacks(toVm'[p], {"launch"}) /\ r.op # "launch"
      /\ Lacks(toVm[p], {"launch"}) /\ Lacks(toPage[p], {"launched"}) => Lacks(toPage'[p], {"launched"})
      /\ Ending(toVm[p], p) \/ Ending(toPage[p], p) => Ending(toVm'[p], p) \/ Ending(toPage'[p], p)
  <2>1. \/ toPage'[p] = toPage[p] /\ r.op # "terminate"
        \/ \E m : /\ toPage'[p] = Append(toPage[p], m)
                  /\ m.op = "launched" => r.op = "launch"
                  /\ r.op = "terminate" => m = r
        \/ \E n \in {"exited", "unwound"} :
              toPage'[p] = Append(Append(toPage[p], r), [op |-> n]) /\ r.op = "terminate"
    BY <1>5, Zenon
  <2> QED BY <1>1, <1>2, <2>1, VmQueues
<1>7. ShownOK(p)'
  <2>0. ShownOK(p)
    BY <1>2 DEF PeerOK
  <2>1. ASSUME NEW m, Said(m) PROVE ShownOK(p)'
    BY <1>1, <1>2, <2>0, <2>1, VmShows
  <2>2. CASE toPage'[p] = toPage[p] /\ run = old
    BY <1>1, <2>0, <2>2 DEF ShownOK
  <2>3. CASE run = "none"
    BY <2>3 DEF ShownOK
  <2> QED BY <1>5, <2>1, <2>2, <2>3
<1>8. PeerOK(p)'
  <2>1. InnerOK(p)' /\ DriveOK(p)'
    BY <1>1, <1>2, <1>3 DEF PeerOK, InnerOK, DriveOK
  <2>2. StopOK(p)'
    BY <1>1, <1>2, <1>3, <1>6 DEF PeerOK, StopOK
  <2>3. AwayOK(p)'
    <3> HIDE DEF Done
    <3> QED BY <1>1, <1>2, <1>5, <1>6 DEF PeerOK, AwayOK
  <2> QED BY <1>7, <2>1, <2>2, <2>3 DEF PeerOK
<1>9. Onward
  BY <1>1 DEF Onward
<1> QED BY <1>2, <1>3, <1>8, <1>9, OthersVm DEF Carried

LEMMA VmStopsCarries ==
    ASSUME DebugMirrorAssumption, DebugInv, NEW p \in Peers, VmStops(p) \/ VmEnds(p) PROVE Carried(p)
<1>1. UNCHANGED <<toVm, active, paused, inner, doc, net, contested, cut>> /\ vm[p].run \in Going
  BY DEF VmStops, VmEnds, ui
<1>2. PeerOK(p) /\ VmTypes /\ ClaimInv /\ SelfInv /\ toPage[p] \in Seq(Events)
  BY DEF DebugInv, DebugTypes, VmTypes
<1>3. ClaimInv' /\ SelfInv' /\ Mark(p)' = Mark(p) /\ \A q \in Peers : Mark(q)' = Mark(q)
  BY <1>1, <1>2, Unsaid
<1>4. \E n, run : /\ toPage'[p] = Append(toPage[p], [op |-> n]) /\ vm'[p].run = run
                  /\ <<n, run>> \in {<<"stopped", "paused">>, <<"exited", "none">>, <<"crashed", "crashed">>}
  <2>1. CASE VmStops(p)
    <3>1. toPage'[p] = Append(toPage[p], [op |-> "stopped"]) /\ vm'[p].run = "paused"
      BY <1>2, <2>1 DEF VmStops, Tell, VmTypes
    <3> QED BY <3>1
  <2>2. CASE vm' = [vm EXCEPT ![p].run = "none"] /\ Tell(p, [op |-> "exited"])
    <3>1. toPage'[p] = Append(toPage[p], [op |-> "exited"]) /\ vm'[p].run = "none"
      BY <1>2, <2>2 DEF Tell, VmTypes
    <3> QED BY <3>1
  <2>3. CASE vm' = [vm EXCEPT ![p].run = "crashed"] /\ Tell(p, [op |-> "crashed"])
    <3>1. toPage'[p] = Append(toPage[p], [op |-> "crashed"]) /\ vm'[p].run = "crashed"
      BY <1>2, <2>3 DEF Tell, VmTypes
    <3> QED BY <3>1
  <2> QED BY <2>1, <2>2, <2>3 DEF VmEnds
<1>5. PICK n, run : /\ toPage'[p] = Append(toPage[p], [op |-> n]) /\ vm'[p].run = run
                    /\ <<n, run>> \in {<<"stopped", "paused">>, <<"exited", "none">>, <<"crashed", "crashed">>}
  BY <1>4
<1> DEFINE m == [op |-> n]  s == toPage[p]
<1>6. m.op = n /\ n \in {"stopped", "exited", "crashed"} /\ (run # "none" => n \in Tells(run))
  BY <1>5 DEF Tells, Going
<1> HIDE DEF m
<1>7. ShownOK(p)'
  BY <1>1, <1>2, <1>5, <1>6, VmShows DEF PeerOK, m
<1>8. Ending(s, p) => Ending(toPage'[p], p)
  <2> HIDE DEF s
  <2>1. Ending(s, p) => Ending(Append(s, m), p)
    BY <1>2, AppendSays DEF s
  <2> QED BY <1>5, <2>1 DEF m, s
<1>9. PeerOK(p)'
  <2>1. InnerOK(p)' /\ DriveOK(p)'
    BY <1>1, <1>2, <1>3 DEF PeerOK, InnerOK, DriveOK
  <2>2. StopOK(p)'
    BY <1>1, <1>2, <1>3, <1>8 DEF PeerOK, StopOK
  <2>3. AwayOK(p)'
    BY <1>1, <1>2 DEF PeerOK, AwayOK, Going
  <2> QED BY <1>7, <2>1, <2>2, <2>3 DEF PeerOK
<1>10. Onward
  BY <1>1 DEF Onward
<1> QED BY <1>2, <1>3, <1>9, <1>10, OthersVm DEF Carried

-----------------------------------------------------------------------------
(* What the page does. *)

LEMMA OthersPage ==
    ASSUME VmTypes, UiTypes, NEW p \in Peers, Page(p)
    PROVE  \A q \in Peers \ {p} : Alone(q)
<1>1. UNCHANGED vm
  BY DEF Page, Launched, Refused, Resumed, Stepped, Paused, Framed, Snapshot, Exited, Unwound, Crashed, Terminated
<1>2. \A q \in Peers \ {p} : active'[q] = active[q]
  BY DEF Page, Launched, Refused, Resumed, Stepped, Paused, Framed, Snapshot, Exited, Unwound, Crashed, Terminated, ui, UiTypes
<1>3. \A q \in Peers \ {p} : paused'[q] = paused[q]
  BY DEF Page, Launched, Refused, Resumed, Stepped, Paused, Framed, Snapshot, Exited, Unwound, Crashed, Terminated, ui, UiTypes
<1>4. \A q \in Peers \ {p} : inner'[q] = inner[q]
  BY DEF Page, Launched, Refused, Resumed, Stepped, Paused, Framed, Snapshot, Exited, Unwound, Crashed, Terminated, ui, UiTypes
<1>5. \A q \in Peers \ {p} : toVm'[q] = toVm[q]
  BY DEF Page, Launched, Refused, Resumed, Stepped, Paused, Framed, Snapshot, Exited, Unwound, Crashed, Terminated, Post, VmTypes
<1>6. \A q \in Peers \ {p} : toPage'[q] = toPage[q]
  BY DEF Page, Launched, Refused, Resumed, Stepped, Paused, Framed, Snapshot, Exited, Unwound, Crashed, Terminated, Taken, VmTypes
<1> QED BY <1>1, <1>2, <1>3, <1>4, <1>5, <1>6 DEF Alone

\* What p publishes besides its role, and the answer that goes with it.
LEMMA Published ==
    ASSUME DebugMirrorAssumption, DebugInv, NEW p \in Peers, NEW by, NEW op \in Control \cup {"enter", "terminate"},
           NEW d, \/ d = doc[p] \/ d = Broadcast(p, [paused |-> FALSE])
                  \/ \E n \in Stops : d = Broadcast(p, [paused |-> TRUE, frames |-> n]),
           PublishMap(p, d, Reply(p, by, op))
    PROVE  ClaimInv' /\ SelfInv' /\ \A q \in Peers : Mark(q)' = Mark(q)
<1>1. ClaimInv /\ SelfInv /\ DocTypes
  BY DEF DebugInv, DebugTypes
<1>2. d["initiator"] = Mark(p)
  <2>1. /\ Broadcast(p, [paused |-> FALSE])["initiator"] = Mark(p)
        /\ \A n : Broadcast(p, [paused |-> TRUE, frames |-> n])["initiator"] = Mark(p)
    BY <1>1, RoleWritten, Zenon
  <2>2. doc[p]["initiator"] = Mark(p)
    BY DEF Mark
  <2> QED BY <2>1, <2>2
<1>3. d \in Replicas
  BY <1>1, BroadcastIs, ReplicaIs
<1>4. Reply(p, by, op) \in [Peers -> Seq(Messages)]
  <2>1. op \in Requests \cup {"error"}
    BY DEF Requests
  <2> QED BY <2>1, AnswerIs
<1>5. ClaimInv' /\ SelfInv' /\ Mark(p)' = d["initiator"] /\ \A x \in Peers \ {p} : Mark(x)' = Mark(x)
  <2> DEFINE answer == Reply(p, by, op)
  <2>1. answer[p] = <<>> /\ \A x \in Peers : \A i \in DOMAIN answer[x] : ~IsClaim(answer[x][i])
    BY AnswersClaimNothing
  <2>2. answer \in [Peers -> Seq(Messages)] /\ PublishMap(p, d, answer)
    BY <1>4
  <2> HIDE DEF answer
  <2> QED BY <1>1, <1>2, <1>3, <2>1, <2>2, ClaimsPublished
<1> QED BY <1>2, <1>5

\* A page that keeps its adapter and what it knows of the role.
LEMMA PageKeeps ==
    ASSUME VmTypes, NEW p \in Peers, PeerOK(p), toPage[p] # <<>>, Taken(p), UNCHANGED <<vm, contested>>, Onward,
           Mark(p)' = Mark(p), inner'[p] = inner[p],
           toVm'[p] = toVm[p] \/ \E m : m.op # "launch" /\ toVm'[p] = Append(toVm[p], m),
           ~(Head(toPage[p]).op = "terminate" /\ Head(toPage[p]).by = p),
           active'[p] => active[p],
           active[p] => active'[p] \/ cut' \/ Mark(p).val # p,
           /\ vm[p].run # "none" /\ ~contested /\ Head(toPage[p]).op \in Tells(vm[p].run)
           => (active'[p] => (paused'[p] <=> vm[p].run \notin Going)),
           Head(toPage[p]).op \notin Status => active'[p] = active[p] /\ paused'[p] = paused[p]
    PROVE  PeerOK(p)'
<1>1. /\ AwayOK(p)'
      /\ Ending(toVm[p], p) => Ending(toVm'[p], p)
      /\ Ending(toPage[p], p) => Ending(toPage'[p], p)
  BY PageTakes
<1>2. ShownOK(p)'
  BY PageShows
<1>3. InnerOK(p)' /\ DriveOK(p)'
  BY DEF PeerOK, InnerOK, DriveOK
<1>4. StopOK(p)'
  BY <1>1 DEF PeerOK, StopOK, Onward
<1> QED BY <1>1, <1>2, <1>3, <1>4 DEF PeerOK

\* What p may know of its own role.
LEMMA Unheard ==
    ASSUME DebugInv, NEW p \in Peers
    PROVE  /\ PeerOK(p) /\ DebugTypes /\ VmTypes /\ UiTypes /\ DocTypes /\ ClaimInv /\ SelfInv
           /\ inner[p] \in {"local", "remote"} /\ (inner[p] # "local" => Mark(p).val # p)
           /\ inner[p] # "local" /\ ~contested => vm[p].run = "none"
           /\ active[p] \in BOOLEAN /\ paused[p] \in BOOLEAN /\ Initiator(p) = Mark(p).val
<1>1. PeerOK(p) /\ DebugTypes /\ VmTypes /\ UiTypes /\ DocTypes /\ ClaimInv /\ SelfInv
  BY DEF DebugInv, DebugTypes
<1>2. inner[p] \in {"local", "remote"} /\ active[p] \in BOOLEAN /\ paused[p] \in BOOLEAN
  BY <1>1 DEF UiTypes
<1> QED BY <1>1, <1>2 DEF PeerOK, InnerOK, AwayOK, Initiator, Says, Mark

LEMMA LaunchedCarries ==
    ASSUME DebugMirrorAssumption, DebugInv, NEW p \in Peers, Launched(p) PROVE Carried(p)
<1>0. PeerOK(p) /\ DebugTypes /\ VmTypes /\ UiTypes /\ DocTypes /\ ClaimInv /\ SelfInv
  BY Unheard
<1>1. /\ UNCHANGED <<vm, contested, cut>> /\ toPage[p] # <<>> /\ Head(toPage[p]).op = "launched" /\ Taken(p)
      /\ PublishMap(p, Set(p, [initiator |-> p, paused |-> TRUE]), Nothing) /\ Post(p, "enter", p)
  BY DEF Launched, Takes
<1>2. active'[p] = TRUE /\ paused'[p] = TRUE /\ inner'[p] = "local"
  BY <1>0 DEF Launched, UiTypes
<1> DEFINE d == Set(p, [initiator |-> p, paused |-> TRUE])  e == d["initiator"]
<1>3. d \in Replicas /\ Writes(p, e) /\ e.val = p
  BY <1>0, BroadcastIs, RoleWritten
<1>4. e \in Claims
  BY <1>3, ReplicaIs DEF Claims, Keys
<1>5. ClaimInv' /\ SelfInv' /\ Mark(p)' = e /\ \A x \in Peers \ {p} : Mark(x)' = Mark(x)
  <2> HIDE DEF d
  <2>1. PublishMap(p, d, Nothing)
    BY <1>1 DEF d
  <2>2. Nothing[p] = <<>> /\ \A x \in Peers : \A i \in DOMAIN Nothing[x] : ~IsClaim(Nothing[x][i])
    BY AnswersClaimNothing
  <2>3. Nothing \in [Peers -> Seq(Messages)]
    BY AnswerIs
  <2> QED BY <1>0, <1>3, <2>1, <2>2, <2>3, ClaimsPublished
<1>6. Signed(e, p)
  <2> HIDE DEF e
  <2> QED BY <1>0, <1>3, <1>4, WritesIs
<1>7. ShownOK(p)'
  <2>1. "launched" \in Status /\ (vm[p].run \in Going => "launched" \notin Tells(vm[p].run))
    BY DEF Status, Tells
  <2> QED BY <1>0, <1>1, <1>2, <2>1, PageShows
<1>8. PeerOK(p)'
  <2>1. InnerOK(p)' /\ DriveOK(p)' /\ StopOK(p)' /\ AwayOK(p)'
    BY <1>2, <1>3, <1>5, <1>6 DEF InnerOK, DriveOK, StopOK, AwayOK
  <2> QED BY <1>7, <2>1 DEF PeerOK
<1>9. Page(p)
  BY DEF Page
<1> QED BY <1>0, <1>1, <1>5, <1>8, <1>9, OthersPage DEF Carried, Onward

LEMMA RefusedCarries ==
    ASSUME DebugMirrorAssumption, DebugInv, NEW p \in Peers, Refused(p) \/ Crashed(p) \/ Unwound(p) PROVE Carried(p)
<1>0. /\ PeerOK(p) /\ DebugTypes /\ VmTypes /\ UiTypes /\ DocTypes /\ ClaimInv /\ SelfInv
      /\ inner[p] \in {"local", "remote"} /\ (inner[p] # "local" => Mark(p).val # p)
      /\ inner[p] # "local" /\ ~contested => vm[p].run = "none"
      /\ active[p] \in BOOLEAN /\ paused[p] \in BOOLEAN /\ Initiator(p) = Mark(p).val
  BY Unheard
<1>1. /\ UNCHANGED <<vm, toVm, inner, doc, net, contested>> /\ toPage[p] # <<>> /\ Taken(p)
      /\ cut => cut'
  <2>1. CASE Refused(p)
    BY <2>1 DEF Refused, Takes
  <2>2. CASE Crashed(p)
    BY <2>2 DEF Crashed, Takes
  <2>3. CASE Unwound(p)
    BY <2>3 DEF Unwound, Takes
  <2> QED BY <2>1, <2>2, <2>3
<1>2. ClaimInv' /\ SelfInv' /\ Mark(p)' = Mark(p) /\ \A q \in Peers : Mark(q)' = Mark(q)
  BY <1>0, <1>1, Unsaid
<1> DEFINE op == Head(toPage[p]).op
<1>3. /\ op # "terminate" /\ (active'[p] => active[p])
      /\ active[p] => active'[p] \/ cut' \/ Mark(p).val # p
      /\ vm[p].run # "none" /\ ~contested /\ op \in Tells(vm[p].run)
           => (active'[p] => (paused'[p] <=> vm[p].run \notin Going))
      /\ op \notin Status => active'[p] = active[p] /\ paused'[p] = paused[p]
  <2>1. CASE Refused(p)
    <3>1. op = "refused" /\ active' = active /\ paused' = paused
      BY <2>1 DEF Refused, Takes
    <3> HIDE DEF op
    <3> QED BY <3>1 DEF Tells
  <2>2. CASE Crashed(p)
    <3>1. op = "crashed" /\ active' = active /\ paused'[p] = (paused[p] \/ inner[p] = "local")
      BY <1>0, <2>2 DEF Crashed, Takes, UiTypes
    <3> HIDE DEF op
    <3> QED BY <1>0, <3>1 DEF Tells, Status
  <2>3. CASE Unwound(p)
    <3>1. /\ op = "unwound" /\ active'[p] = (active[p] /\ inner[p] # "local")
          /\ inner[p] = "local" /\ Initiator(p) = p => cut'
      BY <1>0, <2>3 DEF Unwound, Takes, UiTypes
    <3> HIDE DEF op
    <3> QED BY <1>0, <3>1 DEF Tells, Status
  <2> QED BY <2>1, <2>2, <2>3
<1>4. Onward
  BY <1>1 DEF Onward
<1>5. PeerOK(p)'
  BY <1>0, <1>1, <1>2, <1>3, <1>4, PageKeeps
<1>6. Page(p)
  BY DEF Page
<1> QED BY <1>0, <1>2, <1>4, <1>5, <1>6, OthersPage DEF Carried

\* A call taken by the page is one it has posted.
LEMMA ReturnedIs ==
    ASSUME VmTypes, NEW p \in Peers, toPage[p] # <<>>
    PROVE  LET r == Head(toPage[p]) IN
           /\ r \in Events
           /\ r.op = "scopes" => r.at \in Stops
<1>1. Head(toPage[p]) \in Events
  <2>1. toPage[p] \in Seq(Events)
    BY DEF VmTypes
  <2> QED BY <2>1
<1> QED BY <1>1, EventIs

LEMMA ResumedCarries ==
    ASSUME DebugMirrorAssumption, DebugInv, NEW p \in Peers, Resumed(p) \/ Stepped(p) PROVE Carried(p)
<1>0. /\ PeerOK(p) /\ DebugTypes /\ VmTypes /\ UiTypes /\ DocTypes /\ ClaimInv /\ SelfInv
  BY Unheard
<1> DEFINE r == Head(toPage[p])  op == r.op
<1>1. /\ UNCHANGED <<vm, toVm, active, inner, contested, cut>> /\ toPage[p] # <<>> /\ Taken(p)
      /\ op \in {"continue", "enter", "step"} /\ paused' = [paused EXCEPT ![p] = FALSE]
      /\ \E d : PublishMap(p, d, Reply(p, r.by, op)) /\ (d = doc[p] \/ d = Broadcast(p, [paused |-> FALSE]))
  <2>1. CASE Resumed(p)
    BY <2>1 DEF Resumed, Takes
  <2>2. CASE Stepped(p)
    BY <2>2 DEF Stepped, Takes
  <2> QED BY <2>1, <2>2
<1>2. ClaimInv' /\ SelfInv' /\ \A q \in Peers : Mark(q)' = Mark(q)
  <2> HIDE DEF r
  <2>1. op \in Control \cup {"enter", "terminate"}
    BY <1>1 DEF Control
  <2> QED BY <1>1, <2>1, Published
<1>3. paused'[p] = FALSE
  BY <1>0, <1>1 DEF UiTypes
<1>4. Onward
  BY <1>1 DEF Onward
<1>5. /\ op \notin {"terminate", "launch"} /\ op \in Status
      /\ op \in Tells(vm[p].run) => vm[p].run \in Going
  BY <1>1 DEF Tells, Status
<1>6. PeerOK(p)'
  BY <1>0, <1>1, <1>2, <1>3, <1>4, <1>5, PageKeeps
<1>7. Page(p)
  BY DEF Page
<1> QED BY <1>0, <1>2, <1>4, <1>6, <1>7, OthersPage DEF Carried

LEMMA PausedCarries ==
    ASSUME DebugMirrorAssumption, DebugInv, NEW p \in Peers, Paused(p) PROVE Carried(p)
<1>0. /\ PeerOK(p) /\ DebugTypes /\ VmTypes /\ UiTypes /\ DocTypes /\ ClaimInv /\ SelfInv
      /\ inner[p] \in {"local", "remote"}
      /\ inner[p] # "local" /\ ~contested => vm[p].run = "none"
  BY Unheard
<1> DEFINE r == Head(toPage[p])  op == r.op  by == IF op = "stopped" THEN p ELSE r.by
<1>1. /\ UNCHANGED <<vm, active, inner, contested, cut>> /\ toPage[p] # <<>> /\ Taken(p)
      /\ op \in {"pause", "stopped"}
      /\ paused' = [paused EXCEPT ![p] = @ \/ (op = "stopped" => inner[p] = "local")]
      /\ IF inner[p] = "local"
         THEN Post(p, "frames", by) /\ UNCHANGED <<doc, net>>
         ELSE UNCHANGED toVm /\ PublishMap(p, doc[p], Reply(p, by, "pause"))
  BY DEF Paused, Takes
<1>2. ClaimInv' /\ SelfInv' /\ \A q \in Peers : Mark(q)' = Mark(q)
  <2>1. CASE inner[p] = "local"
    BY <1>0, <1>1, <2>1, Unsaid
  <2>2. CASE inner[p] # "local"
    <3> HIDE DEF by
    <3>1. "pause" \in Control \cup {"enter", "terminate"}
      BY DEF Control
    <3> QED BY <1>1, <2>2, <3>1, Published
  <2> QED BY <2>1, <2>2
<1>3. toVm'[p] = toVm[p] \/ \E m : m.op # "launch" /\ toVm'[p] = Append(toVm[p], m)
  <2> DEFINE m == [op |-> "frames", by |-> by]
  <2>1. Post(p, "frames", by) => toVm'[p] = Append(toVm[p], m)
    BY <1>0 DEF Post, VmTypes
  <2>2. m.op # "launch"
    OBVIOUS
  <2> HIDE DEF m
  <2> QED BY <1>1, <2>1, <2>2
<1>4. Onward
  BY <1>1 DEF Onward
<1>5. paused'[p] = (paused[p] \/ (op = "stopped" => inner[p] = "local"))
  BY <1>0, <1>1 DEF UiTypes
<1>6. /\ op # "terminate" /\ op \in Status
      /\ op \in Tells(vm[p].run) => vm[p].run \notin Going
  BY <1>1 DEF Tells, Status
<1>7. vm[p].run # "none" /\ ~contested /\ op \in Tells(vm[p].run) => (active'[p] => (paused'[p] <=> vm[p].run \notin Going))
  BY <1>0, <1>5, <1>6
<1>8. PeerOK(p)'
  <2> HIDE DEF by
  <2> QED BY <1>0, <1>1, <1>2, <1>3, <1>4, <1>6, <1>7, PageKeeps
<1>9. Page(p)
  BY DEF Page
<1> QED BY <1>0, <1>2, <1>4, <1>8, <1>9, OthersPage DEF Carried

LEMMA FramedCarries ==
    ASSUME DebugMirrorAssumption, DebugInv, NEW p \in Peers, Framed(p) \/ Snapshot(p) PROVE Carried(p)
<1>0. /\ PeerOK(p) /\ DebugTypes /\ VmTypes /\ UiTypes /\ DocTypes /\ ClaimInv /\ SelfInv
  BY Unheard
<1> DEFINE r == Head(toPage[p])  op == r.op  m == [op |-> "scopes", by |-> r.by, at |-> r.at]
<1>1. /\ UNCHANGED <<vm, active, paused, inner, contested, cut>> /\ toPage[p] # <<>> /\ Taken(p)
      /\ op \in {"frames", "scopes"}
      /\ \/ toVm' = [toVm EXCEPT ![p] = Append(@, m)] /\ UNCHANGED <<doc, net>>
         \/ /\ UNCHANGED toVm
            /\ \E d : /\ PublishMap(p, d, Reply(p, r.by, "pause"))
                      /\ d = doc[p] \/ (op = "scopes" /\ d = Broadcast(p, [paused |-> TRUE, frames |-> r.at]))
  <2>1. CASE Framed(p)
    BY <2>1 DEF Framed, Takes, ui
  <2>2. CASE Snapshot(p)
    BY <2>2 DEF Snapshot, Takes, ui
  <2> QED BY <2>1, <2>2
<1>2. ClaimInv' /\ SelfInv' /\ \A q \in Peers : Mark(q)' = Mark(q)
  <2>1. CASE UNCHANGED <<doc, net>>
    BY <1>0, <2>1, Unsaid
  <2>2. ASSUME NEW d, PublishMap(p, d, Reply(p, r.by, "pause")),
               d = doc[p] \/ (op = "scopes" /\ d = Broadcast(p, [paused |-> TRUE, frames |-> r.at]))
        PROVE  ClaimInv' /\ SelfInv' /\ \A q \in Peers : Mark(q)' = Mark(q)
    <3>1. "pause" \in Control \cup {"enter", "terminate"} /\ (op = "scopes" => r.at \in Stops)
      BY <1>0, <1>1, ReturnedIs DEF Control
    <3> HIDE DEF r, op
    <3>2. d = doc[p] \/ \E n \in Stops : d = Broadcast(p, [paused |-> TRUE, frames |-> n])
      BY <2>2, <3>1
    <3> QED BY <2>2, <3>1, <3>2, Published
  <2> QED BY <1>1, <2>1, <2>2
<1>3. toVm'[p] = toVm[p] \/ \E n : n.op # "launch" /\ toVm'[p] = Append(toVm[p], n)
  <2>1. toVm' = [toVm EXCEPT ![p] = Append(@, m)] => toVm'[p] = Append(toVm[p], m)
    BY <1>0 DEF VmTypes
  <2>2. m.op # "launch"
    OBVIOUS
  <2> HIDE DEF m
  <2> QED BY <1>1, <2>1, <2>2
<1>4. Onward
  BY <1>1 DEF Onward
<1>5. op # "terminate" /\ op \notin Status /\ op \notin Tells(vm[p].run)
  BY <1>1 DEF Tells, Status
<1>6. PeerOK(p)'
  BY <1>0, <1>1, <1>2, <1>3, <1>4, <1>5, PageKeeps
<1>7. Page(p)
  BY DEF Page
<1> QED BY <1>0, <1>2, <1>4, <1>6, <1>7, OthersPage DEF Carried

\* The map cleared, or left as it is.
LEMMA ClearedCarries ==
    ASSUME DebugMirrorAssumption, DebugInv, NEW p \in Peers, PublishMap(p, Cleared(p), Nothing)
    PROVE  /\ ClaimInv' /\ SelfInv' /\ Mark(p)'.path = Mark(p).path
           /\ Mark(p)'.val = IF Mark(p).val = p THEN NoOne ELSE Mark(p).val
           /\ \A q \in Peers \ {p} : Mark(q)' = Mark(q)
<1>1. DocTypes /\ ClaimInv /\ SelfInv
  BY Unheard
<1> DEFINE d == Cleared(p)
<1>2. /\ d \in Replicas /\ (d["initiator"] = Mark(p) \/ Writes(p, d["initiator"]))
      /\ d["initiator"].path = Mark(p).path
      /\ d["initiator"].val = IF Mark(p).val = p THEN NoOne ELSE Mark(p).val
  BY <1>1, ClearedIs, RoleWritten
<1>3. Nothing[p] = <<>> /\ \A x \in Peers : \A i \in DOMAIN Nothing[x] : ~IsClaim(Nothing[x][i])
  BY AnswersClaimNothing
<1>4. Nothing \in [Peers -> Seq(Messages)]
  BY AnswerIs
<1> HIDE DEF d
<1>5. ClaimInv' /\ SelfInv' /\ Mark(p)' = d["initiator"] /\ \A x \in Peers \ {p} : Mark(x)' = Mark(x)
  BY <1>1, <1>2, <1>3, <1>4, ClaimsPublished DEF d
<1> QED BY <1>2, <1>5

LEMMA LeftCarries ==
    ASSUME DebugMirrorAssumption, DebugInv, NEW p \in Peers, PublishMap(p, doc[p], Nothing)
    PROVE  ClaimInv' /\ SelfInv' /\ \A q \in Peers : Mark(q)' = Mark(q)
<1>1. DocTypes /\ ClaimInv /\ SelfInv /\ doc[p] \in Replicas /\ doc[p]["initiator"] = Mark(p)
  BY Unheard, BroadcastIs DEF Mark
<1>2. Nothing[p] = <<>> /\ \A x \in Peers : \A i \in DOMAIN Nothing[x] : ~IsClaim(Nothing[x][i])
  BY AnswersClaimNothing
<1>3. Nothing \in [Peers -> Seq(Messages)]
  BY AnswerIs
<1>4. ClaimInv' /\ SelfInv' /\ Mark(p)' = doc[p]["initiator"] /\ \A x \in Peers \ {p} : Mark(x)' = Mark(x)
  BY <1>1, <1>2, <1>3, ClaimsPublished
<1> QED BY <1>1, <1>4

LEMMA ExitedCarries ==
    ASSUME DebugMirrorAssumption, DebugInv, NEW p \in Peers, Exited(p) PROVE Carried(p)
<1>0. /\ PeerOK(p) /\ DebugTypes /\ VmTypes /\ UiTypes /\ DocTypes /\ ClaimInv /\ SelfInv
      /\ inner[p] \in {"local", "remote"} /\ (inner[p] # "local" => Mark(p).val # p)
      /\ inner[p] # "local" /\ ~contested => vm[p].run = "none"
      /\ active[p] \in BOOLEAN /\ paused[p] \in BOOLEAN
  BY Unheard
<1>1. /\ UNCHANGED <<vm, toVm, inner, contested, cut>> /\ toPage[p] # <<>> /\ Taken(p)
      /\ Head(toPage[p]).op = "exited"
      /\ active'[p] = (active[p] /\ inner[p] # "local")
      /\ PublishMap(p, IF inner[p] = "local" THEN Cleared(p) ELSE doc[p], Nothing)
  BY <1>0 DEF Exited, Takes, UiTypes
<1>2. Onward
  BY <1>1 DEF Onward
<1>3. "exited" \in Status /\ "exited" \notin Tells(vm[p].run) /\ "exited" # "terminate"
  BY DEF Status, Tells
<1>4. ClaimInv' /\ SelfInv' /\ (\A q \in Peers \ {p} : Mark(q)' = Mark(q)) /\ PeerOK(p)'
  <2>1. CASE inner[p] = "local"
    <3>1. /\ ClaimInv' /\ SelfInv'
          /\ Mark(p)'.val = IF Mark(p).val = p THEN NoOne ELSE Mark(p).val
          /\ \A q \in Peers \ {p} : Mark(q)' = Mark(q)
      BY <1>1, <2>1, ClearedCarries
    <3>2. ShownOK(p)'
      BY <1>0, <1>1, <1>3, PageShows
    <3>3. InnerOK(p)' /\ DriveOK(p)' /\ StopOK(p)' /\ AwayOK(p)'
      <4>1. p # NoOne
        BY DEF DebugMirrorAssumption
      <4> QED BY <1>0, <1>1, <2>1, <3>1, <4>1 DEF PeerOK, InnerOK, DriveOK, StopOK, AwayOK
    <3> QED BY <3>1, <3>2, <3>3 DEF PeerOK
  <2>2. CASE inner[p] # "local"
    <3>1. ClaimInv' /\ SelfInv' /\ \A q \in Peers : Mark(q)' = Mark(q)
      BY <1>1, <2>2, LeftCarries
    <3>2. PeerOK(p)'
      BY <1>0, <1>1, <1>2, <1>3, <2>2, <3>1, PageKeeps
    <3> QED BY <3>1, <3>2
  <2> QED BY <2>1, <2>2
<1>5. Page(p)
  BY DEF Page
<1> QED BY <1>0, <1>2, <1>4, <1>5, OthersPage DEF Carried

LEMMA TerminatedCarries ==
    ASSUME DebugMirrorAssumption, DebugInv, NEW p \in Peers, Terminated(p) PROVE Carried(p)
<1>0. /\ PeerOK(p) /\ DebugTypes /\ VmTypes /\ UiTypes /\ DocTypes /\ ClaimInv /\ SelfInv
  BY Unheard
<1> DEFINE r == Head(toPage[p])
<1>1. /\ UNCHANGED <<vm, active, paused, inner, contested, cut>> /\ toPage[p] # <<>> /\ Taken(p)
      /\ r.op = "terminate"
      /\ IF r.by = p
         THEN PublishMap(p, Cleared(p), Nothing) /\ Post(p, "halt", p)
         ELSE PublishMap(p, doc[p], Reply(p, r.by, "terminate")) /\ UNCHANGED toVm
  BY DEF Terminated, Takes, ui
<1>2. Onward
  BY <1>1 DEF Onward
<1>3. "terminate" \notin Status /\ "terminate" \notin Tells(vm[p].run)
  BY DEF Status, Tells
<1>4. toVm'[p] = toVm[p] \/ \E n : n.op # "launch" /\ toVm'[p] = Append(toVm[p], n)
  <2> DEFINE m == [op |-> "halt", by |-> p]
  <2>1. Post(p, "halt", p) => toVm'[p] = Append(toVm[p], m)
    BY <1>0 DEF Post, VmTypes
  <2>2. m.op # "launch"
    OBVIOUS
  <2> HIDE DEF m, r
  <2> QED BY <1>1, <2>1, <2>2
<1>5. ClaimInv' /\ SelfInv' /\ (\A q \in Peers \ {p} : Mark(q)' = Mark(q)) /\ PeerOK(p)'
  <2>1. CASE r.by = p
    <3>1. /\ ClaimInv' /\ SelfInv' /\ Mark(p)'.path = Mark(p).path
          /\ Mark(p)'.val = IF Mark(p).val = p THEN NoOne ELSE Mark(p).val
          /\ \A q \in Peers \ {p} : Mark(q)' = Mark(q)
      BY <1>1, <2>1, ClearedCarries
    <3>2. ShownOK(p)'
      BY <1>0, <1>1, <1>3, PageShows
    <3>3. AwayOK(p)'
      BY <1>0, <1>1, <1>4, PageTakes
    <3>4. InnerOK(p)' /\ DriveOK(p)' /\ StopOK(p)'
      <4>1. p # NoOne
        BY DEF DebugMirrorAssumption
      <4> QED BY <1>0, <1>1, <3>1, <4>1 DEF PeerOK, InnerOK, DriveOK, StopOK, Signed
    <3> QED BY <3>1, <3>2, <3>3, <3>4 DEF PeerOK
  <2>2. CASE r.by # p
    <3>1. ClaimInv' /\ SelfInv' /\ \A q \in Peers : Mark(q)' = Mark(q)
      <4>1. "terminate" \in Control \cup {"enter", "terminate"}
        OBVIOUS
      <4>2. PublishMap(p, doc[p], Reply(p, r.by, "terminate"))
        BY <1>1, <2>2
      <4> HIDE DEF r
      <4> QED BY <4>1, <4>2, Published
    <3>2. PeerOK(p)'
      BY <1>0, <1>1, <1>2, <1>3, <1>4, <2>2, <3>1, PageKeeps
    <3> QED BY <3>1, <3>2
  <2> QED BY <2>1, <2>2
<1>6. Page(p)
  BY DEF Page
<1> QED BY <1>0, <1>2, <1>5, <1>6, OthersPage DEF Carried

-----------------------------------------------------------------------------
(* What the peers say to each other. *)

LEMMA OthersMeet ==
    ASSUME VmTypes, UiTypes, NEW p \in Peers, NEW q \in Peers, Meets(p, q)
    PROVE  \A x \in Peers \ {p} : Alone(x)
<1>1. UNCHANGED <<vm, toPage>>
  BY DEF Meets, Learn, Serve, Answered, vmvars
<1>2. \A x \in Peers \ {p} : active'[x] = active[x]
  BY DEF Meets, Learn, Serve, Answered, ui, UiTypes, Swap
<1>3. \A x \in Peers \ {p} : paused'[x] = paused[x]
  BY DEF Meets, Learn, Serve, Answered, ui, UiTypes, Swap
<1>4. \A x \in Peers \ {p} : inner'[x] = inner[x]
  BY DEF Meets, Learn, Serve, Answered, ui, UiTypes, Swap
<1>5. \A x \in Peers \ {p} : toVm'[x] = toVm[x]
  BY DEF Meets, Learn, Serve, Answered, Post, VmTypes, vmvars
<1> QED BY <1>1, <1>2, <1>3, <1>4, <1>5 DEF Alone

\* What comes, comes from somebody else.
LEMMA FromAnother ==
    ASSUME DebugInv, NEW p \in Peers, NEW q \in Peers, net[q][p] # <<>>
    PROVE  /\ q # p /\ net[q][p] \in Seq(Messages) /\ Head(net[q][p]) \in Messages
           /\ 1 \in DOMAIN net[q][p] /\ net[q][p][1] = Head(net[q][p])
<1>1. net[q][p] \in Seq(Messages)
  BY DEF DebugInv, DebugTypes, DocTypes
<1>2. 1 \in DOMAIN net[q][p] /\ net[q][p][1] = Head(net[q][p]) /\ Head(net[q][p]) \in Messages
  BY <1>1
<1> QED BY <1>1, <1>2 DEF DebugInv, SelfInv

\* An observer's command is served, or refused.
LEMMA ServeCarries ==
    ASSUME DebugMirrorAssumption, DebugInv, NEW p \in Peers, NEW q \in Peers, Serve(p, q) PROVE Carried(p)
<1>0. /\ PeerOK(p) /\ DebugTypes /\ VmTypes /\ UiTypes /\ DocTypes /\ ClaimInv /\ SelfInv
      /\ Initiator(p) = Mark(p).val
  BY Unheard
<1> DEFINE s == net[q][p]  op == Head(s).op  m == [op |-> op, by |-> q]  e == [kind |-> "reply", op |-> "error"]
<1>1. /\ UNCHANGED <<vm, toPage, active, paused, inner, doc, contested, cut>>
      /\ s # <<>> /\ Head(s).kind = "rpc"
      /\ \/ /\ net' = [net EXCEPT ![q][p] = Tail(@)] /\ Post(p, op, q)
         \/ /\ UNCHANGED toVm
            /\ net' = [net EXCEPT ![q][p] = Tail(@), ![p][q] = Append(@, e)]
  BY DEF Serve, Arrives, Received, ui
<1>2. q # p /\ s \in Seq(Messages) /\ Head(s) \in Messages
  BY <1>1, FromAnother
<1>3. ~IsClaim(Head(s)) /\ ~IsClaim(e)
  BY <1>1 DEF IsClaim
<1>4. Same(s, Tail(s))
  <2> HIDE DEF s
  <2> QED BY <1>1, <1>2, <1>3, SameTail
<1>5. Same(net[p][q], Append(net[p][q], e))
  <2>1. net[p][q] \in Seq(Messages)
    BY <1>0 DEF DocTypes
  <2> HIDE DEF e
  <2> QED BY <1>3, <2>1, SameAppend
<1>6. /\ net'[q][p] = Tail(s)
      /\ net'[p][q] = net[p][q] \/ net'[p][q] = Append(net[p][q], e)
      /\ \A r, x \in Peers : <<r, x>> \notin {<<q, p>>, <<p, q>>} => net'[r][x] = net[r][x]
  <2>1. CASE net' = [net EXCEPT ![q][p] = Tail(@)]
    BY <1>0, <1>2, <2>1 DEF DocTypes
  <2>2. CASE net' = [net EXCEPT ![q][p] = Tail(@), ![p][q] = Append(@, e)]
    BY <1>0, <1>2, <2>2 DEF DocTypes
  <2> QED BY <1>1, <2>1, <2>2
<1>7. ClaimInv' /\ SelfInv' /\ \A x \in Peers : Mark(x)' = Mark(x)
  <2>1. \A r, x \in Peers : Same(net[r][x], net'[r][x])
    <3> HIDE DEF e
    <3> QED BY <1>4, <1>5, <1>6, SameRefl
  <2>2. SelfInv'
    BY <1>0, <1>2, <1>6 DEF SelfInv
  <2> QED BY <1>0, <1>1, <2>1, <2>2, MarksStay, ClaimsStay
<1>8. /\ Ending(toVm[p], p) => Ending(toVm'[p], p)
      /\ Lacks(toVm[p], {"launch"}) => Lacks(toVm'[p], {"launch"})
  <2>1. CASE toVm' = toVm
    BY <2>1
  <2>2. CASE Post(p, op, q)
    <3> DEFINE t == toVm[p]  L == {"launch"}
    <3>1. t \in Seq(Calls) /\ toVm'[p] = Append(t, m)
      BY <1>0, <2>2 DEF VmTypes, Post
    <3>2. m.op \notin L
      BY <1>1, <1>2, MessageIs DEF Control
    <3> HIDE DEF t, m, L
    <3>3. (Ending(t, p) => Ending(Append(t, m), p)) /\ (Lacks(t, L) => Lacks(Append(t, m), L))
      BY <3>1, <3>2, AppendSays
    <3> QED BY <3>1, <3>3 DEF t, L
  <2> QED BY <1>1, <2>1, <2>2
<1>9. PeerOK(p)'
  <2>1. InnerOK(p)' /\ DriveOK(p)'
    BY <1>0, <1>1, <1>7 DEF PeerOK, InnerOK, DriveOK
  <2>2. StopOK(p)'
    BY <1>0, <1>1, <1>7, <1>8 DEF PeerOK, StopOK
  <2>3. AwayOK(p)'
    BY <1>0, <1>1, <1>8 DEF PeerOK, AwayOK
  <2>4. ShownOK(p)'
    BY <1>0, <1>1 DEF PeerOK, ShownOK
  <2> QED BY <2>1, <2>2, <2>3, <2>4 DEF PeerOK
<1>10. Onward
  BY <1>1 DEF Onward
<1>11. Meets(p, q)
  BY DEF Meets
<1> QED BY <1>0, <1>7, <1>9, <1>10, <1>11, OthersMeet DEF Carried

\* The answer to an observer's command.
LEMMA AnsweredCarries ==
    ASSUME DebugMirrorAssumption, DebugInv, NEW p \in Peers, NEW q \in Peers, Answered(p, q) PROVE Carried(p)
<1>0. /\ PeerOK(p) /\ DebugTypes /\ VmTypes /\ UiTypes /\ DocTypes /\ ClaimInv /\ SelfInv
      /\ inner[p] \in {"local", "remote"}
  BY Unheard
<1> DEFINE s == net[q][p]  op == Head(s).op
           d == CASE op = "continue" -> Broadcast(p, [paused |-> FALSE])
                  [] op = "terminate" -> Cleared(p)
                  [] OTHER -> doc[p]
<1>1. /\ UNCHANGED <<vm, toPage, active, inner, cut>>
      /\ s # <<>> /\ Head(s).kind = "reply"
      /\ doc' = [doc EXCEPT ![p] = d]
      /\ net' = [net EXCEPT ![q][p] = Tail(@), ![p] = Sending(p, d, Nothing)]
      /\ \/ \E n \in {"frames", "halt"} : Post(p, n, p)
         \/ UNCHANGED toVm
      /\ contested' = (contested \/ (inner[p] = "local" /\ Own(p)))
  BY DEF Answered, Arrives
<1>2. q # p /\ s \in Seq(Messages) /\ Head(s) \in Messages
  BY <1>1, FromAnother
<1>3. ~IsClaim(Head(s))
  BY <1>1 DEF IsClaim
<1>4. Same(s, Tail(s))
  <2> HIDE DEF s
  <2> QED BY <1>1, <1>2, <1>3, SameTail
<1>5. /\ d \in Replicas /\ (d["initiator"] = Mark(p) \/ Writes(p, d["initiator"]))
      /\ d["initiator"].path = Mark(p).path
      /\ d["initiator"].val = Mark(p).val \/ (d["initiator"].val = NoOne /\ Mark(p).val = p)
  <2>1. CASE op = "continue"
    <3>1. d = Broadcast(p, [paused |-> FALSE])
      BY <2>1
    <3> HIDE DEF d
    <3> QED BY <1>0, <3>1, BroadcastIs, RoleWritten
  <2>2. CASE op = "terminate"
    <3>1. d = Cleared(p)
      BY <2>2
    <3> HIDE DEF d
    <3> QED BY <1>0, <3>1, ClearedIs, RoleWritten
  <2>3. CASE op \notin {"continue", "terminate"}
    <3>1. d = doc[p]
      BY <2>3
    <3> HIDE DEF d
    <3> QED BY <1>0, <3>1, BroadcastIs DEF Mark
  <2> QED BY <2>1, <2>2, <2>3
<1>6. /\ \A x \in Peers : net'[p][x] = Sending(p, d, Nothing)[x]
      /\ net'[q][p] = Tail(s)
      /\ \A r \in Peers \ {p} : \A x \in Peers : (r # q \/ x # p) => net'[r][x] = net[r][x]
  <2>1. Sending(p, d, Nothing) \in [Peers -> Seq(Messages)]
    BY <1>0, <1>5, AnswerIs, SendingIs
  <2> HIDE DEF d
  <2> QED BY <1>0, <1>1, <1>2, <2>1 DEF DocTypes
<1>7. /\ \A r \in Peers \ {p} : \A x \in Peers : Same(net[r][x], net'[r][x])
      /\ \A r \in Peers \ {p} : net'[r][r] = <<>>
  <2>1. \A r \in Peers \ {p} : \A x \in Peers : Same(net[r][x], net'[r][x])
    BY <1>4, <1>6, SameRefl
  <2>2. \A r \in Peers \ {p} : net'[r][r] = <<>>
    BY <1>0, <1>6 DEF SelfInv
  <2> QED BY <2>1, <2>2
<1>8. DocTypes'
  BY TypesMeet DEF DebugInv, DebugTypes, Meets
<1>9. ClaimInv' /\ SelfInv' /\ Mark(p)' = d["initiator"] /\ \A x \in Peers \ {p} : Mark(x)' = Mark(x)
  <2>1. Nothing[p] = <<>> /\ \A x \in Peers : \A i \in DOMAIN Nothing[x] : ~IsClaim(Nothing[x][i])
    BY AnswersClaimNothing
  <2>2. Nothing \in [Peers -> Seq(Messages)]
    BY AnswerIs
  <2> HIDE DEF d
  <2> QED BY <1>0, <1>1, <1>5, <1>6, <1>7, <1>8, <2>1, <2>2, ClaimsSent
<1>10. /\ Ending(toVm[p], p) => Ending(toVm'[p], p)
       /\ Lacks(toVm[p], {"launch"}) => Lacks(toVm'[p], {"launch"})
  <2>1. CASE toVm' = toVm
    BY <2>1
  <2>2. ASSUME NEW n \in {"frames", "halt"}, Post(p, n, p)
        PROVE  /\ Ending(toVm[p], p) => Ending(toVm'[p], p)
               /\ Lacks(toVm[p], {"launch"}) => Lacks(toVm'[p], {"launch"})
    <3> DEFINE t == toVm[p]  L == {"launch"}  m == [op |-> n, by |-> p]
    <3>1. t \in Seq(Calls) /\ toVm'[p] = Append(t, m)
      BY <1>0, <2>2 DEF VmTypes, Post
    <3>2. m.op \notin L
      OBVIOUS
    <3> HIDE DEF t, m, L
    <3>3. (Ending(t, p) => Ending(Append(t, m), p)) /\ (Lacks(t, L) => Lacks(Append(t, m), L))
      BY <3>1, <3>2, AppendSays
    <3> QED BY <3>1, <3>3 DEF t, L
  <2> HIDE DEF d
  <2> QED BY <1>1, <2>1, <2>2
<1>11. PeerOK(p)'
  <2> HIDE DEF d
  <2>1. InnerOK(p)' /\ DriveOK(p)'
    BY <1>0, <1>1, <1>5, <1>9 DEF PeerOK, InnerOK, DriveOK, Signed
  <2>2. StopOK(p)'
    <3>1. p # NoOne
      BY DEF DebugMirrorAssumption
    <3> QED BY <1>0, <1>1, <1>5, <1>9, <1>10, <3>1 DEF PeerOK, StopOK
  <2>3. AwayOK(p)'
    BY <1>0, <1>1, <1>10 DEF PeerOK, AwayOK
  <2>4. ShownOK(p)'
    BY <1>0, <1>1 DEF PeerOK, ShownOK, AwayOK, Own
  <2> QED BY <2>1, <2>2, <2>3, <2>4 DEF PeerOK
<1>12. Onward
  BY <1>1 DEF Onward
<1>13. Meets(p, q)
  BY DEF Meets
<1> QED BY <1>0, <1>9, <1>11, <1>12, <1>13, OthersMeet DEF Carried

\* What p knows of the role once it has taken a message of q.
LEMMA LearnIs ==
    ASSUME DebugMirrorAssumption, DebugInv, NEW p \in Peers, NEW q \in Peers, Learn(p, q)
    PROVE  /\ ClaimInv' /\ SelfInv' /\ \A x \in Peers \ {p} : Mark(x)' = Mark(x)
           /\ Mark(p)'.val = p => Mark(p).val = p
           /\ Mark(p)'.val = NoOne => Mark(p)'.path = Mark(p).path \/ ~Signed(Mark(p), p)
           /\ Swap(p, Merged(p, Head(net[q][p]).doc)) /\ Merged(p, Head(net[q][p]).doc)["initiator"] = Mark(p)'
<1>0. /\ DocTypes /\ ClaimInv /\ SelfInv
  BY Unheard
<1> DEFINE s == net[q][p]  m == Head(s)  d == Merged(p, m.doc)
<1>1. /\ s # <<>> /\ m.kind = "doc" /\ net' = [net EXCEPT ![q][p] = Tail(@)]
      /\ doc' = [doc EXCEPT ![p] = d] /\ Swap(p, d)
  BY DEF Learn, Arrives, Received, Merged
<1>2. /\ q # p /\ s \in Seq(Messages) /\ m \in Messages /\ 1 \in DOMAIN s /\ s[1] = m
  BY <1>1, FromAnother
<1>3. m.doc \in Patches
  BY <1>1, <1>2, MessageIs
<1>4. d["initiator"] = IF "initiator" \in DOMAIN m.doc THEN Joined("initiator", Mark(p), m.doc["initiator"]) ELSE Mark(p)
  <2> HIDE DEF m
  <2> QED BY <1>0, <1>3, MergedIs DEF Keys, Mark
<1>5. Mark(p)' = d["initiator"] /\ \A x \in Peers \ {p} : Mark(x)' = Mark(x)
  <2> HIDE DEF d
  <2> QED BY <1>0, <1>1 DEF Mark, DocTypes
<1>6. SelfInv'
  BY <1>0, <1>1, <1>2 DEF SelfInv, DocTypes
<1>7. DocTypes'
  BY TypesMeet DEF DebugInv, DebugTypes, Meets
<1>8. CASE ~IsClaim(m)
  <2>1. "initiator" \notin DOMAIN m.doc
    BY <1>1, <1>8 DEF IsClaim
  <2>2. Mark(p)' = Mark(p)
    BY <1>4, <1>5, <2>1
  <2>3. Same(s, Tail(s))
    <3> HIDE DEF s
    <3> QED BY <1>1, <1>2, <1>8, SameTail DEF m
  <2>4. net'[q][p] = Tail(s) /\ \A r, x \in Peers : (r # q \/ x # p) => net'[r][x] = net[r][x]
    BY <1>0, <1>1 DEF DocTypes
  <2>5. \A r, x \in Peers : Same(net[r][x], net'[r][x])
    BY <2>3, <2>4, SameRefl
  <2>6. ClaimInv'
    BY <1>0, <1>5, <2>2, <2>5, ClaimsStay
  <2> HIDE DEF d
  <2> QED BY <1>1, <1>5, <1>6, <2>2, <2>6 DEF d
<1>9. CASE IsClaim(m)
  <2> DEFINE e == Claimed(m)
  <2>1. Mark(p)' = Joined("initiator", Mark(p), e)
    BY <1>4, <1>5, <1>9 DEF IsClaim, Claimed
  <2>2. ClaimInv'
    BY <1>0, <1>1, <1>2, <1>5, <1>7, <1>9, <2>1, ClaimsLearn
  <2>3. e \in Claims /\ Signed(e, q) /\ e.val \in {NoOne, q} /\ Mark(p) \in Claims
    <3>1. MessageOK(m, q)
      BY <1>0, <1>2 DEF ClaimInv, MessageInv
    <3> QED BY <1>0, <1>2, <1>9, <3>1, ClaimIs DEF MessageOK
  <2>4. e.path \in Seq(Nat) /\ Mark(p).path \in Seq(Nat)
    BY <2>3, ClaimIs
  <2>5. Mark(p)' \in {Mark(p), e}
    BY <2>1, JoinedIs
  <2>6. Mark(p)'.val = p => Mark(p).val = p
    <3>1. p # NoOne
      BY DEF DebugMirrorAssumption
    <3> QED BY <1>2, <2>3, <2>5, <3>1
  <2>7. ASSUME Mark(p)'.val = NoOne, Mark(p)' # Mark(p) PROVE Mark(p)'.path = Mark(p).path
    <3>1. Mark(p)' = e /\ e.val = NoOne
      BY <2>5, <2>7
    <3>2. Reached(e.path, Mark(p).path)
      <4>1. ~NamesBefore(s, 1, e.path)
        BY <1>2 DEF NamesBefore
      <4>2. IsClaim(s[1]) /\ Claimed(s[1]) = e
        BY <1>2, <1>9
      <4> HIDE DEF s, e
      <4>3. Reached(e.path, Mark(p).path) \/ NamesBefore(s, 1, e.path)
        BY <1>0, <1>2, <3>1, <4>2 DEF ClaimInv, ClearInv, s
      <4> QED BY <4>1, <4>3
    <3>3. ~Beyond(Mark(p).path, e.path)
      <4> SUFFICES ASSUME Beyond(Mark(p).path, e.path) PROVE FALSE
        OBVIOUS
      <4> HIDE DEF e
      <4>1. Joined("initiator", Mark(p), e) = Mark(p)
        BY <2>4, Asym DEF Joined
      <4> QED BY <2>1, <2>7, <4>1
    <3> QED BY <3>1, <3>2, <3>3 DEF Reached
  <2>8. Mark(p)'.val = NoOne => Mark(p)'.path = Mark(p).path
    BY <2>7
  <2> HIDE DEF d, e
  <2> QED BY <1>1, <1>5, <1>6, <2>2, <2>6, <2>8 DEF d
<1> QED BY <1>8, <1>9

LEMMA LearnCarries ==
    ASSUME DebugMirrorAssumption, DebugInv, NEW p \in Peers, NEW q \in Peers, Learn(p, q) PROVE Carried(p)
<1>0. /\ PeerOK(p) /\ DebugTypes /\ VmTypes /\ UiTypes /\ DocTypes /\ ClaimInv /\ SelfInv
      /\ inner[p] \in {"local", "remote"} /\ active[p] \in BOOLEAN /\ paused[p] \in BOOLEAN
  BY Unheard
<1> DEFINE d == Merged(p, Head(net[q][p]).doc)  new == Mark(p)'
           observe == new.val \notin {NoOne, p}
           release == ~observe /\ inner[p] = "remote" /\ new.val # p
<1>1. /\ ClaimInv' /\ SelfInv' /\ \A x \in Peers \ {p} : Mark(x)' = Mark(x)
      /\ new.val = p => Mark(p).val = p
      /\ new.val = NoOne => new.path = Mark(p).path \/ ~Signed(Mark(p), p)
      /\ Swap(p, d) /\ d["initiator"] = new
  BY LearnIs
<1>2. /\ UNCHANGED <<vm, toVm, toPage, cut>>
      /\ contested' = (contested \/ (inner[p] # inner'[p] /\ inner[p] = "local" /\ Own(p)))
  BY DEF Learn, vmvars
<1>3. /\ inner'[p] = IF observe THEN "remote" ELSE "local"
      /\ active'[p] = IF observe THEN TRUE ELSE active[p] /\ ~release
      /\ ~observe => paused'[p] = (paused[p] /\ ~release)
  <2> HIDE DEF d
  <2>1. inner' = [inner EXCEPT ![p] = IF observe THEN "remote" ELSE "local"]
    BY <1>1 DEF Swap
  <2>2. active' = [active EXCEPT ![p] = IF observe THEN TRUE ELSE @ /\ ~release]
    BY <1>1 DEF Swap
  <2>3. paused' = [paused EXCEPT ![p] = IF observe THEN d["paused"].val ELSE @ /\ ~release]
    BY <1>1 DEF Swap
  <2> HIDE DEF observe, release
  <2> QED BY <1>0, <2>1, <2>2, <2>3 DEF UiTypes
<1>4. toVm[p] \in Seq(Calls) /\ toPage[p] \in Seq(Events)
  BY <1>0 DEF VmTypes
<1>5. MarkInv' /\ p # NoOne
  BY <1>1 DEF ClaimInv, DebugMirrorAssumption
<1>6. InnerOK(p)'
  BY <1>3 DEF InnerOK
<1>7. DriveOK(p)'
  <2> SUFFICES ASSUME active'[p], inner'[p] = "local" PROVE Signed(new, p)
    BY DEF DriveOK
  <2>1. ~observe /\ ~release /\ active[p]
    BY <1>3
  <2>2. CASE new.val = p
    BY <1>5, <2>2 DEF MarkInv
  <2>3. CASE new.val = NoOne
    <3>1. inner[p] = "local"
      BY <1>0, <1>5, <2>1, <2>3
    <3>2. Signed(Mark(p), p)
      BY <1>0, <2>1, <3>1 DEF PeerOK, DriveOK
    <3> QED BY <1>1, <2>3, <3>2 DEF Signed
  <2> QED BY <2>1, <2>2, <2>3
<1>8. StopOK(p)'
  <2> SUFFICES ASSUME new.val = p PROVE active'[p] \/ cut' \/ Ending(toVm'[p], p) \/ Ending(toPage'[p], p)
    BY DEF StopOK
  <2>1. active'[p] = active[p] /\ Mark(p).val = p
    BY <1>0, <1>1, <1>3
  <2> QED BY <1>0, <1>2, <2>1 DEF PeerOK, StopOK
<1>9. ~Own(p) => vm[p].run = "none" /\ toVm[p] = <<>> /\ toPage[p] = <<>>
  <2> DEFINE s == toVm[p]  t == toPage[p]
  <2>1. s \o t = <<>> => s = <<>> /\ t = <<>>
    <3> HIDE DEF s, t
    <3> QED BY <1>4
  <2> QED BY <2>1 DEF Own
<1>10. AwayOK(p)'
  <2> SUFFICES ASSUME inner'[p] = "remote", ~contested'
               PROVE  vm[p].run = "none" /\ Lacks(toVm[p], {"launch"}) /\ Lacks(toPage[p], {"launched"})
    BY <1>2 DEF AwayOK
  <2>1. CASE inner[p] = "remote"
    BY <1>0, <1>2, <2>1 DEF PeerOK, AwayOK
  <2>2. CASE inner[p] = "local"
    <3>1. ~Own(p)
      BY <1>2, <2>2
    <3>2. Lacks(<<>>, {"launch"}) /\ Lacks(<<>>, {"launched"})
      BY DEF Lacks
    <3> QED BY <1>9, <3>1, <3>2
  <2> QED BY <1>0, <2>1, <2>2
<1>11. ShownOK(p)'
  <2> SUFFICES ASSUME vm[p].run # "none", ~contested'
               PROVE  \/ LastSays(toPage[p], Tells(vm[p].run))
                      \/ Lacks(toPage[p], Status) /\ (active'[p] => (paused'[p] <=> vm[p].run \notin Going))
    BY <1>2 DEF ShownOK
  <2>1. ~contested /\ inner[p] = "local" /\ inner'[p] = "local"
    <3>1. inner[p] = "local"
      BY <1>0, <1>2 DEF PeerOK, AwayOK
    <3>2. Own(p)
      BY DEF Own
    <3> QED BY <1>2, <3>1, <3>2
  <2>2. active'[p] = active[p] /\ paused'[p] = paused[p]
    BY <1>0, <1>3, <2>1
  <2> QED BY <1>0, <2>1, <2>2 DEF PeerOK, ShownOK
<1>12. PeerOK(p)' /\ Onward
  BY <1>2, <1>6, <1>7, <1>8, <1>10, <1>11 DEF PeerOK, Onward
<1>13. Meets(p, q)
  BY DEF Meets
<1> QED BY <1>0, <1>1, <1>12, <1>13, OthersMeet DEF Carried

-----------------------------------------------------------------------------
(* The invariant, and what follows from it. *)

LEMMA DebugInvInit == DebugMirrorAssumption /\ DebugInit => DebugInv
<1> SUFFICES ASSUME DebugMirrorAssumption, DebugInit PROVE DebugInv
  OBVIOUS
<1>1. DebugTypes
  BY TypesInit
<1>2. \A p \in Peers : Mark(p) = [path |-> <<>>, val |-> NoOne]
  BY DEF DebugInit, Mark, Keys, Unset
<1>3. \A p, q \in Peers : net[p][q] = <<>>
  BY DEF DebugInit
<1>4. ClaimInv
  <2>1. MarkInv
    BY <1>2 DEF MarkInv
  <2>2. MessageInv /\ ClearInv
    BY <1>3 DEF MessageInv, ClearInv
  <2>3. CoverInv
    BY <1>2, CoversRefl DEF CoverInv, Covered
  <2>4. TellInv
    BY <1>2 DEF TellInv, DebugMirrorAssumption
  <2> QED BY <2>1, <2>2, <2>3, <2>4 DEF ClaimInv
<1>5. SelfInv
  BY <1>3 DEF SelfInv
<1>6. ASSUME NEW p \in Peers PROVE PeerOK(p)
  <2>1. /\ vm[p].run = "none" /\ toVm[p] = <<>> /\ toPage[p] = <<>> /\ ~active[p] /\ inner[p] = "local"
        /\ Mark(p).val = NoOne /\ p # NoOne
    BY <1>2 DEF DebugInit, DebugMirrorAssumption
  <2> QED BY <2>1 DEF PeerOK, InnerOK, DriveOK, StopOK, AwayOK, ShownOK
<1> QED BY <1>1, <1>4, <1>5, <1>6 DEF DebugInv

LEMMA DebugInvStep == DebugMirrorAssumption /\ DebugInv /\ [DebugNext]_debugVars => DebugInv'
<1> SUFFICES ASSUME DebugMirrorAssumption, DebugInv, [DebugNext]_debugVars PROVE DebugInv'
  OBVIOUS
<1>1. DebugTypes'
  BY TypesStep DEF DebugInv
<1>2. CASE UNCHANGED debugVars
  <2>1. UNCHANGED <<vm, toVm, toPage, active, paused, inner, doc, net, contested, cut>>
    BY <1>2 DEF debugVars, vmvars, ui
  <2>2. ClaimInv' /\ SelfInv' /\ \A q \in Peers : Mark(q)' = Mark(q)
    BY <2>1, Unsaid DEF DebugInv
  <2>3. Onward /\ \A q \in Peers : Alone(q)
    BY <2>1 DEF Onward, Alone
  <2>4. \A q \in Peers : PeerOK(q)'
    BY <2>2, <2>3, AloneKeeps DEF DebugInv
  <2> QED BY <1>1, <2>2, <2>4 DEF DebugInv
<1>3. CASE DebugNext
  <2>1. PICK p \in Peers :
          \/ Debug(p) \/ Stop(p) \/ \E op \in Control : Press(p, op)
          \/ VmTakes(p) \/ VmStops(p) \/ VmEnds(p) \/ Page(p)
          \/ \E q \in Peers : Meets(p, q)
    BY <1>3 DEF DebugNext
  <2>2. Carried(p)
    <3>1. CASE Debug(p) \/ Stop(p) \/ \E op \in Control : Press(p, op)
      BY <3>1, DebugCarries, StopCarries, PressCarries
    <3>2. CASE VmTakes(p) \/ VmStops(p) \/ VmEnds(p)
      BY <3>2, VmTakesCarries, VmStopsCarries
    <3>3. CASE Page(p)
      BY <3>3, LaunchedCarries, RefusedCarries, ResumedCarries, PausedCarries, FramedCarries, ExitedCarries,
         TerminatedCarries DEF Page
    <3>4. CASE \E q \in Peers : Meets(p, q)
      BY <3>4, LearnCarries, ServeCarries, AnsweredCarries DEF Meets
    <3> QED BY <2>1, <3>1, <3>2, <3>3, <3>4
  <2>3. \A q \in Peers \ {p} : PeerOK(q)'
    BY <2>2, AloneKeeps DEF Carried, DebugInv
  <2> QED BY <1>1, <2>2, <2>3 DEF Carried, DebugInv
<1> QED BY <1>2, <1>3

LEMMA DebugAlways == ASSUME DebugMirrorAssumption PROVE DebugSpec => []DebugInv
<1>1. DebugInit => DebugInv
  BY DebugInvInit
<1>2. DebugInv /\ [DebugNext]_debugVars => DebugInv'
  BY DebugInvStep
<1> QED BY <1>1, <1>2, PTL DEF DebugSpec

\* The type invariant: what the pages, the iframes, the replicas of the map and
\* the channels hold.
THEOREM DebugTypesHold == ASSUME DebugMirrorAssumption PROVE DebugSpec => []DebugTypeOK
<1>1. DebugInv => DebugTypeOK
  <2> SUFFICES ASSUME DebugInv PROVE DebugTypeOK
    OBVIOUS
  <2>1. VmTypes /\ UiTypes /\ DocTypes /\ GhostTypes
    BY DEF DebugInv, DebugTypes
  <2>2. vm \in [Peers -> [run : Runs, at : 0 .. MaxStops]]
    BY <2>1 DEF VmTypes, Stops
  <2>3. ASSUME NEW p \in Peers, NEW i \in DOMAIN toVm[p] PROVE toVm[p][i].op \in Requests
    <3>1. toVm[p] \in Seq(Calls)
      BY <2>1 DEF VmTypes
    <3>2. toVm[p][i] \in Calls
      BY <3>1
    <3> QED BY <3>2, CallIs
  <2>4. ASSUME NEW p \in Peers, NEW i \in DOMAIN toPage[p] PROVE toPage[p][i].op \in Answers
    <3>1. toPage[p] \in Seq(Events)
      BY <2>1 DEF VmTypes
    <3>2. toPage[p][i] \in Events
      BY <3>1
    <3> QED BY <3>2, EventIs
  <2>5. ASSUME NEW p \in Peers, NEW k \in Keys PROVE doc[p][k].val \in Values[k]
    <3>1. doc[p] \in Replicas
      BY <2>1 DEF DocTypes
    <3> QED BY <3>1, ReplicaIs, EntryIs
  <2>6. ASSUME NEW p \in Peers, NEW q \in Peers, NEW i \in DOMAIN net[p][q]
        PROVE  net[p][q][i].kind \in {"doc", "rpc", "reply"}
    <3>1. net[p][q] \in Seq(Messages)
      BY <2>1 DEF DocTypes
    <3>2. net[p][q][i] \in Messages
      BY <3>1
    <3> QED BY <3>2, MessageIs
  <2> QED BY <2>1, <2>2, <2>3, <2>4, <2>5, <2>6 DEF DebugTypeOK, UiTypes, GhostTypes
<1> QED BY <1>1, DebugAlways, PTL

\* However the buttons, the stops of the program and the commands of observers
\* interleave (onAnyDebugEvent, debugContinueBtn, debugRpcCheck): the panel of
\* one who runs the session shows whether its program is stopped, once the
\* page has what the iframe sent.
THEOREM PanelMatchesProgramHolds == ASSUME DebugMirrorAssumption PROVE DebugSpec => []PanelMatchesProgram
<1>1. DebugInv => PanelMatchesProgram
  <2> SUFFICES ASSUME DebugInv, NEW p \in Peers, Drives(p), Settled(p), vm[p].run # "none", ~contested
               PROVE  paused[p] = (vm[p].run \notin Going)
    BY DEF PanelMatchesProgram
  <2>1. ShownOK(p) /\ paused[p] \in BOOLEAN
    BY DEF DebugInv, PeerOK, DebugTypes, UiTypes
  <2>2. ~LastSays(<<>>, Tells(vm[p].run))
    BY DEF LastSays
  <2>3. paused[p] <=> vm[p].run \notin Going
    BY <2>1, <2>2 DEF ShownOK, Settled, Drives
  <2> QED BY <2>1, <2>3
<1> QED BY <1>1, DebugAlways, PTL

\* Once all is quiet, the peers agree on who has the role.
LEMMA Agree ==
    ASSUME DebugInv, Quiet, NEW p \in Peers, NEW q \in Peers
    PROVE  Mark(p).path = Mark(q).path /\ (Mark(p).val = NoOne <=> Mark(q).val = NoOne)
<1>1. ASSUME NEW x \in Peers, NEW y \in Peers PROVE Covers(Mark(y), Mark(x))
  <2>1. \A r \in Peers : ~Brings(net[r][y], Mark(x))
    BY DEF Quiet, Brings
  <2> QED BY <2>1 DEF DebugInv, ClaimInv, CoverInv, Covered
<1>2. Mark(p) \in Claims /\ Mark(q) \in Claims
  BY ClaimIs DEF DebugInv, DebugTypes
<1> QED BY <1>1, <1>2, CoversBoth

\* However many peers start a session at the same time (beginDebugSession takes
\* the role whoever has it): the updates of the map lead all to one claim, and
\* only who made it goes on (swapOnDebugStateChange).
THEOREM OneDriverHolds == ASSUME DebugMirrorAssumption PROVE DebugSpec => []OneDriver
<1>1. DebugMirrorAssumption /\ DebugInv => OneDriver
  <2> SUFFICES ASSUME DebugMirrorAssumption, DebugInv, Quiet, NEW p \in Peers, NEW q \in Peers, Drives(p), Drives(q)
               PROVE  p = q
    BY DEF OneDriver
  <2>1. Signed(Mark(p), p) /\ Signed(Mark(q), q)
    BY DEF DebugInv, PeerOK, DriveOK, Drives
  <2>2. Signed(Mark(p), q)
    BY <2>1, Agree DEF Signed
  <2> QED BY <2>1, <2>2, SignedOnce
<1> QED BY <1>1, DebugAlways, PTL

\* However a session ends for its initiator (an exit, stopAll, an observer's
\* Stop), clearBroadcastDebugState reaches every observer, but for a program
\* that is unwound.
THEOREM EndIsSeenHolds == ASSUME DebugMirrorAssumption PROVE DebugSpec => []EndIsSeen
<1>1. DebugMirrorAssumption /\ DebugInv => EndIsSeen
  <2> SUFFICES ASSUME DebugMirrorAssumption, DebugInv, NEW p \in Peers, NEW q \in Peers,
                      Quiet, ~active[p], vm[p].run = "none", p # q, ~cut, Initiator(q) = p
               PROVE  FALSE
    BY DEF EndIsSeen
  <2>1. Mark(q).val = p /\ p # NoOne
    BY DEF Initiator, Says, Mark, DebugMirrorAssumption
  <2>2. Mark(p).path = Mark(q).path /\ Mark(p).val # NoOne
    BY <2>1, Agree
  <2>3. Signed(Mark(q), p) /\ Signed(Mark(p), Mark(p).val)
    BY <2>1, <2>2 DEF DebugInv, ClaimInv, MarkInv
  <2>4. Signed(Mark(p), p)
    BY <2>2, <2>3 DEF Signed
  <2>5. Mark(p).val \in Peers
    BY <2>2, ClaimIs DEF DebugInv, DebugTypes
  <2>6. Mark(p).val = p
    BY <2>3, <2>4, <2>5, SignedOnce
  <2>7. ~Ending(toVm[p], p) /\ ~Ending(toPage[p], p)
    BY DEF Quiet, Settled, Ending
  <2> QED BY <2>6, <2>7 DEF DebugInv, PeerOK, StopOK
<1> QED BY <1>1, DebugAlways, PTL
=============================================================================
