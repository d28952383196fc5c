------------------------ MODULE RuntimeServiceProofs ------------------------
(***************************************************************************)
(* Theorems of RuntimeService, for any handles, keys, digests and bounds.  *)
(***************************************************************************)
EXTENDS RuntimeService, FiniteSetTheorems, WellFoundedInduction, TLAPS

(***************************************************************************)
(* Induction on the natural numbers, as a fact about a set.                *)
(***************************************************************************)
LEMMA SetInduction ==
  ASSUME NEW S, 0 \in S, \A n \in Nat : n \in S => n + 1 \in S
  PROVE  Nat \subseteq S
<1> SUFFICES ASSUME Nat \ S # {} PROVE FALSE
  OBVIOUS
<1>1. PICK n \in Nat \ S : \A m \in Nat \ S : ~(m < n)
  <2>1. \E n \in Nat \ S : \A m \in Nat \ S : <<m, n>> \notin OpToRel(<, Nat)
    BY WFMin, NatLessThanWellFounded, Zenon
  <2> QED
    BY <2>1, Zenon DEF OpToRel
<1>2. n # 0 /\ n - 1 \in Nat \ S
  BY <1>1
<1> QED
  BY <1>1, <1>2

-----------------------------------------------------------------------------
(* Sequences of anything.                                                  *)
IsSeq(s) == \E S : s \in Seq(S)

(* Appending to a sequence adds one element at its end and moves none.     *)
LEMMA SeqAppend ==
  ASSUME NEW s, IsSeq(s), NEW x
  PROVE  /\ IsSeq(Append(s, x)) /\ Len(s) \in Nat /\ DOMAIN s = 1 .. Len(s)
         /\ Len(Append(s, x)) = Len(s) + 1
         /\ DOMAIN Append(s, x) = 1 .. Len(s) + 1
         /\ \A i \in 1 .. Len(s) : Append(s, x)[i] = s[i]
         /\ Append(s, x)[Len(s) + 1] = x
<1>1. PICK S : s \in Seq(S)  BY DEF IsSeq
<1>2. s \in Seq(S \cup {x})  BY <1>1
<1>3. Append(s, x) \in Seq(S \cup {x})  BY <1>2
<1> QED  BY <1>2, <1>3 DEF IsSeq

(* Concatenation keeps the first sequence where it was and shifts the      *)
(* second behind it.                                                       *)
LEMMA SeqConcat ==
  ASSUME NEW s, IsSeq(s), NEW t, IsSeq(t)
  PROVE  /\ IsSeq(s \o t) /\ Len(s) \in Nat /\ Len(t) \in Nat
         /\ DOMAIN s = 1 .. Len(s) /\ DOMAIN t = 1 .. Len(t)
         /\ Len(s \o t) = Len(s) + Len(t)
         /\ DOMAIN (s \o t) = 1 .. Len(s) + Len(t)
         /\ \A i \in 1 .. Len(s) : (s \o t)[i] = s[i]
         /\ \A i \in 1 .. Len(t) : (s \o t)[Len(s) + i] = t[i]
         /\ \A i \in Len(s) + 1 .. Len(s) + Len(t) : (s \o t)[i] = t[i - Len(s)]
<1>1. PICK S, T : s \in Seq(S) /\ t \in Seq(T)  BY DEF IsSeq
<1>2. s \in Seq(S \cup T) /\ t \in Seq(S \cup T)  BY <1>1
<1>3. s \o t \in Seq(S \cup T)  BY <1>2
<1> QED  BY <1>2, <1>3 DEF IsSeq

-----------------------------------------------------------------------------
(***************************************************************************)
(* What a kernel computes step by step: a trace of applying ops to st.     *)
(***************************************************************************)
IsTrace(g, st, ops) ==
  /\ g[0] = st
  /\ \A n \in 1 .. Len(ops) : g[n] = ApplyOp(g[n - 1], ops[n])

Computes(g, m, st, ops) ==
  g = [n \in 0 .. m |-> IF n = 0 THEN st ELSE ApplyOp(g[n - 1], ops[n])]

(* A kernel can compute any list of operations, one after the other.       *)
LEMMA TraceExists ==
  ASSUME NEW st, NEW ops, Len(ops) \in Nat
  PROVE  \E g : Computes(g, Len(ops), st, ops)
<1> DEFINE Def(g, m) == Computes(g, m, st, ops)
           S == {m \in Nat : \E g : Def(g, m)}
<1>1. 0 \in S
  <2>1. Def([n \in 0 .. 0 |-> st], 0)
    BY DEF Computes
  <2> QED
    BY <2>1
<1>2. ASSUME NEW m \in Nat, m \in S PROVE m + 1 \in S
  <2>1. PICK g : Def(g, m)
    BY <1>2
  <2> DEFINE h == [n \in 0 .. m + 1 |->
                     IF n = m + 1 THEN ApplyOp(g[m], ops[m + 1]) ELSE g[n]]
  <2>2. ASSUME NEW n \in 0 .. m + 1
        PROVE  h[n] = IF n = 0 THEN st ELSE ApplyOp(h[n - 1], ops[n])
    <3>1. CASE n = m + 1
      BY <2>1, <3>1 DEF Computes
    <3>2. CASE n \in 1 .. m
      <4>1. n - 1 \in 0 .. m /\ n \in 0 .. m /\ n # m + 1 /\ n - 1 # m + 1
        BY <3>2
      <4>2. h[n] = g[n] /\ h[n - 1] = g[n - 1]
        BY <4>1
      <4> QED
        BY <2>1, <3>2, <4>1, <4>2 DEF Computes
    <3>3. CASE n = 0
      BY <2>1, <3>3 DEF Computes
    <3> QED
      BY <3>1, <3>2, <3>3
  <2>3. Def(h, m + 1)
    BY <2>2 DEF Computes
  <2> HIDE DEF h, Def
  <2> QED
    BY <2>3
<1>3. Nat \subseteq S
  <2> HIDE DEF S
  <2> QED
    BY <1>1, <1>2, SetInduction
<1> QED
  BY <1>3

(* The operations and the store they start from decide the store they end  *)
(* in.                                                                     *)
LEMMA TraceUnique ==
  ASSUME NEW st, NEW ops, Len(ops) \in Nat, NEW g, NEW h,
         IsTrace(g, st, ops), IsTrace(h, st, ops)
  PROVE  g[Len(ops)] = h[Len(ops)]
<1> DEFINE S == {n \in Nat : n <= Len(ops) => g[n] = h[n]}
<1>1. 0 \in S
  BY DEF IsTrace
<1>2. ASSUME NEW n \in Nat, n \in S PROVE n + 1 \in S
  BY <1>2 DEF IsTrace
<1>3. Nat \subseteq S
  <2> HIDE DEF S
  <2> QED
    BY <1>1, <1>2, SetInduction
<1> QED
  BY <1>3

(* Apply is the end of such a computation.                                 *)
LEMMA ApplyIs ==
  ASSUME NEW st, NEW ops, Len(ops) \in Nat
  PROVE  \E g : IsTrace(g, st, ops) /\ Apply(st, ops) = g[Len(ops)]
<1> DEFINE f == CHOOSE g : Computes(g, Len(ops), st, ops)
<1>1. Computes(f, Len(ops), st, ops)
  BY TraceExists
<1>2. Apply(st, ops) = f[Len(ops)]
  BY DEF Apply, Computes
<1>3. IsTrace(f, st, ops)
  <2> HIDE DEF f
  <2> QED
    BY <1>1 DEF IsTrace, Computes
<1> QED
  BY <1>2, <1>3

(***************************************************************************)
(* Operations applied one batch after the other.                           *)
(***************************************************************************)
LEMMA ApplyConcat ==
  ASSUME NEW st, NEW a, IsSeq(a), NEW b, IsSeq(b)
  PROVE  Apply(st, a \o b) = Apply(Apply(st, a), b)
<1>1. /\ Len(a) \in Nat /\ Len(b) \in Nat /\ Len(a \o b) = Len(a) + Len(b)
      /\ \A n \in 1 .. Len(a) : (a \o b)[n] = a[n]
      /\ \A n \in 1 .. Len(b) : (a \o b)[Len(a) + n] = b[n]
  BY SeqConcat
<1>2. PICK g : IsTrace(g, st, a) /\ Apply(st, a) = g[Len(a)]
  BY <1>1, ApplyIs
<1>3. PICK h : IsTrace(h, g[Len(a)], b) /\ Apply(g[Len(a)], b) = h[Len(b)]
  BY <1>1, ApplyIs
<1> DEFINE j == [n \in 0 .. Len(a) + Len(b) |->
                   IF n <= Len(a) THEN g[n] ELSE h[n - Len(a)]]
<1>4. /\ \A n \in 0 .. Len(a) : j[n] = g[n]
      /\ \A n \in 0 .. Len(b) : j[Len(a) + n] = h[n]
  BY <1>1, <1>3 DEF IsTrace
<1> HIDE DEF j
<1>5. ASSUME NEW n \in 1 .. Len(a) + Len(b)
      PROVE  j[n] = ApplyOp(j[n - 1], (a \o b)[n])
  <2>1. CASE n <= Len(a)
    <3>1. n \in 1 .. Len(a) /\ n \in 0 .. Len(a) /\ n - 1 \in 0 .. Len(a)
      BY <1>1, <2>1
    <3>2. g[n] = ApplyOp(g[n - 1], a[n])
      BY <1>2, <3>1 DEF IsTrace
    <3> QED
      BY <1>1, <1>4, <3>1, <3>2
  <2>2. CASE n > Len(a)
    <3>1. PICK m \in 1 .. Len(b) : n = Len(a) + m
      <4>1. n - Len(a) \in 1 .. Len(b) /\ n = Len(a) + (n - Len(a))
        BY <1>1, <2>2
      <4> QED
        BY <4>1
    <3>2. m - 1 \in 0 .. Len(b) /\ m \in 0 .. Len(b) /\ n - 1 = Len(a) + (m - 1)
      BY <1>1, <3>1
    <3>3. h[m] = ApplyOp(h[m - 1], b[m])
      BY <1>3, <3>1 DEF IsTrace
    <3> QED
      BY <1>1, <1>4, <3>1, <3>2, <3>3
  <2> QED
    BY <1>1, <2>1, <2>2
<1>6. IsTrace(j, st, a \o b)
  BY <1>1, <1>2, <1>4, <1>5 DEF IsTrace
<1>7. PICK ab : ab = a \o b
  OBVIOUS
<1>8. Len(ab) \in Nat
  BY <1>1, <1>7
<1>9. PICK k : IsTrace(k, st, ab) /\ Apply(st, ab) = k[Len(ab)]
  BY <1>8, ApplyIs
<1>10. k[Len(ab)] = j[Len(ab)]
  BY <1>6, <1>7, <1>8, <1>9, TraceUnique
<1> QED
  BY <1>1, <1>2, <1>3, <1>4, <1>7, <1>9, <1>10

(* No operation, no change.                                                *)
LEMMA ApplyNone ==
  ASSUME NEW st
  PROVE  Apply(st, <<>>) = st
BY ApplyIs DEF IsTrace

(* One operation is applied as ApplyOp applies it.                         *)
LEMMA ApplyOne ==
  ASSUME NEW st, NEW op
  PROVE  Apply(st, <<op>>) = ApplyOp(st, op)
<1>1. PICK g : IsTrace(g, st, <<op>>) /\ Apply(st, <<op>>) = g[Len(<<op>>)]
  BY ApplyIs
<1> QED
  BY <1>1 DEF IsTrace

(***************************************************************************)
(* The same for the index that a caller records accepted entries in.       *)
(***************************************************************************)
Indexes(g, m, index, entries) ==
  g = [n \in 0 .. m |-> IF n = 0 THEN index ELSE InsertEntry(g[n - 1], entries[n])]

IndexExtends(g, h, m, index, entries) ==
  h = [n \in 0 .. m + 1 |->
         IF n = m + 1 THEN InsertEntry(g[m], entries[m + 1]) ELSE g[n]]

(* The index of m entries, extended by one more, is the index of m + 1.    *)
LEMMA IndexesNext ==
  ASSUME NEW index, NEW entries, NEW m \in Nat, NEW g, NEW h,
         Indexes(g, m, index, entries), IndexExtends(g, h, m, index, entries)
  PROVE  Indexes(h, m + 1, index, entries)
<1>1. ASSUME NEW n \in 0 .. m + 1
      PROVE  h[n] = IF n = 0 THEN index ELSE InsertEntry(h[n - 1], entries[n])
  <2>1. CASE n = m + 1
    <3>1. h[n] = InsertEntry(g[m], entries[m + 1]) /\ h[m] = g[m]
      BY <2>1 DEF IndexExtends
    <3> QED
      BY <2>1, <3>1
  <2>2. CASE n \in 1 .. m
    <3>1. n - 1 \in 0 .. m /\ n \in 0 .. m /\ n # m + 1 /\ n - 1 # m + 1
      BY <2>2
    <3>2. h[n] = g[n] /\ h[n - 1] = g[n - 1]
      BY <3>1 DEF IndexExtends
    <3> QED
      BY <2>2, <3>1, <3>2 DEF Indexes
  <2>3. CASE n = 0
    BY <2>3 DEF Indexes, IndexExtends
  <2> QED
    BY <2>1, <2>2, <2>3
<1> QED
  BY <1>1 DEF Indexes, IndexExtends

(* Any list of entries has its idempotency index.                          *)
LEMMA IndexesExists ==
  ASSUME NEW index, NEW entries, NEW m \in Nat
  PROVE  \E g : Indexes(g, m, index, entries)
<1> DEFINE S == {n \in Nat : \E g : Indexes(g, n, index, entries)}
<1>1. 0 \in S
  <2>1. Indexes([n \in 0 .. 0 |-> index], 0, index, entries)
    BY DEF Indexes
  <2> QED
    BY <2>1
<1>2. ASSUME NEW n \in Nat, n \in S PROVE n + 1 \in S
  <2>1. PICK g : Indexes(g, n, index, entries)
    BY <1>2
  <2>2. PICK h : IndexExtends(g, h, n, index, entries)
    BY DEF IndexExtends
  <2> QED
    BY <2>1, <2>2, IndexesNext
<1>3. Nat \subseteq S
  <2> HIDE DEF S
  <2> QED
    BY <1>1, <1>2, SetInduction
<1> QED
  BY <1>3

(* Two lists that agree on their first m entries have one index of those   *)
(* m.                                                                      *)
LEMMA IndexesUnique ==
  ASSUME NEW index, NEW a, NEW b, NEW m \in Nat, NEW k \in Nat, NEW g, NEW h,
         m <= k, \A i \in 1 .. m : a[i] = b[i],
         Indexes(g, m, index, a), Indexes(h, k, index, b)
  PROVE  g[m] = h[m]
<1> DEFINE S == {n \in Nat : n <= m => g[n] = h[n]}
<1>1. 0 \in S
  BY DEF Indexes
<1>2. ASSUME NEW n \in Nat, n \in S PROVE n + 1 \in S
  <2>1. CASE n + 1 <= m
    <3>1. g[n + 1] = InsertEntry(g[n], a[n + 1])
      BY <2>1 DEF Indexes
    <3>2. h[n + 1] = InsertEntry(h[n], b[n + 1])
      BY <2>1 DEF Indexes
    <3> QED
      BY <1>2, <2>1, <3>1, <3>2
  <2> QED
    BY <2>1
<1>3. Nat \subseteq S
  <2> HIDE DEF S
  <2> QED
    BY <1>1, <1>2, SetInduction
<1> QED
  BY <1>3

(* Recorded is the end of such a computation.                              *)
LEMMA RecordedIs ==
  ASSUME NEW index, NEW entries, Len(entries) \in Nat
  PROVE  \E g : /\ Indexes(g, Len(entries), index, entries)
                /\ Recorded(index, entries) = g[Len(entries)]
<1> DEFINE f == CHOOSE g : Indexes(g, Len(entries), index, entries)
<1>1. Indexes(f, Len(entries), index, entries)
  BY IndexesExists
<1>2. Recorded(index, entries) = f[Len(entries)]
  BY DEF Recorded, Indexes
<1> QED
  BY <1>1, <1>2

(* Recording nothing leaves the index as it is.                            *)
LEMMA RecordedNone ==
  ASSUME NEW index
  PROVE  Recorded(index, <<>>) = index
BY RecordedIs DEF Indexes

(* The entry that closes a list is inserted last.                          *)
LEMMA RecordedAppend ==
  ASSUME NEW index, NEW entries, IsSeq(entries), NEW e
  PROVE  Recorded(index, Append(entries, e)) = InsertEntry(Recorded(index, entries), e)
<1>1. PICK more : more = Append(entries, e)
  OBVIOUS
<1>2. /\ Len(entries) \in Nat /\ Len(more) = Len(entries) + 1
      /\ \A i \in 1 .. Len(entries) : entries[i] = more[i]
      /\ more[Len(entries) + 1] = e
  BY <1>1, SeqAppend
<1>3. PICK g : /\ Indexes(g, Len(entries), index, entries)
               /\ Recorded(index, entries) = g[Len(entries)]
  BY <1>2, RecordedIs
<1>4. PICK h : Indexes(h, Len(more), index, more) /\ Recorded(index, more) = h[Len(more)]
  BY <1>2, RecordedIs
<1>5. g[Len(entries)] = h[Len(entries)]
  BY <1>2, <1>3, <1>4, IndexesUnique
<1>6. h[Len(more)] = InsertEntry(h[Len(entries)], e)
  BY <1>2, <1>4 DEF Indexes
<1> QED
  BY <1>1, <1>3, <1>4, <1>5, <1>6

-----------------------------------------------------------------------------
(* What each operation does to a store.                                    *)
IsStore(st) ==
  /\ st = [live |-> st.live, comps |-> st.comps, events |-> st.events]
  /\ st.comps = [k \in DOMAIN st.comps |-> st.comps[k]]
  /\ IsSeq(st.events)

(* SpawnEntity makes an entity live and touches nothing else.              *)
LEMMA ApplySpawn ==
  ASSUME NEW st, IsStore(st), NEW id
  PROVE  /\ IsStore(ApplyOp(st, SpawnEntity(id)))
         /\ ApplyOp(st, SpawnEntity(id)).live = st.live \cup {id}
         /\ ApplyOp(st, SpawnEntity(id)).comps = st.comps
         /\ ApplyOp(st, SpawnEntity(id)).events = st.events
<1>1. ApplyOp(st, SpawnEntity(id)) =
        [live |-> st.live \cup {id}, comps |-> st.comps, events |-> st.events]
  BY DEF ApplyOp, SpawnEntity, IsStore
<1> QED
  BY <1>1 DEF IsStore

(* SetComponent on a live entity writes one component.                     *)
LEMMA ApplySet ==
  ASSUME NEW st, IsStore(st), NEW e \in st.live, NEW type, NEW value
  PROVE  LET st2 == ApplyOp(st, SetComponent(e, type, value))
         IN  /\ IsStore(st2)
             /\ st2.live = st.live /\ st2.events = st.events
             /\ DOMAIN st2.comps = DOMAIN st.comps \cup {<<e, type>>}
             /\ st2.comps[<<e, type>>] = value
             /\ \A k \in DOMAIN st.comps :
                  k # <<e, type>> => st2.comps[k] = st.comps[k]
<1> DEFINE comps == Bind(st.comps, <<e, type>>, value)
<1>1. ApplyOp(st, SetComponent(e, type, value)) =
        [live |-> st.live, comps |-> comps, events |-> st.events]
  BY DEF ApplyOp, SetComponent, IsStore
<1>2. /\ comps = [k \in DOMAIN comps |-> comps[k]]
      /\ DOMAIN comps = DOMAIN st.comps \cup {<<e, type>>}
      /\ comps[<<e, type>>] = value
      /\ \A k \in DOMAIN st.comps : k # <<e, type>> => comps[k] = st.comps[k]
  BY DEF Bind
<1> HIDE DEF comps
<1> QED
  BY <1>1, <1>2 DEF IsStore

(* SetComponent on an entity the kernel does not know is a no-op.          *)
LEMMA ApplySetUnknown ==
  ASSUME NEW st, NEW e, e \notin st.live, NEW type, NEW value
  PROVE  ApplyOp(st, SetComponent(e, type, value)) = st
BY DEF ApplyOp, SetComponent

(* EmitEvent appends the event and touches nothing else.                   *)
LEMMA ApplyEmit ==
  ASSUME NEW st, IsStore(st), NEW type, NEW value
  PROVE  LET st2 == ApplyOp(st, EmitEvent(type, value))
         IN  /\ IsStore(st2)
             /\ st2.live = st.live /\ st2.comps = st.comps
             /\ st2.events = Append(st.events, value)
<1>1. ApplyOp(st, EmitEvent(type, value)) =
        [live |-> st.live, comps |-> st.comps, events |-> Append(st.events, value)]
  BY DEF ApplyOp, EmitEvent, IsStore
<1> QED
  BY <1>1, SeqAppend DEF IsStore

-----------------------------------------------------------------------------
(* What holds of every store, whichever path wrote it last.                *)
OfKind(st, type) == {e \in st.live : e[1] = type}

KeysLive(st) == \A k \in DOMAIN st.comps : k[1] \in st.live

Ticks(st, t) == \A e \in st.live : e[2] \in 1 .. t

UserWhole(st, u) == <<u, "UserGdprState">> \in DOMAIN st.comps

ActorWhole(st, x) ==
  /\ <<x, "ActorProfile">> \in DOMAIN st.comps
  /\ <<x, "UserBinding">> \in DOMAIN st.comps
  /\ st.comps[<<x, "UserBinding">>] \in OfKind(st, "UserProfile") \cup {GhostUser}

ActivityWhole(st, r) ==
  LET record == st.comps[<<r, "ActivityRecord">>]
  IN  /\ <<r, "ActivityRecord">> \in DOMAIN st.comps
      /\ Cardinality(record.actors) = 1 /\ record.target # {r}

SpaceWhole(st, s) ==
  LET config == st.comps[<<s, "SpaceConfig">>]
      depth  == st.comps[<<s, "ParentChainDepth">>]
  IN  /\ <<s, "SpaceConfig">> \in DOMAIN st.comps
      /\ <<s, "ParentChainDepth">> \in DOMAIN st.comps
      /\ Cardinality(config.actors) = 1
      /\ depth \in 0 .. MaxSpaceDepth
      /\ \A p \in config.parent :
           /\ p \in OfKind(st, "SpaceConfig")
           /\ depth = st.comps[<<p, "ParentChainDepth">>] + 1
      /\ config.parent = {} => depth = 0

Whole(st, e) ==
  /\ e[1] = "UserProfile"    => UserWhole(st, e)
  /\ e[1] = "ActorProfile"   => ActorWhole(st, e)
  /\ e[1] = "ActivityRecord" => ActivityWhole(st, e)
  /\ e[1] = "SpaceConfig"    => SpaceWhole(st, e)

(* The lifecycle pointers agree with the events.                           *)
Pending(st) ==
  /\ \A i \in DOMAIN st.events : st.events[i] \in st.live \cup {GhostUser}
  /\ \A u \in OfKind(st, "UserProfile") :
       st.comps[<<u, "UserGdprState">>] # "Active"
         <=> \E i \in DOMAIN st.events : st.events[i] = u

GoodStore(st, t) ==
  /\ IsStore(st) /\ KeysLive(st) /\ Ticks(st, t) /\ Pending(st)
  /\ \A e \in st.live : Whole(st, e)

(***************************************************************************)
(* What no operation does: components but for the lifecycle pointer are    *)
(* written once, and no pointer goes back to Active.                       *)
(***************************************************************************)
Frame(st, st2) ==
  /\ st.live \subseteq st2.live
  /\ \A k \in DOMAIN st.comps :
       /\ k \in DOMAIN st2.comps
       /\ k[2] # "UserGdprState" => st2.comps[k] = st.comps[k]
       /\ k[2] = "UserGdprState" /\ st.comps[k] # "Active" => st2.comps[k] # "Active"

(* What two steps keep, their sequence keeps.                              *)
LEMMA FrameTransitive ==
  ASSUME NEW st1, NEW st2, NEW st3, Frame(st1, st2), Frame(st2, st3)
  PROVE  Frame(st1, st3)
BY DEF Frame

(* An entity that was whole stays whole: what it refers to is not taken    *)
(* away.                                                                   *)
LEMMA FrameWhole ==
  ASSUME NEW st, NEW st2, Frame(st, st2), \A e \in st.live : Whole(st, e)
  PROVE  \A e \in st.live : Whole(st2, e)
<1> SUFFICES ASSUME NEW e \in st.live PROVE Whole(st2, e)
  OBVIOUS
<1>1. e[1] = "UserProfile" => UserWhole(st2, e)
  BY DEF Frame, Whole, UserWhole
<1>2. e[1] = "ActorProfile" => ActorWhole(st2, e)
  BY DEF Frame, Whole, ActorWhole, OfKind
<1>3. e[1] = "ActivityRecord" => ActivityWhole(st2, e)
  BY DEF Frame, Whole, ActivityWhole
<1>4. ASSUME e[1] = "SpaceConfig" PROVE SpaceWhole(st2, e)
  <2>1. SpaceWhole(st, e)
    BY <1>4 DEF Whole
  <2>2. /\ <<e, "SpaceConfig">> \in DOMAIN st2.comps
        /\ <<e, "ParentChainDepth">> \in DOMAIN st2.comps
        /\ st2.comps[<<e, "SpaceConfig">>] = st.comps[<<e, "SpaceConfig">>]
        /\ st2.comps[<<e, "ParentChainDepth">>] = st.comps[<<e, "ParentChainDepth">>]
    BY <2>1 DEF Frame, SpaceWhole
  <2>3. ASSUME NEW p \in OfKind(st, "SpaceConfig")
        PROVE  /\ p \in OfKind(st2, "SpaceConfig")
               /\ st2.comps[<<p, "ParentChainDepth">>] = st.comps[<<p, "ParentChainDepth">>]
    BY <2>3 DEF OfKind, Frame, Whole, SpaceWhole
  <2> QED
    BY <2>1, <2>2, <2>3 DEF SpaceWhole
<1> QED
  BY <1>1, <1>2, <1>3, <1>4 DEF Whole

(***************************************************************************)
(* st2 is st with a new entity id and some components of it.               *)
(***************************************************************************)
Grown(st, st2, id) ==
  /\ IsStore(st2)
  /\ st2.live = st.live \cup {id} /\ st2.events = st.events
  /\ \A k \in DOMAIN st.comps : k \in DOMAIN st2.comps /\ st2.comps[k] = st.comps[k]
  /\ \A k \in DOMAIN st2.comps : k \in DOMAIN st.comps \/ k[1] = id

(* Spawning grows the store by that entity alone.                          *)
LEMMA GrownSpawn ==
  ASSUME NEW st, IsStore(st), NEW id
  PROVE  Grown(st, ApplyOp(st, SpawnEntity(id)), id)
BY ApplySpawn DEF Grown

(* Writing components of the new entity keeps the store grown by it alone. *)
LEMMA GrownSet ==
  ASSUME NEW st, KeysLive(st), NEW id, id \notin st.live,
         NEW s, Grown(st, s, id), NEW type, NEW value
  PROVE  LET s2 == ApplyOp(s, SetComponent(id, type, value))
         IN  /\ Grown(st, s2, id)
             /\ <<id, type>> \in DOMAIN s2.comps /\ s2.comps[<<id, type>>] = value
             /\ \A t : /\ t # type /\ <<id, t>> \in DOMAIN s.comps =>
                            /\ <<id, t>> \in DOMAIN s2.comps
                            /\ s2.comps[<<id, t>>] = s.comps[<<id, t>>]
<1> DEFINE s2 == ApplyOp(s, SetComponent(id, type, value))
<1>1. IsStore(s) /\ id \in s.live
  BY DEF Grown
<1>2. /\ IsStore(s2) /\ s2.live = s.live /\ s2.events = s.events
      /\ DOMAIN s2.comps = DOMAIN s.comps \cup {<<id, type>>}
      /\ s2.comps[<<id, type>>] = value
      /\ \A k \in DOMAIN s.comps : k # <<id, type>> => s2.comps[k] = s.comps[k]
  BY <1>1, ApplySet
<1> HIDE DEF s2
<1>3. <<id, type>> \notin DOMAIN st.comps
  BY DEF KeysLive
<1>4. Grown(st, s2, id)
  BY <1>2, <1>3 DEF Grown
<1>5. \A t : t # type => <<id, t>> # <<id, type>>
  OBVIOUS
<1> QED
  BY <1>2, <1>4, <1>5 DEF s2

(* The system actor and the ghost user are never derived: derived ids have *)
(* a tick above 0.                                                         *)
LEMMA Unregistered ==
  ASSUME NEW st, NEW t \in Nat, Ticks(st, t)
  PROVE  GhostUser \notin st.live /\ SystemActor \notin st.live
BY ServiceAssumption DEF Ticks

(* A store grown by one whole entity, born active if it is a user, is good *)
(* again.                                                                  *)
LEMMA GrownGood ==
  ASSUME NEW st, NEW t \in Nat, GoodStore(st, t),
         NEW id, id \notin st.live, id[2] \in 1 .. t,
         NEW st2, Grown(st, st2, id), Whole(st2, id),
         id[1] = "UserProfile" => st2.comps[<<id, "UserGdprState">>] = "Active"
  PROVE  GoodStore(st2, t) /\ Frame(st, st2)
<1>1. Frame(st, st2)
  BY DEF Grown, Frame
<1>2. IsStore(st2) /\ KeysLive(st2)
  BY DEF Grown, GoodStore, KeysLive
<1>3. Ticks(st2, t)
  BY DEF Grown, GoodStore, Ticks
<1>4. \A e \in st2.live : Whole(st2, e)
  BY <1>1, FrameWhole DEF Grown, GoodStore
<1>5. Pending(st2)
  <2>1. /\ \A i \in DOMAIN st.events : st.events[i] \in st.live \cup {GhostUser}
        /\ \A u \in OfKind(st, "UserProfile") :
             st.comps[<<u, "UserGdprState">>] # "Active"
               <=> \E i \in DOMAIN st.events : st.events[i] = u
    BY DEF GoodStore, Pending
  <2>2. id # GhostUser
    BY ServiceAssumption
  <2>3. st2.live = st.live \cup {id} /\ st2.events = st.events
    BY DEF Grown
  <2>4. ASSUME NEW u \in OfKind(st, "UserProfile")
        PROVE  st2.comps[<<u, "UserGdprState">>] = st.comps[<<u, "UserGdprState">>]
    BY <2>4 DEF Grown, GoodStore, OfKind, Whole, UserWhole
  <2>5. ASSUME NEW u \in OfKind(st2, "UserProfile"), u \notin st.live
        PROVE  /\ st2.comps[<<u, "UserGdprState">>] = "Active"
               /\ \A i \in DOMAIN st2.events : st2.events[i] # u
    BY <2>1, <2>2, <2>3, <2>5 DEF OfKind
  <2> QED
    BY <2>1, <2>3, <2>4, <2>5 DEF Pending, OfKind
<1> QED
  BY <1>1, <1>2, <1>3, <1>4, <1>5 DEF GoodStore

(***************************************************************************)
(* A write of the lifecycle pointer, with or without the event.            *)
(***************************************************************************)
LEMMA PointerFrame ==
  ASSUME NEW st, NEW t \in Nat, GoodStore(st, t), NEW u, NEW status,
         status # "Active"
  PROVE  LET st2 == ApplyOp(st, SetComponent(u, "UserGdprState", status))
         IN  /\ Frame(st, st2) /\ IsStore(st2) /\ KeysLive(st2) /\ Ticks(st2, t)
             /\ st2.live = st.live /\ st2.events = st.events
             /\ \A e \in st2.live : Whole(st2, e)
             /\ u \in st.live => st2.comps[<<u, "UserGdprState">>] = status
             /\ \A v : v # u /\ <<v, "UserGdprState">> \in DOMAIN st.comps =>
                  st2.comps[<<v, "UserGdprState">>] = st.comps[<<v, "UserGdprState">>]
<1> DEFINE st2 == ApplyOp(st, SetComponent(u, "UserGdprState", status))
<1>1. CASE u \notin st.live
  <2>1. st2 = st
    BY <1>1, ApplySetUnknown
  <2> QED
    BY <1>1, <2>1 DEF GoodStore, Frame
<1>2. CASE u \in st.live
  <2>1. /\ IsStore(st2) /\ st2.live = st.live /\ st2.events = st.events
        /\ DOMAIN st2.comps = DOMAIN st.comps \cup {<<u, "UserGdprState">>}
        /\ st2.comps[<<u, "UserGdprState">>] = status
        /\ \A k \in DOMAIN st.comps :
             k # <<u, "UserGdprState">> => st2.comps[k] = st.comps[k]
    BY <1>2, ApplySet DEF GoodStore
  <2> HIDE DEF st2
  <2>2. Frame(st, st2)
    <3>1. \A k : k[2] # "UserGdprState" => k # <<u, "UserGdprState">>
      OBVIOUS
    <3> QED
      BY <2>1, <3>1 DEF Frame
  <2>3. KeysLive(st2) /\ Ticks(st2, t)
    BY <1>2, <2>1 DEF GoodStore, KeysLive, Ticks
  <2>4. \A e \in st2.live : Whole(st2, e)
    BY <2>1, <2>2, FrameWhole DEF GoodStore
  <2>5. \A v : v # u => <<v, "UserGdprState">> # <<u, "UserGdprState">>
    OBVIOUS
  <2> QED
    BY <2>1, <2>2, <2>3, <2>4, <2>5 DEF st2
<1> QED
  BY <1>1, <1>2

(* The pair of operations of an erasure moves pointer and event together.  *)
LEMMA EraseGood ==
  ASSUME NEW st, NEW t \in Nat, GoodStore(st, t),
         NEW u \in OfKind(st, "UserProfile") \cup {GhostUser}, NEW type
  PROVE  LET st1 == ApplyOp(st, SetComponent(u, "UserGdprState", "ErasurePending"))
             st2 == ApplyOp(st1, EmitEvent(type, u))
         IN  /\ GoodStore(st2, t) /\ Frame(st, st2)
             /\ st2.live = st.live /\ st2.events = Append(st.events, u)
             /\ u \in st.live => st2.comps[<<u, "UserGdprState">>] = "ErasurePending"
<1> DEFINE st1 == ApplyOp(st, SetComponent(u, "UserGdprState", "ErasurePending"))
           st2 == ApplyOp(st1, EmitEvent(type, u))
<1>1. /\ Frame(st, st1) /\ IsStore(st1) /\ KeysLive(st1) /\ Ticks(st1, t)
      /\ st1.live = st.live /\ st1.events = st.events
      /\ \A e \in st1.live : Whole(st1, e)
      /\ u \in st.live => st1.comps[<<u, "UserGdprState">>] = "ErasurePending"
      /\ \A v : v # u /\ <<v, "UserGdprState">> \in DOMAIN st.comps =>
           st1.comps[<<v, "UserGdprState">>] = st.comps[<<v, "UserGdprState">>]
  BY PointerFrame
<1> HIDE DEF st1
<1>2. /\ IsStore(st2) /\ st2.live = st1.live /\ st2.comps = st1.comps
      /\ st2.events = Append(st.events, u)
  BY <1>1, ApplyEmit
<1> HIDE DEF st2
<1>3. Frame(st1, st2)
  BY <1>2 DEF Frame
<1>4. KeysLive(st2) /\ Ticks(st2, t)
  BY <1>1, <1>2 DEF KeysLive, Ticks
<1>5. \A e \in st2.live : Whole(st2, e)
  BY <1>1, <1>2, <1>3, FrameWhole
<1>6. Pending(st2)
  <2>1. /\ \A i \in DOMAIN st.events : st.events[i] \in st.live \cup {GhostUser}
        /\ \A v \in OfKind(st, "UserProfile") :
             st.comps[<<v, "UserGdprState">>] # "Active"
               <=> \E i \in DOMAIN st.events : st.events[i] = v
    BY DEF GoodStore, Pending
  <2>2. IsSeq(st.events)
    BY DEF GoodStore, IsStore
  <2>3. /\ DOMAIN st.events = 1 .. Len(st.events)
        /\ DOMAIN st2.events = 1 .. Len(st.events) + 1 /\ Len(st.events) \in Nat
        /\ \A i \in 1 .. Len(st.events) : st2.events[i] = st.events[i]
        /\ st2.events[Len(st.events) + 1] = u
    BY <1>2, <2>2, SeqAppend
  <2>4. ASSUME NEW v \in OfKind(st, "UserProfile"), v # u
        PROVE  st2.comps[<<v, "UserGdprState">>] = st.comps[<<v, "UserGdprState">>]
    BY <1>1, <1>2, <2>4 DEF GoodStore, OfKind, Whole, UserWhole
  <2>5. ASSUME NEW v \in OfKind(st2, "UserProfile")
        PROVE  st2.comps[<<v, "UserGdprState">>] # "Active"
                 <=> \E i \in DOMAIN st2.events : st2.events[i] = v
    <3>1. v \in OfKind(st, "UserProfile")
      BY <1>1, <1>2, <2>5 DEF OfKind
    <3>2. CASE v = u
      <4>1. Len(st.events) + 1 \in DOMAIN st2.events
        BY <2>3
      <4> QED
        BY <1>1, <1>2, <2>3, <3>1, <3>2, <4>1 DEF OfKind
    <3>3. CASE v # u
      <4>1. (\E i \in DOMAIN st2.events : st2.events[i] = v)
              <=> \E i \in DOMAIN st.events : st.events[i] = v
        <5>1. DOMAIN st2.events = DOMAIN st.events \cup {Len(st.events) + 1}
          BY <2>3
        <5>2. \A i \in DOMAIN st.events : st2.events[i] = st.events[i]
          BY <2>3, Zenon
        <5> QED
          BY <2>3, <3>3, <5>1, <5>2, Zenon
      <4>2. st2.comps[<<v, "UserGdprState">>] = st.comps[<<v, "UserGdprState">>]
        BY <2>4, <3>1, <3>3
      <4>3. st.comps[<<v, "UserGdprState">>] # "Active"
              <=> \E i \in DOMAIN st.events : st.events[i] = v
        BY <2>1, <3>1, Zenon
      <4> QED
        BY <4>1, <4>2, <4>3, Zenon
    <3> QED
      BY <3>2, <3>3
  <2>6. \A i \in DOMAIN st2.events : st2.events[i] \in st2.live \cup {GhostUser}
    BY <1>1, <1>2, <2>1, <2>3 DEF OfKind
  <2> QED
    BY <2>5, <2>6 DEF Pending
<1>7. Frame(st, st2)
  BY <1>1, <1>3, FrameTransitive
<1> QED
  BY <1>1, <1>2, <1>4, <1>5, <1>6, <1>7 DEF GoodStore, st1, st2

(* Marking an erased user keeps the pointer and the event in agreement.    *)
LEMMA MarkGood ==
  ASSUME NEW st, NEW t \in Nat, GoodStore(st, t),
         NEW u \in OfKind(st, "UserProfile"),
         st.comps[<<u, "UserGdprState">>] = "ErasurePending"
  PROVE  LET st2 == ApplyOp(st, SetComponent(u, "UserGdprState", "Erased"))
         IN  GoodStore(st2, t) /\ Frame(st, st2) /\ st2.live = st.live
<1> DEFINE st2 == ApplyOp(st, SetComponent(u, "UserGdprState", "Erased"))
<1>1. /\ Frame(st, st2) /\ IsStore(st2) /\ KeysLive(st2) /\ Ticks(st2, t)
      /\ st2.live = st.live /\ st2.events = st.events
      /\ \A e \in st2.live : Whole(st2, e)
      /\ u \in st.live => st2.comps[<<u, "UserGdprState">>] = "Erased"
      /\ \A v : v # u /\ <<v, "UserGdprState">> \in DOMAIN st.comps =>
           st2.comps[<<v, "UserGdprState">>] = st.comps[<<v, "UserGdprState">>]
  BY PointerFrame
<1> HIDE DEF st2
<1>2. Pending(st2)
  <2>1. /\ \A i \in DOMAIN st.events : st.events[i] \in st.live \cup {GhostUser}
        /\ \A v \in OfKind(st, "UserProfile") :
             st.comps[<<v, "UserGdprState">>] # "Active"
               <=> \E i \in DOMAIN st.events : st.events[i] = v
    BY DEF GoodStore, Pending
  <2>2. ASSUME NEW v \in OfKind(st, "UserProfile")
        PROVE  st2.comps[<<v, "UserGdprState">>] # "Active"
                 <=> st.comps[<<v, "UserGdprState">>] # "Active"
    <3>1. v \in st.live /\ <<v, "UserGdprState">> \in DOMAIN st.comps
      BY DEF OfKind, GoodStore, Whole, UserWhole
    <3> QED
      BY <1>1, <3>1
  <2>3. OfKind(st2, "UserProfile") = OfKind(st, "UserProfile")
    BY <1>1 DEF OfKind
  <2> QED
    BY <1>1, <2>1, <2>2, <2>3 DEF Pending
<1> QED
  BY <1>1, <1>2 DEF GoodStore, st2

(* The empty store is good.                                                *)
LEMMA EmptyGood == GoodStore(EmptyStore, 0)
<1>1. IsSeq(<<>>)
  <2>1. <<>> \in Seq({})
    OBVIOUS
  <2> QED
    BY <2>1 DEF IsSeq
<1> QED
  BY <1>1 DEF GoodStore, EmptyStore, EmptyMap, IsStore, KeysLive, Ticks, Pending, OfKind

(* A store that is good at a tick is good at every later tick.             *)
LEMMA LaterGood ==
  ASSUME NEW st, NEW t \in Nat, GoodStore(st, t)
  PROVE  GoodStore(st, t + 1)
BY DEF GoodStore, Ticks

-----------------------------------------------------------------------------
(* The first of a set of numbers.                                          *)
LEMMA NatMin ==
  ASSUME NEW I, I \subseteq Nat, I # {}
  PROVE  Min(I) \in I
<1>1. PICK n \in I : \A m \in I : ~(m < n)
  <2>1. \E n \in I : \A m \in I : <<m, n>> \notin OpToRel(<, Nat)
    BY WFMin, NatLessThanWellFounded, Zenon
  <2> QED
    BY <2>1, Zenon DEF OpToRel
<1>2. \A m \in I : n <= m
  BY <1>1
<1> QED
  BY <1>2 DEF Min

(* A list of checks without an error passed every check.                   *)
LEMMA AllPassed ==
  ASSUME NEW checks, Len(checks) \in Nat, FirstError(checks) = "Ok"
  PROVE  \A i \in 1 .. Len(checks) : checks[i] = "Ok"
<1> DEFINE I == {i \in 1 .. Len(checks) : checks[i] # "Ok"}
<1>1. ASSUME I # {} PROVE FALSE
  <2>1. Min(I) \in I
    BY <1>1, NatMin
  <2>2. FirstError(checks) = checks[Min(I)]
    <3>1. SelectInSeq(checks, LAMBDA c : c # "Ok") = Min(I)
      BY <1>1 DEF SelectInSeq
    <3> HIDE DEF I
    <3>2. Min(I) # 0
      BY <2>1 DEF I
    <3> QED
      BY <3>1, <3>2 DEF FirstError
  <2> QED
    BY <2>1, <2>2
<1> QED
  BY <1>1

(* A derived id is unique, and shows the type, tick and number it was      *)
(* derived from.                                                           *)
LEMMA DerivedId ==
  ASSUME NEW type, NEW tick, NEW seq, NEW id \in DeriveEntityId(type, tick, seq)
  PROVE  /\ id[1] = type /\ id[2] = tick /\ id[3] = seq
         /\ DeriveEntityId(type, tick, seq) = {id}
<1> DEFINE B == {c \in 0 .. MaxIdDeriveRetries - 1 :
                   /\ <<tick, seq, c>> \notin ZeroDigests
                   /\ \A d \in 0 .. c - 1 : <<tick, seq, d>> \in ZeroDigests}
<1>1. \A b, c \in B : b = c
  <2> SUFFICES ASSUME NEW b \in B, NEW c \in B, b < c PROVE FALSE
    BY ContextAssumption
  <2>1. b \in 0 .. c - 1
    BY ContextAssumption
  <2> QED
    BY <2>1
<1>2. DeriveEntityId(type, tick, seq) = {<<type, tick, seq, b>> : b \in B}
  BY DEF DeriveEntityId
<1> HIDE DEF B
<1>3. PICK b \in B : id = <<type, tick, seq, b>>
  BY <1>2
<1>4. \A x \in DeriveEntityId(type, tick, seq) : x = id
  BY <1>1, <1>2, <1>3
<1> QED
  BY <1>3, <1>4

-----------------------------------------------------------------------------
(* Contexts, and what a compute does to them.                              *)
IsContext(c) ==
  /\ c = [tick |-> c.tick, caps |-> c.caps, actor |-> c.actor, idSeq |-> c.idSeq,
          eventSeq |-> c.eventSeq, events |-> c.events, ops |-> c.ops,
          view |-> c.view, keys |-> c.keys, handles |-> c.handles]
  /\ c.idSeq \in Nat /\ c.eventSeq \in Nat /\ IsSeq(c.events) /\ IsSeq(c.ops)

(* What a compute only reads.                                              *)
SameInputs(c, d) ==
  /\ d.tick = c.tick /\ d.caps = c.caps /\ d.actor = c.actor
  /\ d.view = c.view /\ d.keys = c.keys /\ d.handles = c.handles

(* A compute that wrote nothing: an id may be spent.                       *)
Idle(c, d) ==
  /\ IsContext(d) /\ SameInputs(c, d)
  /\ d.ops = c.ops /\ d.events = c.events /\ d.eventSeq = c.eventSeq
  /\ c.idSeq <= d.idSeq

(* A compute that wrote ops and emitted nothing.                           *)
Wrote(c, d, ops) ==
  /\ IsContext(d) /\ SameInputs(c, d)
  /\ d.ops = c.ops \o ops /\ d.events = c.events /\ d.eventSeq = c.eventSeq

(* A number taken from the sequence writes nothing.                        *)
LEMMA AdvanceIdle ==
  ASSUME NEW c, IsContext(c)
  PROVE  /\ Idle(c, Advance(c))
         /\ Advance(c).idSeq = IF c.idSeq = MaxIdSeq THEN c.idSeq ELSE c.idSeq + 1
<1>1. Advance(c) =
        [tick |-> c.tick, caps |-> c.caps, actor |-> c.actor,
         idSeq |-> IF c.idSeq = MaxIdSeq THEN c.idSeq ELSE c.idSeq + 1,
         eventSeq |-> c.eventSeq, events |-> c.events, ops |-> c.ops,
         view |-> c.view, keys |-> c.keys, handles |-> c.handles]
  BY DEF Advance, IsContext
<1>2. c.idSeq \in Nat
  BY DEF IsContext
<1> QED
  BY <1>1, <1>2 DEF Idle, IsContext, SameInputs

(* Operations pushed on a context are written behind those it has.         *)
LEMMA PushWrote ==
  ASSUME NEW c, IsContext(c), NEW ops, IsSeq(ops)
  PROVE  Wrote(c, PushOps(c, ops), ops) /\ PushOps(c, ops).idSeq = c.idSeq
<1>1. PushOps(c, ops) =
        [tick |-> c.tick, caps |-> c.caps, actor |-> c.actor, idSeq |-> c.idSeq,
         eventSeq |-> c.eventSeq, events |-> c.events, ops |-> c.ops \o ops,
         view |-> c.view, keys |-> c.keys, handles |-> c.handles]
  <2>1. PICK all : all = c.ops \o ops
    OBVIOUS
  <2>2. PushOps(c, ops) = [c EXCEPT !.ops = all]
    BY <2>1, Zenon DEF PushOps
  <2> QED
    BY <2>1, <2>2 DEF IsContext
<1>2. IsSeq(c.ops \o ops)
  BY SeqConcat DEF IsContext
<1> QED
  BY <1>1, <1>2 DEF Wrote, IsContext, SameInputs

(* emit_event stages the operation and records the event with its number   *)
(* and tick.                                                               *)
LEMMA EmitFacts ==
  ASSUME NEW c, IsContext(c), NEW type, NEW value
  PROVE  LET d == Emit(c, type, value)
         IN  /\ IsContext(d) /\ SameInputs(c, d) /\ d.idSeq = c.idSeq
             /\ d.ops = Append(c.ops, EmitEvent(type, value))
             /\ d.eventSeq = c.eventSeq + 1
             /\ d.events = Append(c.events, [type |-> type, value |-> value,
                                             sequence |-> c.eventSeq, tick |-> c.tick])
<1> DEFINE record == [type |-> type, value |-> value,
                      sequence |-> c.eventSeq, tick |-> c.tick]
<1>1. Emit(c, type, value) =
        [tick |-> c.tick, caps |-> c.caps, actor |-> c.actor, idSeq |-> c.idSeq,
         eventSeq |-> c.eventSeq + 1, events |-> Append(c.events, record),
         ops |-> Append(c.ops, EmitEvent(type, value)),
         view |-> c.view, keys |-> c.keys, handles |-> c.handles]
  <2>1. PICK all, records : /\ all = Append(c.ops, EmitEvent(type, value))
                            /\ records = Append(c.events, record)
    OBVIOUS
  <2>2. Emit(c, type, value) =
          [c EXCEPT !.events = records, !.eventSeq = c.eventSeq + 1, !.ops = all]
    BY <2>1, Zenon DEF Emit, IsContext
  <2> QED
    BY <2>1, <2>2 DEF IsContext
<1>2. IsSeq(Append(c.events, record)) /\ IsSeq(Append(c.ops, EmitEvent(type, value)))
  BY SeqAppend DEF IsContext
<1>3. c.eventSeq + 1 \in Nat
  BY DEF IsContext
<1> HIDE DEF record
<1>4. /\ IsContext(Emit(c, type, value)) /\ SameInputs(c, Emit(c, type, value))
      /\ Emit(c, type, value).idSeq = c.idSeq
      /\ Emit(c, type, value).ops = Append(c.ops, EmitEvent(type, value))
      /\ Emit(c, type, value).eventSeq = c.eventSeq + 1
      /\ Emit(c, type, value).events = Append(c.events, record)
  BY <1>1, <1>2, <1>3 DEF IsContext, SameInputs
<1> QED
  BY <1>4 DEF record

(***************************************************************************)
(* A spawning compute that succeeds wrote the entity under the next id and *)
(* its components, and all of its checks passed.                           *)
(***************************************************************************)
SetsOf(id, components) ==
  [i \in DOMAIN components |-> SetComponent(id, components[i][1], components[i][2])]

(* A spawn either is refused and writes nothing, or writes the entity and  *)
(* its components.                                                         *)
LEMMA SpawnAfterFacts ==
  ASSUME NEW c, IsContext(c), NEW checks, NEW type,
         NEW components, \A id : IsSeq(<<SpawnEntity(id)>> \o SetsOf(id, components))
  PROVE  LET r == SpawnAfter(c, checks, type, components)
         IN  \/ r.err # "Ok" /\ Idle(c, r.ctx)
             \/ /\ r.err = "Ok" /\ FirstError(checks) = "Ok"
                /\ \E id \in DeriveEntityId(type, c.tick, c.idSeq) :
                     /\ Wrote(c, r.ctx, <<SpawnEntity(id)>> \o SetsOf(id, components))
                     /\ r.ctx.idSeq = c.idSeq + 1
<1> DEFINE r == SpawnAfter(c, checks, type, components)
<1>1. CASE FirstError(checks) # "Ok"
  <2>1. r = Result(FirstError(checks), c)
    BY <1>1 DEF SpawnAfter
  <2>2. Idle(c, c)
    BY DEF Idle, SameInputs, IsContext
  <2> HIDE DEF r
  <2>3. r.err # "Ok" /\ Idle(c, r.ctx)
    BY <1>1, <2>1, <2>2 DEF Result
  <2> QED
    BY <2>3 DEF r
<1>2. CASE FirstError(checks) = "Ok" /\ NextId(c, type) = {}
  <2>1. r = Result("IdExhaustion", Advance(c))
    BY <1>2 DEF SpawnAfter
  <2> HIDE DEF r
  <2>2. r.err # "Ok" /\ Idle(c, r.ctx)
    BY <2>1, AdvanceIdle DEF Result
  <2> QED
    BY <2>2 DEF r
<1>3. CASE FirstError(checks) = "Ok" /\ NextId(c, type) # {}
  <2> DEFINE id == CHOOSE x \in NextId(c, type) : TRUE
             new == <<SpawnEntity(id)>> \o SetsOf(id, components)
  <2>1. r = Result("Ok", PushOps(Advance(c), new))
    BY <1>3 DEF SpawnAfter, SetsOf
  <2>2. id \in NextId(c, type)
    BY <1>3
  <2> HIDE DEF r, id
  <2>3. c.idSeq # MaxIdSeq /\ id \in DeriveEntityId(type, c.tick, c.idSeq)
    BY <2>2 DEF NextId
  <2>4. Idle(c, Advance(c)) /\ Advance(c).idSeq = c.idSeq + 1
    BY <2>3, AdvanceIdle
  <2>5. IsSeq(new)
    OBVIOUS
  <2> HIDE DEF new
  <2>6. /\ Wrote(Advance(c), PushOps(Advance(c), new), new)
        /\ PushOps(Advance(c), new).idSeq = c.idSeq + 1
    BY <2>4, <2>5, PushWrote DEF Idle
  <2>7. Wrote(c, PushOps(Advance(c), new), new)
    BY <2>4, <2>6 DEF Idle, Wrote, SameInputs
  <2>8. r.err = "Ok" /\ r.ctx = PushOps(Advance(c), new)
    BY <2>1 DEF Result
  <2> QED
    BY <1>3, <2>3, <2>6, <2>7, <2>8 DEF r, new
<1> QED
  BY <1>1, <1>2, <1>3

(***************************************************************************)
(* The operations of a spawn with one, two or three components.            *)
(***************************************************************************)
Spawn1(id, t1, v1) == <<SpawnEntity(id), SetComponent(id, t1, v1)>>

Spawn2(id, t1, v1, t2, v2) ==
  <<SpawnEntity(id), SetComponent(id, t1, v1), SetComponent(id, t2, v2)>>

Spawn3(id, t1, v1, t2, v2, t3, v3) ==
  <<SpawnEntity(id), SetComponent(id, t1, v1), SetComponent(id, t2, v2),
    SetComponent(id, t3, v3)>>

(* Sequences with the same elements are the same.                          *)
LEMMA SeqSame ==
  ASSUME NEW S, NEW s \in Seq(S), NEW t \in Seq(S), Len(s) = Len(t),
         \A i \in 1 .. Len(s) : s[i] = t[i]
  PROVE  s = t
OBVIOUS

(* A sequence of one, followed by one or two more.                         *)
LEMMA Consing ==
  ASSUME NEW x, NEW a, NEW b
  PROVE  /\ <<x>> \o <<a>> = <<x, a>>
         /\ <<x>> \o <<a, b>> = <<x, a, b>>
<1> DEFINE S == {x, a, b}
<1>1. <<x>> \o <<a>> = <<x, a>>
  <2>1. PICK s, t, u : /\ s = <<a>> /\ t = <<x>> \o s
                      /\ u = <<x, a>>
    OBVIOUS
  <2>2. s \in Seq(S) /\ Len(s) = 1 /\ s[1] = a
    BY <2>1
  <2>3. u \in Seq(S) /\ Len(u) = 2 /\ u[1] = x /\ u[2] = a
    BY <2>1
  <2>4. t \in Seq(S) /\ Len(t) = 2 /\ \A i \in 1 .. 2 : t[i] = u[i]
    BY <2>1, <2>2, <2>3
  <2> QED
    BY <2>1, <2>3, <2>4, SeqSame
<1>2. <<x>> \o <<a, b>> = <<x, a, b>>
  <2>1. PICK s, t, u : /\ s = <<a, b>> /\ t = <<x>> \o s
                      /\ u = <<x, a, b>>
    OBVIOUS
  <2>2. s \in Seq(S) /\ Len(s) = 2 /\ s[1] = a /\ s[2] = b
    BY <2>1
  <2>3. u \in Seq(S) /\ Len(u) = 3 /\ u[1] = x /\ u[2] = a /\ u[3] = b
    BY <2>1
  <2>4. t \in Seq(S) /\ Len(t) = 3 /\ \A i \in 1 .. 3 : t[i] = u[i]
    BY <2>1, <2>2, <2>3
  <2> QED
    BY <2>1, <2>3, <2>4, SeqSame
<1> QED
  BY <1>1, <1>2

(* A sequence of one, followed by three more.                              *)
LEMMA Consing3 ==
  ASSUME NEW x, NEW a, NEW b, NEW d
  PROVE  <<x>> \o <<a, b, d>> = <<x, a, b, d>>
<1> DEFINE S == {x, a, b, d}
<1>1. PICK s, t, u : /\ s = <<a, b, d>> /\ t = <<x>> \o s
                    /\ u = <<x, a, b, d>>
  OBVIOUS
<1>2. s \in Seq(S) /\ Len(s) = 3 /\ s[1] = a /\ s[2] = b /\ s[3] = d
  BY <1>1
<1>3. u \in Seq(S) /\ Len(u) = 4 /\ u[1] = x /\ u[2] = a /\ u[3] = b /\ u[4] = d
  BY <1>1
<1>4. t \in Seq(S) /\ Len(t) = 4 /\ \A i \in 1 .. 4 : t[i] = u[i]
  BY <1>1, <1>2, <1>3
<1> QED
  BY <1>1, <1>3, <1>4, SeqSame

(* An entity with one component is two operations.                         *)
LEMMA IsSpawn1 ==
  ASSUME NEW id, NEW t1, NEW v1
  PROVE  /\ <<SpawnEntity(id)>> \o SetsOf(id, << <<t1, v1>> >>) = Spawn1(id, t1, v1)
         /\ IsSeq(Spawn1(id, t1, v1))
<1>1. SetsOf(id, << <<t1, v1>> >>) = <<SetComponent(id, t1, v1)>>
  BY DEF SetsOf
<1>2. Spawn1(id, t1, v1) \in Seq({SpawnEntity(id), SetComponent(id, t1, v1)})
  BY DEF Spawn1
<1> QED
  <2>1. <<SpawnEntity(id)>> \o SetsOf(id, << <<t1, v1>> >>) = Spawn1(id, t1, v1)
    <3>1. PICK o, p : /\ o = SpawnEntity(id)
                      /\ p = SetComponent(id, t1, v1)
      OBVIOUS
    <3>2. <<o>> \o <<p>> = <<o, p>>
      BY Consing
    <3> QED
      BY <1>1, <3>1, <3>2 DEF Spawn1
  <2> QED
    BY <1>2, <2>1 DEF IsSeq

(* An entity with two components is three operations.                      *)
LEMMA IsSpawn2 ==
  ASSUME NEW id, NEW t1, NEW v1, NEW t2, NEW v2
  PROVE  /\ <<SpawnEntity(id)>> \o SetsOf(id, << <<t1, v1>>, <<t2, v2>> >>)
              = Spawn2(id, t1, v1, t2, v2)
         /\ IsSeq(Spawn2(id, t1, v1, t2, v2))
<1>1. SetsOf(id, << <<t1, v1>>, <<t2, v2>> >>)
        = <<SetComponent(id, t1, v1), SetComponent(id, t2, v2)>>
  BY DEF SetsOf
<1>2. Spawn2(id, t1, v1, t2, v2)
        \in Seq({SpawnEntity(id), SetComponent(id, t1, v1), SetComponent(id, t2, v2)})
  BY DEF Spawn2
<1> QED
  <2>1. <<SpawnEntity(id)>> \o SetsOf(id, << <<t1, v1>>, <<t2, v2>> >>) = Spawn2(id, t1, v1, t2, v2)
    <3>1. PICK o, p, q : /\ o = SpawnEntity(id)
                         /\ p = SetComponent(id, t1, v1)
                         /\ q = SetComponent(id, t2, v2)
      OBVIOUS
    <3>2. <<o>> \o <<p, q>> = <<o, p, q>>
      BY Consing
    <3> QED
      BY <1>1, <3>1, <3>2 DEF Spawn2
  <2> QED
    BY <1>2, <2>1 DEF IsSeq

(* An entity with three components is four operations.                     *)
LEMMA IsSpawn3 ==
  ASSUME NEW id, NEW t1, NEW v1, NEW t2, NEW v2, NEW t3, NEW v3
  PROVE  /\ <<SpawnEntity(id)>> \o SetsOf(id, << <<t1, v1>>, <<t2, v2>>, <<t3, v3>> >>)
              = Spawn3(id, t1, v1, t2, v2, t3, v3)
         /\ IsSeq(Spawn3(id, t1, v1, t2, v2, t3, v3))
<1>1. SetsOf(id, << <<t1, v1>>, <<t2, v2>>, <<t3, v3>> >>)
        = <<SetComponent(id, t1, v1), SetComponent(id, t2, v2),
            SetComponent(id, t3, v3)>>
  BY DEF SetsOf
<1>2. Spawn3(id, t1, v1, t2, v2, t3, v3)
        \in Seq({SpawnEntity(id), SetComponent(id, t1, v1), SetComponent(id, t2, v2),
                 SetComponent(id, t3, v3)})
  BY DEF Spawn3
<1> QED
  <2>1. <<SpawnEntity(id)>> \o SetsOf(id, << <<t1, v1>>, <<t2, v2>>, <<t3, v3>> >>) = Spawn3(id, t1, v1, t2, v2, t3, v3)
    <3>1. PICK o, p, q, r : /\ o = SpawnEntity(id)
                            /\ p = SetComponent(id, t1, v1)
                            /\ q = SetComponent(id, t2, v2)
                            /\ r = SetComponent(id, t3, v3)
      OBVIOUS
    <3>2. <<o>> \o <<p, q, r>> = <<o, p, q, r>>
      BY Consing3
    <3> QED
      BY <1>1, <3>1, <3>2 DEF Spawn3
  <2> QED
    BY <1>2, <2>1 DEF IsSeq

(* Written-out tuples are sequences.                                       *)
LEMMA ShortSeqs ==
  ASSUME NEW a, NEW b, NEW d
  PROVE  IsSeq(<<a>>) /\ IsSeq(<<a, b>>) /\ IsSeq(<<a, b, d>>)
<1> DEFINE S == {a, b, d}
<1>1. <<a>> \in Seq(S) /\ <<a, b>> \in Seq(S) /\ <<a, b, d>> \in Seq(S)
  OBVIOUS
<1> QED
  BY <1>1 DEF IsSeq

(* Two operations are applied in their order.                              *)
LEMMA ApplyTwo ==
  ASSUME NEW st, NEW x, NEW a
  PROVE  Apply(st, <<x, a>>) = ApplyOp(ApplyOp(st, x), a)
<1>1. <<x, a>> = <<x>> \o <<a>> /\ IsSeq(<<x>>) /\ IsSeq(<<a>>)
  BY Consing, ShortSeqs
<1>2. Apply(st, <<x>> \o <<a>>) = Apply(Apply(st, <<x>>), <<a>>)
  BY <1>1, ApplyConcat
<1> QED
  BY <1>1, <1>2, ApplyOne

(* Three operations are applied in their order.                            *)
LEMMA ApplyThree ==
  ASSUME NEW st, NEW x, NEW a, NEW b
  PROVE  Apply(st, <<x, a, b>>) = ApplyOp(ApplyOp(ApplyOp(st, x), a), b)
<1>1. <<x, a, b>> = <<x>> \o <<a, b>> /\ IsSeq(<<x>>) /\ IsSeq(<<a, b>>)
  BY Consing, ShortSeqs
<1>2. Apply(st, <<x>> \o <<a, b>>) = Apply(Apply(st, <<x>>), <<a, b>>)
  BY <1>1, ApplyConcat
<1>3. PICK s : s = ApplyOp(st, x) /\ Apply(st, <<x>>) = s
  BY ApplyOne
<1>4. Apply(s, <<a, b>>) = ApplyOp(ApplyOp(s, a), b)
  BY ApplyTwo
<1> QED
  BY <1>1, <1>2, <1>3, <1>4

(* Four operations are applied in their order.                             *)
LEMMA ApplyFour ==
  ASSUME NEW st, NEW x, NEW a, NEW b, NEW d
  PROVE  Apply(st, <<x, a, b, d>>)
           = ApplyOp(ApplyOp(ApplyOp(ApplyOp(st, x), a), b), d)
<1>1. <<x, a, b, d>> = <<x>> \o <<a, b, d>> /\ IsSeq(<<x>>) /\ IsSeq(<<a, b, d>>)
  BY Consing3, ShortSeqs
<1>2. Apply(st, <<x>> \o <<a, b, d>>) = Apply(Apply(st, <<x>>), <<a, b, d>>)
  BY <1>1, ApplyConcat
<1>3. PICK s : s = ApplyOp(st, x) /\ Apply(st, <<x>>) = s
  BY ApplyOne
<1>4. Apply(s, <<a, b, d>>) = ApplyOp(ApplyOp(ApplyOp(s, a), b), d)
  BY ApplyThree
<1> QED
  BY <1>1, <1>2, <1>3, <1>4

(* A new entity with one component has that component in the grown store.  *)
LEMMA Grown1 ==
  ASSUME NEW st, IsStore(st), KeysLive(st), NEW id, id \notin st.live, NEW t1, NEW v1
  PROVE  LET st2 == Apply(st, Spawn1(id, t1, v1))
         IN  /\ Grown(st, st2, id)
             /\ <<id, t1>> \in DOMAIN st2.comps /\ st2.comps[<<id, t1>>] = v1
<1> DEFINE s0 == ApplyOp(st, SpawnEntity(id))
           s1 == ApplyOp(s0, SetComponent(id, t1, v1))
<1>1. Grown(st, s0, id)
  BY GrownSpawn
<1> HIDE DEF s0
<1>2. /\ Grown(st, s1, id)
      /\ <<id, t1>> \in DOMAIN s1.comps /\ s1.comps[<<id, t1>>] = v1
  BY <1>1, GrownSet
<1>3. Apply(st, Spawn1(id, t1, v1)) = s1
  BY ApplyTwo DEF Spawn1, s0
<1> QED
  BY <1>2, <1>3

(* A new entity with two components has both in the grown store.           *)
LEMMA Grown2 ==
  ASSUME NEW st, IsStore(st), KeysLive(st), NEW id, id \notin st.live,
         NEW t1, NEW v1, NEW t2, NEW v2, t1 # t2
  PROVE  LET st2 == Apply(st, Spawn2(id, t1, v1, t2, v2))
         IN  /\ Grown(st, st2, id)
             /\ <<id, t1>> \in DOMAIN st2.comps /\ st2.comps[<<id, t1>>] = v1
             /\ <<id, t2>> \in DOMAIN st2.comps /\ st2.comps[<<id, t2>>] = v2
<1> DEFINE s1 == Apply(st, Spawn1(id, t1, v1))
           s2 == ApplyOp(s1, SetComponent(id, t2, v2))
<1>1. Apply(st, Spawn2(id, t1, v1, t2, v2)) = s2
  BY ApplyTwo, ApplyThree DEF Spawn1, Spawn2
<1>2. /\ Grown(st, s1, id)
      /\ <<id, t1>> \in DOMAIN s1.comps /\ s1.comps[<<id, t1>>] = v1
  BY Grown1
<1> HIDE DEF s1
<1>3. /\ Grown(st, s2, id)
      /\ <<id, t2>> \in DOMAIN s2.comps /\ s2.comps[<<id, t2>>] = v2
      /\ <<id, t1>> \in DOMAIN s2.comps /\ s2.comps[<<id, t1>>] = s1.comps[<<id, t1>>]
  BY <1>2, GrownSet
<1> QED
  BY <1>1, <1>2, <1>3

(* A new entity with three components has the last of them in the grown    *)
(* store.                                                                  *)
LEMMA Grown3 ==
  ASSUME NEW st, IsStore(st), KeysLive(st), NEW id, id \notin st.live,
         NEW t1, NEW v1, NEW t2, NEW v2, NEW t3, NEW v3, t1 # t2, t1 # t3, t2 # t3
  PROVE  LET st2 == Apply(st, Spawn3(id, t1, v1, t2, v2, t3, v3))
         IN  /\ Grown(st, st2, id)
             /\ <<id, t3>> \in DOMAIN st2.comps /\ st2.comps[<<id, t3>>] = v3
<1> DEFINE s2 == Apply(st, Spawn2(id, t1, v1, t2, v2))
           s3 == ApplyOp(s2, SetComponent(id, t3, v3))
<1>1. Apply(st, Spawn3(id, t1, v1, t2, v2, t3, v3)) = s3
  BY ApplyThree, ApplyFour DEF Spawn2, Spawn3
<1>2. Grown(st, s2, id)
  BY Grown2
<1> HIDE DEF s2
<1>3. /\ Grown(st, s3, id)
      /\ <<id, t3>> \in DOMAIN s3.comps /\ s3.comps[<<id, t3>>] = v3
  BY <1>2, GrownSet
<1> QED
  BY <1>1, <1>3

-----------------------------------------------------------------------------
(* What each action writes when it is accepted on a context.               *)
Derived(c, type) == DeriveEntityId(type, c.tick, c.idSeq)

UserOps(id) ==
  Spawn3(id, "UserProfile", "profile", "AuthCredential", "credential",
         "UserGdprState", "Active")

ActorOps(id, a) == Spawn2(id, "ActorProfile", a.handle, "UserBinding", a.user)

EraseOps(u) ==
  <<SetComponent(u, "UserGdprState", "ErasurePending"),
    EmitEvent("UserErasureScheduled", u)>>

ActivityOps(id, c, a) ==
  Spawn1(id, "ActivityRecord", [actors |-> c.actor, target |-> a.target])

SpaceOps(id, c, a, depth) ==
  Spawn2(id, "SpaceConfig", [actors |-> c.actor, parent |-> a.parent],
         "ParentChainDepth", depth)

Spawns(c, a, d, ops) ==
  /\ Wrote(c, d, ops) /\ d.idSeq = c.idSeq + 1
  /\ \/ /\ a.kind = "RegisterUser"
        /\ \E id \in Derived(c, "UserProfile") : ops = UserOps(id)
     \/ /\ a.kind = "RegisterActor" /\ ActorByHandle(c, a.handle) = {}
        /\ \E id \in Derived(c, "ActorProfile") : ops = ActorOps(id, a)
     \/ /\ a.kind = "SubmitActivity" /\ EnsureActor(c) = "Ok"
        /\ \A k \in a.key : IdempotencyLookup(c, k) = {}
        /\ \E id \in Derived(c, "ActivityRecord") :
             a.target # {id} /\ ops = ActivityOps(id, c, a)
     \/ /\ a.kind = "CreateSpace" /\ EnsureActor(c) = "Ok"
        /\ \E depth \in ChildDepth(c, a), id \in Derived(c, "SpaceConfig") :
             ~(depth > MaxSpaceDepth) /\ ops = SpaceOps(id, c, a, depth)

Erases(c, a, d, ops) ==
  /\ a.kind = "GdprEraseUser" /\ ops = EraseOps(a.user)
  /\ IsContext(d) /\ SameInputs(c, d) /\ d.idSeq = c.idSeq
  /\ d.ops = c.ops \o ops /\ d.eventSeq = c.eventSeq + 1
  /\ d.events = Append(c.events, [type |-> "UserErasureScheduled", value |-> a.user,
                                  sequence |-> c.eventSeq, tick |-> c.tick])

Accepted(c, a, d, ops) ==
  \/ Spawns(c, a, d, ops)
  \/ Erases(c, a, d, ops)
  \/ a.kind = "RetractActivity" /\ d = c /\ ops = <<>>

Refused(c, r) == r.err # "Ok" /\ Idle(c, r.ctx)

(* A spawn that was not refused passed its checks and wrote a derived      *)
(* entity.                                                                 *)
LEMMA SpawnPassed ==
  ASSUME NEW c, IsContext(c), NEW checks, Len(checks) \in Nat, NEW type,
         NEW components, \A id : IsSeq(<<SpawnEntity(id)>> \o SetsOf(id, components)),
         ~Refused(c, SpawnAfter(c, checks, type, components))
  PROVE  LET r == SpawnAfter(c, checks, type, components)
         IN  /\ r.err = "Ok" /\ \A i \in 1 .. Len(checks) : checks[i] = "Ok"
             /\ \E id \in Derived(c, type) :
                  /\ Wrote(c, r.ctx, <<SpawnEntity(id)>> \o SetsOf(id, components))
                  /\ r.ctx.idSeq = c.idSeq + 1
BY SpawnAfterFacts, AllPassed DEF Refused, Derived

(* An accepted RegisterUser is the spawn of a user, and no event.          *)
LEMMA RegisterUserFacts ==
  ASSUME NEW c, IsContext(c), NEW a, a.kind = "RegisterUser",
         ~Refused(c, RegisterUser(c, a))
  PROVE  LET r == RegisterUser(c, a)
         IN  r.err = "Ok" /\ \E ops : Spawns(c, a, r.ctx, ops)
<1> DEFINE checks == << EnsureSchemaVersion(a.version),
                        FailIf(~ValidateKdfParams(a.kdf, a.params), "InvalidInput") >>
           components == << <<"UserProfile", "profile">>,
                            <<"AuthCredential", "credential">>,
                            <<"UserGdprState", "Active">> >>
           r == SpawnAfter(c, checks, "UserProfile", components)
<1>1. RegisterUser(c, a) = r
  BY DEF RegisterUser
<1>2. Len(checks) \in Nat
  OBVIOUS
<1>3. \A id : /\ <<SpawnEntity(id)>> \o SetsOf(id, components) = UserOps(id)
              /\ IsSeq(<<SpawnEntity(id)>> \o SetsOf(id, components))
  <2> SUFFICES ASSUME NEW id
               PROVE  /\ <<SpawnEntity(id)>> \o SetsOf(id, components) = UserOps(id)
                      /\ IsSeq(UserOps(id))
    BY Zenon
  <2> QED
    BY IsSpawn3, Zenon DEF UserOps
<1> HIDE DEF checks, components
<1>4. /\ r.err = "Ok"
      /\ \E id \in Derived(c, "UserProfile") :
           /\ Wrote(c, r.ctx, <<SpawnEntity(id)>> \o SetsOf(id, components))
           /\ r.ctx.idSeq = c.idSeq + 1
  BY <1>1, <1>2, <1>3, SpawnPassed
<1> HIDE DEF r
<1> QED
  BY <1>1, <1>3, <1>4 DEF Spawns

(* An accepted RegisterActor is the spawn of an actor of a user it may be  *)
(* bound to.                                                               *)
LEMMA RegisterActorFacts ==
  ASSUME NEW c, IsContext(c), NEW a, a.kind = "RegisterActor",
         ~Refused(c, RegisterActor(c, a))
  PROVE  LET r == RegisterActor(c, a)
         IN  r.err = "Ok" /\ \E ops : Spawns(c, a, r.ctx, ops)
<1> DEFINE checks == << EnsureSchemaVersion(a.version),
                        FailIf(ActorByHandle(c, a.handle) # {}, "ActorHandleCollision") >>
           components == << <<"ActorProfile", a.handle>>, <<"UserBinding", a.user>> >>
           r == SpawnAfter(c, checks, "ActorProfile", components)
<1>1. RegisterActor(c, a) = r
  BY DEF RegisterActor
<1>2. Len(checks) = 2
  OBVIOUS
<1>3. \A id : /\ <<SpawnEntity(id)>> \o SetsOf(id, components) = ActorOps(id, a)
              /\ IsSeq(<<SpawnEntity(id)>> \o SetsOf(id, components))
  <2> SUFFICES ASSUME NEW id
               PROVE  /\ <<SpawnEntity(id)>> \o SetsOf(id, components) = ActorOps(id, a)
                      /\ IsSeq(ActorOps(id, a))
    BY Zenon
  <2> QED
    BY IsSpawn2, Zenon DEF ActorOps
<1>4. checks[2] = "Ok" => ActorByHandle(c, a.handle) = {}
  BY DEF FailIf
<1> HIDE DEF checks, components
<1>5. /\ r.err = "Ok" /\ \A i \in 1 .. Len(checks) : checks[i] = "Ok"
      /\ \E id \in Derived(c, "ActorProfile") :
           /\ Wrote(c, r.ctx, <<SpawnEntity(id)>> \o SetsOf(id, components))
           /\ r.ctx.idSeq = c.idSeq + 1
  BY <1>1, <1>2, <1>3, SpawnPassed
<1>6. ActorByHandle(c, a.handle) = {}
  BY <1>2, <1>4, <1>5
<1> HIDE DEF r
<1>7. PICK id \in Derived(c, "ActorProfile") :
        Wrote(c, r.ctx, ActorOps(id, a)) /\ r.ctx.idSeq = c.idSeq + 1
  BY <1>3, <1>5
<1>8. Spawns(c, a, r.ctx, ActorOps(id, a))
  BY <1>6, <1>7 DEF Spawns
<1> QED
  BY <1>1, <1>5, <1>8

(* An accepted SubmitActivity is the spawn of a record of its actor, a new *)
(* key or none.                                                            *)
LEMMA SubmitActivityFacts ==
  ASSUME NEW c, IsContext(c), NEW a, a.kind = "SubmitActivity",
         ~Refused(c, SubmitActivity(c, a))
  PROVE  LET r == SubmitActivity(c, a)
         IN  r.err = "Ok" /\ \E ops : Spawns(c, a, r.ctx, ops)
<1> DEFINE predicted == PreviewNextId(c, "ActivityRecord")
           checks == << EnsureSchemaVersion(a.version), EnsureActor(c),
                        FailIf(\E k \in a.key : IdempotencyLookup(c, k) # {},
                               "IdempotencyConflict"),
                        FailIf(predicted = {}, "IdExhaustion"),
                        FailIf(a.target = predicted, "InvalidInput") >>
           components ==
             << <<"ActivityRecord", [actors |-> c.actor, target |-> a.target]>> >>
           r == SpawnAfter(c, checks, "ActivityRecord", components)
<1>1. SubmitActivity(c, a) = r
  BY DEF SubmitActivity
<1>2. Len(checks) = 5
  OBVIOUS
<1>3. \A id : /\ <<SpawnEntity(id)>> \o SetsOf(id, components) = ActivityOps(id, c, a)
              /\ IsSeq(<<SpawnEntity(id)>> \o SetsOf(id, components))
  <2> SUFFICES ASSUME NEW id
               PROVE  /\ <<SpawnEntity(id)>> \o SetsOf(id, components)
                           = ActivityOps(id, c, a)
                      /\ IsSeq(ActivityOps(id, c, a))
    BY Zenon
  <2> QED
    BY IsSpawn1, Zenon DEF ActivityOps
<1>4. /\ checks[2] = EnsureActor(c)
      /\ checks[3] = "Ok" => \A k \in a.key : IdempotencyLookup(c, k) = {}
      /\ checks[5] = "Ok" => a.target # predicted
  BY DEF FailIf
<1> HIDE DEF checks, components
<1>0. ~Refused(c, r) /\ Len(checks) \in Nat
  <2>1. Len(checks) \in Nat
    BY <1>2
  <2> HIDE DEF r
  <2> QED
    BY <1>1, <2>1
<1>5. /\ r.err = "Ok" /\ \A i \in 1 .. Len(checks) : checks[i] = "Ok"
      /\ \E id \in Derived(c, "ActivityRecord") :
           /\ Wrote(c, r.ctx, <<SpawnEntity(id)>> \o SetsOf(id, components))
           /\ r.ctx.idSeq = c.idSeq + 1
  BY <1>0, <1>3, SpawnPassed
<1>6. /\ EnsureActor(c) = "Ok" /\ a.target # predicted
      /\ \A k \in a.key : IdempotencyLookup(c, k) = {}
  <2>1. 2 \in 1 .. Len(checks) /\ 3 \in 1 .. Len(checks) /\ 5 \in 1 .. Len(checks)
    BY <1>2
  <2>2. checks[2] = "Ok" /\ checks[3] = "Ok" /\ checks[5] = "Ok"
    BY <1>5, <2>1
  <2> QED
    BY <1>4, <2>2
<1> HIDE DEF r
<1>7. PICK id \in Derived(c, "ActivityRecord") :
        Wrote(c, r.ctx, ActivityOps(id, c, a)) /\ r.ctx.idSeq = c.idSeq + 1
  BY <1>3, <1>5
<1>8. predicted = {id}
  BY <1>7, DerivedId DEF Derived, PreviewNextId
<1> HIDE DEF predicted
<1>9. Spawns(c, a, r.ctx, ActivityOps(id, c, a))
  BY <1>6, <1>7, <1>8 DEF Spawns
<1> QED
  BY <1>1, <1>5, <1>9

(* An accepted CreateSpace is the spawn of a space one below its parent.   *)
LEMMA CreateSpaceFacts ==
  ASSUME NEW c, IsContext(c), NEW a, a.kind = "CreateSpace",
         ~Refused(c, CreateSpace(c, a))
  PROVE  LET r == CreateSpace(c, a)
         IN  r.err = "Ok" /\ \E ops : Spawns(c, a, r.ctx, ops)
<1> DEFINE depths == ChildDepth(c, a)
           depth == CHOOSE d \in depths : TRUE
           checks == << EnsureSchemaVersion(a.version), EnsureActor(c),
                        FailIf(depths = {}, "InvalidInput"),
                        FailIf(\E d \in depths : d > MaxSpaceDepth, "InvalidInput") >>
           components ==
             << <<"SpaceConfig", [actors |-> c.actor, parent |-> a.parent]>>,
                <<"ParentChainDepth", depth>> >>
           r == SpawnAfter(c, checks, "SpaceConfig", components)
<1>1. CreateSpace(c, a) = r
  BY DEF CreateSpace
<1>2. Len(checks) = 4
  OBVIOUS
<1>3. \A id : /\ <<SpawnEntity(id)>> \o SetsOf(id, components) = SpaceOps(id, c, a, depth)
              /\ IsSeq(<<SpawnEntity(id)>> \o SetsOf(id, components))
  <2> HIDE DEF depth
  <2> SUFFICES ASSUME NEW id
               PROVE  /\ <<SpawnEntity(id)>> \o SetsOf(id, components)
                           = SpaceOps(id, c, a, depth)
                      /\ IsSeq(SpaceOps(id, c, a, depth))
    BY Zenon
  <2> QED
    BY IsSpawn2, Zenon DEF SpaceOps
<1>4. /\ checks[2] = EnsureActor(c)
      /\ checks[3] = "Ok" => depths # {}
      /\ checks[4] = "Ok" => \A d \in depths : ~(d > MaxSpaceDepth)
  BY DEF FailIf
<1> HIDE DEF checks, components
<1>0. ~Refused(c, r) /\ Len(checks) \in Nat
  <2>1. Len(checks) \in Nat
    BY <1>2
  <2> HIDE DEF r
  <2> QED
    BY <1>1, <2>1
<1>5. /\ r.err = "Ok" /\ \A i \in 1 .. Len(checks) : checks[i] = "Ok"
      /\ \E id \in Derived(c, "SpaceConfig") :
           /\ Wrote(c, r.ctx, <<SpawnEntity(id)>> \o SetsOf(id, components))
           /\ r.ctx.idSeq = c.idSeq + 1
  BY <1>0, <1>3, SpawnPassed
<1>6. /\ EnsureActor(c) = "Ok" /\ depths # {}
      /\ \A d \in depths : ~(d > MaxSpaceDepth)
  <2>1. 2 \in 1 .. Len(checks) /\ 3 \in 1 .. Len(checks) /\ 4 \in 1 .. Len(checks)
    BY <1>2
  <2>2. checks[2] = "Ok" /\ checks[3] = "Ok" /\ checks[4] = "Ok"
    BY <1>5, <2>1
  <2> QED
    BY <1>4, <2>2
<1>7. depth \in depths
  BY <1>6
<1> HIDE DEF r, depth, depths
<1>8. PICK id \in Derived(c, "SpaceConfig") :
        Wrote(c, r.ctx, SpaceOps(id, c, a, depth)) /\ r.ctx.idSeq = c.idSeq + 1
  BY <1>3, <1>5
<1>9. Spawns(c, a, r.ctx, SpaceOps(id, c, a, depth))
  BY <1>6, <1>7, <1>8 DEF Spawns, depths
<1> QED
  BY <1>1, <1>5, <1>9

(* An accepted GdprEraseUser is the pointer and the event of one user, not *)
(* yet erased.                                                             *)
LEMMA GdprEraseUserFacts ==
  ASSUME NEW c, IsContext(c), NEW a, a.kind = "GdprEraseUser",
         ~Refused(c, GdprEraseUser(c, a))
  PROVE  LET r == GdprEraseUser(c, a)
         IN  r.err = "Ok" /\ \E ops : Erases(c, a, r.ctx, ops)
<1> DEFINE write == SetComponent(a.user, "UserGdprState", "ErasurePending")
           d == PushOps(c, <<write>>)
           r == GdprEraseUser(c, a)
           event == EmitEvent("UserErasureScheduled", a.user)
<1>1. EnsureSchemaVersion(a.version) = "Ok"
  <2>1. Idle(c, c)
    BY DEF Idle, SameInputs, IsContext
  <2>2. EnsureSchemaVersion(a.version) # "Ok" => r = Result("SchemaMismatch", c)
    BY DEF GdprEraseUser
  <2> QED
    BY <2>1, <2>2 DEF Refused, Result
<1>2. r = Result("Ok", Emit(d, "UserErasureScheduled", a.user))
  BY <1>1 DEF GdprEraseUser
<1> HIDE DEF r
<1>3. IsSeq(<<write>>)
  BY ShortSeqs
<1>4. Wrote(c, d, <<write>>) /\ d.idSeq = c.idSeq
  BY <1>3, PushWrote
<1> HIDE DEF d
<1>5. LET e == Emit(d, "UserErasureScheduled", a.user)
      IN  /\ IsContext(e) /\ SameInputs(d, e) /\ e.idSeq = d.idSeq
          /\ e.ops = Append(d.ops, event)
          /\ e.eventSeq = d.eventSeq + 1
          /\ e.events = Append(d.events, [type |-> "UserErasureScheduled",
                                          value |-> a.user,
                                          sequence |-> d.eventSeq, tick |-> d.tick])
  BY <1>4, EmitFacts DEF Wrote
<1>6. Append(c.ops \o <<write>>, event) = c.ops \o <<write, event>>
  <2> HIDE DEF write, event
  <2>1. PICK T : c.ops \in Seq(T)
    BY DEF IsContext, IsSeq
  <2>2. c.ops \in Seq(T \cup {write, event}) /\ <<write>> \in Seq(T \cup {write, event})
        /\ <<write, event>> \in Seq(T \cup {write, event})
    BY <2>1
  <2>3. Append(c.ops \o <<write>>, event) \in Seq(T \cup {write, event})
    BY <2>2
  <2>4. c.ops \o <<write, event>> \in Seq(T \cup {write, event})
    BY <2>2
  <2>5. Len(Append(c.ops \o <<write>>, event)) = Len(c.ops) + 2
        /\ Len(c.ops \o <<write, event>>) = Len(c.ops) + 2 /\ Len(c.ops) \in Nat
    BY <2>2
  <2>6. \A i \in 1 .. Len(c.ops) + 2 :
          Append(c.ops \o <<write>>, event)[i] = (c.ops \o <<write, event>>)[i]
    BY <2>2
  <2> QED
    BY <2>3, <2>4, <2>5, <2>6, SeqSame
<1>7. r.ctx = Emit(d, "UserErasureScheduled", a.user) /\ r.err = "Ok"
  BY <1>2 DEF Result
<1>8. r.ctx.ops = c.ops \o EraseOps(a.user)
  BY <1>4, <1>5, <1>6, <1>7 DEF Wrote, EraseOps
<1>9. Erases(c, a, r.ctx, EraseOps(a.user))
  BY <1>4, <1>5, <1>7, <1>8 DEF Erases, Wrote, SameInputs
<1> QED
  BY <1>7, <1>9 DEF r

Kinds == {"RegisterUser", "RegisterActor", "GdprEraseUser", "SubmitActivity",
          "RetractActivity", "CreateSpace"}

(***************************************************************************)
(* A compute is refused and wrote nothing, or accepted and wrote all.      *)
(***************************************************************************)
LEMMA ComputeFacts ==
  ASSUME NEW c, IsContext(c), NEW a, a.kind \in Kinds
  PROVE  \/ Refused(c, Compute(c, a))
         \/ /\ Compute(c, a).err = "Ok"
            /\ \E ops : Accepted(c, a, Compute(c, a).ctx, ops)
<1> SUFFICES ASSUME ~Refused(c, Compute(c, a))
             PROVE  /\ Compute(c, a).err = "Ok"
                    /\ \E ops : Accepted(c, a, Compute(c, a).ctx, ops)
  OBVIOUS
<1>1. CASE a.kind = "RegisterUser"
  <2>1. Compute(c, a) = RegisterUser(c, a)
    BY <1>1 DEF Compute
  <2> QED
    BY <1>1, <2>1, RegisterUserFacts DEF Accepted
<1>2. CASE a.kind = "RegisterActor"
  <2>1. Compute(c, a) = RegisterActor(c, a)
    BY <1>2 DEF Compute
  <2> QED
    BY <1>2, <2>1, RegisterActorFacts DEF Accepted
<1>3. CASE a.kind = "GdprEraseUser"
  <2>1. Compute(c, a) = GdprEraseUser(c, a)
    BY <1>3 DEF Compute
  <2> QED
    BY <1>3, <2>1, GdprEraseUserFacts DEF Accepted
<1>4. CASE a.kind = "SubmitActivity"
  <2>1. Compute(c, a) = SubmitActivity(c, a)
    BY <1>4 DEF Compute
  <2> QED
    BY <1>4, <2>1, SubmitActivityFacts DEF Accepted
<1>5. CASE a.kind = "RetractActivity"
  <2>1. Compute(c, a) = Result(EnsureSchemaVersion(a.version), c)
    BY <1>5 DEF Compute, RetractActivity
  <2>2. Idle(c, c)
    BY DEF Idle, SameInputs, IsContext
  <2>3. Compute(c, a).ctx = c /\ Compute(c, a).err = EnsureSchemaVersion(a.version)
    BY <2>1 DEF Result
  <2>4. Compute(c, a).err = "Ok"
    BY <2>2, <2>3 DEF Refused
  <2>5. Accepted(c, a, c, <<>>)
    BY <1>5 DEF Accepted
  <2> QED
    BY <2>3, <2>4, <2>5
<1>6. CASE a.kind = "CreateSpace"
  <2>1. Compute(c, a) = CreateSpace(c, a)
    BY <1>6 DEF Compute
  <2> QED
    BY <1>6, <2>1, CreateSpaceFacts DEF Accepted
<1> QED
  BY <1>1, <1>2, <1>3, <1>4, <1>5, <1>6 DEF Kinds

-----------------------------------------------------------------------------
(* What the operations of an accepted action do to the store.              *)
LEMMA SpawnWrites ==
  /\ \A id : SpawnEntity(id).op = "SpawnEntity" /\ SpawnEntity(id).entity = id
  /\ \A id, t, v : SetComponent(id, t, v).op # "SpawnEntity"
BY DEF SpawnEntity, SetComponent

(* A spawn with one component spawns its entity, first.                    *)
LEMMA SpawnedBy1 ==
  ASSUME NEW id, NEW t1, NEW v1
  PROVE  SpawnsIn(Spawn1(id, t1, v1)) = {1} /\ Spawned(Spawn1(id, t1, v1)) = {id}
<1>1. /\ SpawnsIn(Spawn1(id, t1, v1)) = {1}
      /\ Spawn1(id, t1, v1)[1] = SpawnEntity(id)
  BY SpawnWrites DEF SpawnsIn, Spawn1
<1> QED
  BY <1>1, SpawnWrites DEF Spawned

(* A spawn with two components spawns its entity, first.                   *)
LEMMA SpawnedBy2 ==
  ASSUME NEW id, NEW t1, NEW v1, NEW t2, NEW v2
  PROVE  SpawnsIn(Spawn2(id, t1, v1, t2, v2)) = {1} /\ Spawned(Spawn2(id, t1, v1, t2, v2)) = {id}
<1>1. /\ SpawnsIn(Spawn2(id, t1, v1, t2, v2)) = {1}
      /\ Spawn2(id, t1, v1, t2, v2)[1] = SpawnEntity(id)
  BY SpawnWrites DEF SpawnsIn, Spawn2
<1> QED
  BY <1>1, SpawnWrites DEF Spawned

(* A spawn with three components spawns its entity, first.                 *)
LEMMA SpawnedBy3 ==
  ASSUME NEW id, NEW t1, NEW v1, NEW t2, NEW v2, NEW t3, NEW v3
  PROVE  SpawnsIn(Spawn3(id, t1, v1, t2, v2, t3, v3)) = {1} /\ Spawned(Spawn3(id, t1, v1, t2, v2, t3, v3)) = {id}
<1>1. /\ SpawnsIn(Spawn3(id, t1, v1, t2, v2, t3, v3)) = {1}
      /\ Spawn3(id, t1, v1, t2, v2, t3, v3)[1] = SpawnEntity(id)
  BY SpawnWrites DEF SpawnsIn, Spawn3
<1> QED
  BY <1>1, SpawnWrites DEF Spawned

(* Neither an empty list nor an erasure spawns anything.                   *)
LEMMA NoSpawns ==
  /\ SpawnsIn(<<>>) = {} /\ Spawned(<<>>) = {}
  /\ \A u : SpawnsIn(EraseOps(u)) = {} /\ Spawned(EraseOps(u)) = {}
BY DEF SpawnsIn, Spawned, EraseOps, SetComponent, EmitEvent

(***************************************************************************)
(* The context sees of the store what an action relies on.                 *)
(***************************************************************************)
Coherent(c, a, st) ==
  /\ \A e \in st.live : e[2] = c.tick => e[3] < c.idSeq
  /\ c.actor # {} => \E x : c.actor = {x}
  /\ a.kind \in {"RegisterActor", "GdprEraseUser"} =>
       a.user \in OfKind(st, "UserProfile") \cup {GhostUser}
  /\ a.kind = "CreateSpace" =>
       /\ \A p, q \in a.parent : p = q
       /\ \A p \in a.parent : /\ p \in OfKind(st, "SpaceConfig")
                              /\ <<p, "ParentChainDepth">> \in DOMAIN c.view =>
                                   c.view[<<p, "ParentChainDepth">>]
                                     = st.comps[<<p, "ParentChainDepth">>]

(* An id derived from the tick and the number of a context is not in the   *)
(* store it works on.                                                      *)
LEMMA FreshId ==
  ASSUME NEW c, IsContext(c), NEW a, NEW st, Coherent(c, a, st),
         NEW type, NEW id \in Derived(c, type)
  PROVE  /\ id \notin st.live /\ id[1] = type /\ id[2] = c.tick /\ id[3] = c.idSeq
BY DerivedId DEF Derived, Coherent, IsContext

Effect(c, a, st, ops, t) ==
  LET st2 == Apply(st, ops)
  IN  /\ GoodStore(st2, t) /\ Frame(st, st2)
      /\ st2.live = st.live \cup Spawned(ops)
      /\ Spawned(ops) \cap st.live = {}
      /\ SpawnsIn(ops) \in {{}, {1}}
      /\ \A x \in Spawned(ops) : x[2] = c.tick /\ x[3] = c.idSeq
      /\ \A x \in Spawned(ops) : x[1] = "ActorProfile" =>
           a.kind = "RegisterActor" /\ st2.comps[<<x, "ActorProfile">>] = a.handle

Written(a, st, st2, ops, id) ==
  /\ SpawnsIn(ops) = {1} /\ Spawned(ops) = {id}
  /\ Grown(st, st2, id) /\ Whole(st2, id)
  /\ id[1] = "UserProfile" => st2.comps[<<id, "UserGdprState">>] = "Active"
  /\ id[1] = "ActorProfile" => /\ a.kind = "RegisterActor"
                               /\ st2.comps[<<id, "ActorProfile">>] = a.handle

(* The spawn of a whole entity has the effect its action declares.         *)
LEMMA SpawnEffect ==
  ASSUME NEW c, IsContext(c), NEW a, NEW st, Coherent(c, a, st), NEW ops,
         NEW t \in Nat, GoodStore(st, t), c.tick \in 1 .. t,
         NEW type, NEW id \in Derived(c, type),
         Written(a, st, Apply(st, ops), ops, id)
  PROVE  Effect(c, a, st, ops, t) /\ Apply(st, ops).events = st.events
<1>1. id \notin st.live /\ id[1] = type /\ id[2] = c.tick /\ id[3] = c.idSeq
  BY FreshId
<1>2. GoodStore(Apply(st, ops), t) /\ Frame(st, Apply(st, ops))
  BY <1>1, GrownGood DEF Written
<1> QED
  BY <1>1, <1>2 DEF Effect, Grown, Written

(* A context that passed ensure_actor has one actor.                       *)
LEMMA OneActor ==
  ASSUME NEW c, NEW a, NEW st, Coherent(c, a, st), EnsureActor(c) = "Ok"
  PROVE  Cardinality(c.actor) = 1
<1>1. c.actor # {}
  BY DEF EnsureActor
<1>2. PICK x : c.actor = {x}
  BY <1>1 DEF Coherent
<1> QED
  BY <1>2, FS_Singleton

(* What RegisterUser writes is a whole, active user.                       *)
LEMMA RegisterUserEffect ==
  ASSUME NEW c, IsContext(c), NEW a, a.kind = "RegisterUser",
         NEW st, Coherent(c, a, st), NEW t \in Nat, GoodStore(st, t), c.tick \in 1 .. t,
         NEW id \in Derived(c, "UserProfile")
  PROVE  /\ Effect(c, a, st, UserOps(id), t)
         /\ Apply(st, UserOps(id)).events = st.events
<1> DEFINE ops == UserOps(id)
           st2 == Apply(st, ops)
<1>1. id \notin st.live /\ id[1] = "UserProfile"
  BY FreshId
<1>2. SpawnsIn(ops) = {1} /\ Spawned(ops) = {id}
  BY SpawnedBy3 DEF UserOps
<1>3. /\ Grown(st, st2, id) /\ <<id, "UserGdprState">> \in DOMAIN st2.comps
      /\ st2.comps[<<id, "UserGdprState">>] = "Active"
  <2>1. IsStore(st) /\ KeysLive(st)
    BY DEF GoodStore
  <2> QED
    BY <1>1, <2>1, Grown3 DEF UserOps
<1> HIDE DEF ops, st2
<1>4. Whole(st2, id)
  BY <1>1, <1>3 DEF Whole, UserWhole
<1>5. Effect(c, a, st, ops, t) /\ Apply(st, ops).events = st.events
  <2>1. Written(a, st, st2, ops, id)
    BY <1>1, <1>2, <1>3, <1>4 DEF Written
  <2> QED
    BY <2>1, SpawnEffect DEF st2
<1> QED
  BY <1>5 DEF ops

(* What RegisterActor writes is an actor bound to a registered user.       *)
LEMMA RegisterActorEffect ==
  ASSUME NEW c, IsContext(c), NEW a, a.kind = "RegisterActor",
         NEW st, Coherent(c, a, st), NEW t \in Nat, GoodStore(st, t), c.tick \in 1 .. t,
         NEW id \in Derived(c, "ActorProfile")
  PROVE  /\ Effect(c, a, st, ActorOps(id, a), t)
         /\ Apply(st, ActorOps(id, a)).events = st.events
<1> DEFINE ops == ActorOps(id, a)
           st2 == Apply(st, ops)
<1>1. id \notin st.live /\ id[1] = "ActorProfile"
  BY FreshId
<1>2. SpawnsIn(ops) = {1} /\ Spawned(ops) = {id}
  BY SpawnedBy2 DEF ActorOps
<1>3. /\ Grown(st, st2, id)
      /\ <<id, "ActorProfile">> \in DOMAIN st2.comps
      /\ st2.comps[<<id, "ActorProfile">>] = a.handle
      /\ <<id, "UserBinding">> \in DOMAIN st2.comps
      /\ st2.comps[<<id, "UserBinding">>] = a.user
  <2>1. IsStore(st) /\ KeysLive(st) /\ "ActorProfile" # "UserBinding"
    BY DEF GoodStore
  <2> QED
    BY <1>1, <2>1, Grown2 DEF ActorOps
<1> HIDE DEF ops, st2
<1>4. a.user \in OfKind(st2, "UserProfile") \cup {GhostUser}
  BY <1>3 DEF Coherent, OfKind, Grown
<1>5. Whole(st2, id)
  BY <1>1, <1>3, <1>4 DEF Whole, ActorWhole
<1>6. Effect(c, a, st, ops, t) /\ Apply(st, ops).events = st.events
  <2>1. Written(a, st, st2, ops, id)
    BY <1>1, <1>2, <1>3, <1>5 DEF Written
  <2> QED
    BY <2>1, SpawnEffect DEF st2
<1> QED
  BY <1>6 DEF ops

(* What SubmitActivity writes is a record of a live actor.                 *)
LEMMA SubmitActivityEffect ==
  ASSUME NEW c, IsContext(c), NEW a, a.kind = "SubmitActivity", EnsureActor(c) = "Ok",
         NEW st, Coherent(c, a, st), NEW t \in Nat, GoodStore(st, t), c.tick \in 1 .. t,
         NEW id \in Derived(c, "ActivityRecord"), a.target # {id}
  PROVE  /\ Effect(c, a, st, ActivityOps(id, c, a), t)
         /\ Apply(st, ActivityOps(id, c, a)).events = st.events
<1> DEFINE ops == ActivityOps(id, c, a)
           st2 == Apply(st, ops)
<1>1. id \notin st.live /\ id[1] = "ActivityRecord"
  BY FreshId
<1>2. SpawnsIn(ops) = {1} /\ Spawned(ops) = {id}
  BY SpawnedBy1 DEF ActivityOps
<1>3. /\ Grown(st, st2, id)
      /\ <<id, "ActivityRecord">> \in DOMAIN st2.comps
      /\ st2.comps[<<id, "ActivityRecord">>] = [actors |-> c.actor, target |-> a.target]
  <2>1. IsStore(st) /\ KeysLive(st)
    BY DEF GoodStore
  <2> QED
    BY <1>1, <2>1, Grown1 DEF ActivityOps
<1> HIDE DEF ops, st2
<1>4. Cardinality(c.actor) = 1
  BY OneActor
<1>5. Whole(st2, id)
  BY <1>1, <1>3, <1>4 DEF Whole, ActivityWhole
<1>6. Effect(c, a, st, ops, t) /\ Apply(st, ops).events = st.events
  <2>1. Written(a, st, st2, ops, id)
    BY <1>1, <1>2, <1>3, <1>5 DEF Written
  <2> QED
    BY <2>1, SpawnEffect DEF st2
<1> QED
  BY <1>6 DEF ops

(* What CreateSpace writes is a space at the depth of its parent plus one, *)
(* within the bound.                                                       *)
LEMMA CreateSpaceEffect ==
  ASSUME NEW c, IsContext(c), NEW a, a.kind = "CreateSpace", EnsureActor(c) = "Ok",
         NEW st, Coherent(c, a, st), NEW t \in Nat, GoodStore(st, t), c.tick \in 1 .. t,
         NEW id \in Derived(c, "SpaceConfig"),
         NEW depth \in ChildDepth(c, a), ~(depth > MaxSpaceDepth)
  PROVE  /\ Effect(c, a, st, SpaceOps(id, c, a, depth), t)
         /\ Apply(st, SpaceOps(id, c, a, depth)).events = st.events
<1> DEFINE ops == SpaceOps(id, c, a, depth)
           st2 == Apply(st, ops)
<1>1. id \notin st.live /\ id[1] = "SpaceConfig"
  BY FreshId
<1>2. SpawnsIn(ops) = {1} /\ Spawned(ops) = {id}
  BY SpawnedBy2 DEF SpaceOps
<1>3. /\ Grown(st, st2, id)
      /\ <<id, "SpaceConfig">> \in DOMAIN st2.comps
      /\ st2.comps[<<id, "SpaceConfig">>] = [actors |-> c.actor, parent |-> a.parent]
      /\ <<id, "ParentChainDepth">> \in DOMAIN st2.comps
      /\ st2.comps[<<id, "ParentChainDepth">>] = depth
  <2>1. IsStore(st) /\ KeysLive(st) /\ "SpaceConfig" # "ParentChainDepth"
    BY DEF GoodStore
  <2> QED
    BY <1>1, <2>1, Grown2 DEF SpaceOps
<1> HIDE DEF ops, st2
<1>4. Cardinality(c.actor) = 1
  BY OneActor
<1>5. /\ a.parent = {} => depth = 0
      /\ depth \in 0 .. MaxSpaceDepth
      /\ \A p \in a.parent : /\ p \in OfKind(st, "SpaceConfig")
                             /\ depth = st.comps[<<p, "ParentChainDepth">>] + 1
  <2>1. CASE a.parent = {}
    BY <2>1, ContextAssumption DEF ChildDepth
  <2>2. CASE a.parent # {}
    <3>0. PICK p \in a.parent : \E d \in Read(c, p, "ParentChainDepth") : depth = d + 1
      BY <2>2 DEF ChildDepth
    <3>1. PICK d \in Read(c, p, "ParentChainDepth") : depth = d + 1
      BY <3>0
    <3>2. d = st.comps[<<p, "ParentChainDepth">>]
      BY <3>1 DEF Read, LookUp, Coherent
    <3>3. p \in OfKind(st, "SpaceConfig") /\ \A q \in a.parent : q = p
      BY DEF Coherent
    <3>4. d \in 0 .. MaxSpaceDepth
      BY <3>2, <3>3 DEF GoodStore, OfKind, Whole, SpaceWhole
    <3> QED
      BY <2>2, <3>1, <3>2, <3>3, <3>4, ContextAssumption
  <2> QED
    BY <2>1, <2>2
<1>6. \A p \in a.parent :
        /\ p \in OfKind(st2, "SpaceConfig")
        /\ st2.comps[<<p, "ParentChainDepth">>] = st.comps[<<p, "ParentChainDepth">>]
  BY <1>3, <1>5 DEF Grown, OfKind, GoodStore, Whole, SpaceWhole
<1>7. SpaceWhole(st2, id)
  BY <1>3, <1>4, <1>5, <1>6 DEF SpaceWhole
<1>8. Effect(c, a, st, ops, t) /\ Apply(st, ops).events = st.events
  <2>1. Written(a, st, st2, ops, id)
    BY <1>1, <1>2, <1>3, <1>7 DEF Written, Whole
  <2> QED
    BY <2>1, SpawnEffect DEF st2
<1> QED
  BY <1>8 DEF ops

(* What GdprEraseUser writes is a pending pointer and the event of the     *)
(* same user.                                                              *)
LEMMA GdprEraseUserEffect ==
  ASSUME NEW c, NEW a, a.kind = "GdprEraseUser",
         NEW st, Coherent(c, a, st), NEW t \in Nat, GoodStore(st, t)
  PROVE  LET st2 == Apply(st, EraseOps(a.user))
         IN  /\ Effect(c, a, st, EraseOps(a.user), t)
             /\ st2.events = Append(st.events, a.user)
             /\ a.user \in st.live =>
                  st2.comps[<<a.user, "UserGdprState">>] = "ErasurePending"
<1> DEFINE u == a.user
           st2 == Apply(st, EraseOps(u))
<1>1. u \in OfKind(st, "UserProfile") \cup {GhostUser}
  BY DEF Coherent
<1>2. /\ GoodStore(st2, t) /\ Frame(st, st2)
      /\ st2.live = st.live /\ st2.events = Append(st.events, u)
      /\ u \in st.live => st2.comps[<<u, "UserGdprState">>] = "ErasurePending"
  BY <1>1, EraseGood, ApplyTwo DEF EraseOps
<1> HIDE DEF st2
<1>3. SpawnsIn(EraseOps(u)) = {} /\ Spawned(EraseOps(u)) = {}
  BY NoSpawns
<1> HIDE DEF u
<1>4. Effect(c, a, st, EraseOps(u), t)
  BY <1>2, <1>3 DEF Effect, st2
<1> QED
  BY <1>2, <1>4 DEF st2, u

(***************************************************************************)
(* Whatever was accepted keeps the store good and writes nothing over, and *)
(* the erasure of a user leaves the user out of Active.                    *)
(***************************************************************************)
Erased(a, st, st2) ==
  IF a.kind = "GdprEraseUser"
    THEN /\ st2.events = Append(st.events, a.user)
         /\ a.user \in st.live => st2.comps[<<a.user, "UserGdprState">>] # "Active"
    ELSE st2.events = st.events

(* Whatever action was accepted has the effect it declares on the store it *)
(* was checked against.                                                    *)
LEMMA AcceptedEffect ==
  ASSUME NEW c, IsContext(c), NEW a, NEW st, Coherent(c, a, st),
         NEW t \in Nat, GoodStore(st, t), c.tick \in 1 .. t,
         NEW d, NEW ops, Accepted(c, a, d, ops)
  PROVE  Effect(c, a, st, ops, t) /\ Erased(a, st, Apply(st, ops))
<1>1. CASE Spawns(c, a, d, ops)
  <2>1. CASE a.kind = "RegisterUser"
    BY <1>1, <2>1, RegisterUserEffect DEF Spawns, Erased
  <2>2. CASE a.kind = "RegisterActor"
    BY <1>1, <2>2, RegisterActorEffect DEF Spawns, Erased
  <2>3. CASE a.kind = "SubmitActivity"
    BY <1>1, <2>3, SubmitActivityEffect DEF Spawns, Erased
  <2>4. CASE a.kind = "CreateSpace"
    BY <1>1, <2>4, CreateSpaceEffect DEF Spawns, Erased
  <2> QED
    BY <1>1, <2>1, <2>2, <2>3, <2>4 DEF Spawns
<1>2. CASE Erases(c, a, d, ops)
  <2>1. a.kind = "GdprEraseUser" /\ ops = EraseOps(a.user)
    BY <1>2 DEF Erases
  <2> QED
    BY <2>1, GdprEraseUserEffect DEF Erased
<1>3. CASE a.kind = "RetractActivity" /\ ops = <<>>
  <2>1. Apply(st, ops) = st /\ SpawnsIn(ops) = {} /\ Spawned(ops) = {}
    BY <1>3, ApplyNone, NoSpawns
  <2>2. Frame(st, st)
    BY DEF Frame
  <2> QED
    BY <1>3, <2>1, <2>2 DEF Effect, Erased
<1> QED
  BY <1>1, <1>2, <1>3 DEF Accepted

-----------------------------------------------------------------------------
(* What holds of the log and of the idempotency index, on whichever store. *)
Binding(st, x) == st.comps[<<x, "UserBinding">>]

Handle(st, x) == st.comps[<<x, "ActorProfile">>]

GoodLog(st, lg, t) ==
  /\ IsSeq(lg)
  /\ \A j \in 1 .. Len(lg) :
       /\ lg[j].actor \subseteq st.live \cup {SystemActor}
       /\ lg[j].user \subseteq st.live \cup {GhostUser}
       /\ lg[j].spawned \subseteq st.live
       /\ lg[j].tick \in 0 .. t
       /\ \A u \in lg[j].user \cap OfKind(st, "UserProfile") :
            st.comps[<<u, "UserGdprState">>] # "Active"

GatedEntry(st, lg, j) ==
  lg[j].path = "dispatch" \/ UserScoped(lg[j]) =>
    \A x \in lg[j].actor \cap OfKind(st, "ActorProfile") :
      /\ Binding(st, x) # GhostUser
      /\ \A i \in 1 .. j - 1 : Binding(st, x) \notin lg[i].user

Gate(st, lg) == \A j \in 1 .. Len(lg) : GatedEntry(st, lg, j)

FirstOfKey(lg, ix, k, i) ==
  /\ lg[i].key = {k} /\ lg[i].path = "direct" /\ ix[k].entity = lg[i].spawned
  /\ \A h \in 1 .. i - 1 : lg[h].path = "direct" => lg[h].key # {k}

IndexedEntry(st, lg, ix, j) ==
  /\ \A k \in lg[j].key :
       /\ k \in DOMAIN ix /\ ix[k].tick = lg[j].tick
       /\ \E i \in 1 .. j : FirstOfKey(lg, ix, k, i)
  /\ \A x \in lg[j].spawned \cap OfKind(st, "ActorProfile"),
        y \in OfKind(st, "ActorProfile") :
       Handle(st, y) = Handle(st, x) => y[2] >= lg[j].tick

Indexed(st, lg, ix) ==
  \A j \in 1 .. Len(lg) : lg[j].path = "direct" => IndexedEntry(st, lg, ix, j)

World(st, lg, ix, t) ==
  GoodStore(st, t) /\ GoodLog(st, lg, t) /\ Gate(st, lg) /\ Indexed(st, lg, ix)

(***************************************************************************)
(* An entry about to be logged, and the store it leads from and to.        *)
(***************************************************************************)
Gated(st, e) ==
  e.path = "dispatch" \/ UserScoped(e) =>
    \A x \in e.actor \cap OfKind(st, "ActorProfile") :
      /\ Binding(st, x) \in OfKind(st, "UserProfile")
      /\ st.comps[<<Binding(st, x), "UserGdprState">>] = "Active"

OneKey(e) == e.key = {} \/ \E k : e.key = {k}

NewEntry(st, st2, e, t) ==
  /\ GoodStore(st2, t) /\ Frame(st, st2)
  /\ st2.live = st.live \cup e.spawned /\ e.spawned \cap st.live = {}
  /\ e.tick = t /\ \A x \in e.spawned : x[2] = t
  /\ e.actor \subseteq st.live \cup {SystemActor}
  /\ e.user \subseteq st.live \cup {GhostUser}
  /\ \A u \in e.user \cap OfKind(st, "UserProfile") :
       st2.comps[<<u, "UserGdprState">>] # "Active"
  /\ e.path \in {"dispatch", "direct"}
  /\ OneKey(e)
  /\ Gated(st, e)

(* On a context the index and the handles were asked.                      *)
KeyFree(lg, ix, e) ==
  \A k \in e.key : k \in DOMAIN ix =>
    /\ ix[k].tick = e.tick
    /\ \E j \in 1 .. Len(lg) : lg[j].path = "direct" /\ k \in lg[j].key

Unclaimed(st, st2, e) ==
  \A x \in e.spawned \cap OfKind(st2, "ActorProfile"), y \in OfKind(st, "ActorProfile") :
    Handle(st, y) = Handle(st2, x) => y[2] >= e.tick

(* The entry of an accepted action keeps every logged entity in the store. *)
LEMMA LogStep ==
  ASSUME NEW st, NEW st2, NEW lg, NEW t \in Nat, NEW e,
         GoodStore(st, t), GoodLog(st, lg, t), NewEntry(st, st2, e, t)
  PROVE  GoodLog(st2, Append(lg, e), t)
<1>1. PICK more : more = Append(lg, e)
  OBVIOUS
<1>2. /\ IsSeq(more) /\ Len(lg) \in Nat /\ Len(more) = Len(lg) + 1
      /\ \A i \in 1 .. Len(lg) : more[i] = lg[i]
      /\ more[Len(lg) + 1] = e
  BY <1>1, SeqAppend DEF GoodLog
<1>3. /\ st.live \subseteq st2.live /\ GhostUser \notin st2.live
      /\ GhostUser \notin st.live
  BY Unregistered DEF NewEntry, GoodStore
<1>4. ASSUME NEW j \in 1 .. Len(lg)
      PROVE  /\ more[j].actor \subseteq st2.live \cup {SystemActor}
             /\ more[j].user \subseteq st2.live \cup {GhostUser}
             /\ more[j].spawned \subseteq st2.live
             /\ more[j].tick \in 0 .. t
             /\ \A u \in more[j].user \cap OfKind(st2, "UserProfile") :
                  st2.comps[<<u, "UserGdprState">>] # "Active"
  <2>1. more[j] = lg[j]
    BY <1>2
  <2>2. ASSUME NEW u \in lg[j].user \cap OfKind(st2, "UserProfile")
        PROVE  st2.comps[<<u, "UserGdprState">>] # "Active"
    <3>1. u \in OfKind(st, "UserProfile")
      BY <1>3, <2>2 DEF GoodLog, OfKind
    <3>2. st.comps[<<u, "UserGdprState">>] # "Active"
      BY <2>2, <3>1 DEF GoodLog
    <3>3. <<u, "UserGdprState">> \in DOMAIN st.comps
      BY <3>1 DEF GoodStore, OfKind, Whole, UserWhole
    <3> QED
      BY <3>2, <3>3 DEF NewEntry, Frame
  <2> QED
    BY <1>3, <2>1, <2>2 DEF GoodLog
<1>5. /\ e.actor \subseteq st2.live \cup {SystemActor}
      /\ e.user \subseteq st2.live \cup {GhostUser}
      /\ e.spawned \subseteq st2.live
      /\ e.tick \in 0 .. t
      /\ \A u \in e.user \cap OfKind(st2, "UserProfile") :
           st2.comps[<<u, "UserGdprState">>] # "Active"
  BY <1>3 DEF NewEntry, OfKind
<1>6. \A j \in 1 .. Len(more) : j \in 1 .. Len(lg) \/ j = Len(lg) + 1
  BY <1>2
<1> QED
  BY <1>1, <1>2, <1>4, <1>5, <1>6 DEF GoodLog

(* An entry whose actor was not erased when it was logged keeps the gate   *)
(* sound.                                                                  *)
LEMMA GateStep ==
  ASSUME NEW st, NEW st2, NEW lg, NEW t \in Nat, NEW e,
         GoodStore(st, t), GoodLog(st, lg, t), Gate(st, lg), NewEntry(st, st2, e, t)
  PROVE  Gate(st2, Append(lg, e))
<1>1. PICK more : more = Append(lg, e)
  OBVIOUS
<1>2. /\ Len(lg) \in Nat /\ Len(more) = Len(lg) + 1
      /\ \A i \in 1 .. Len(lg) : more[i] = lg[i]
      /\ more[Len(lg) + 1] = e
  BY <1>1, SeqAppend DEF GoodLog
<1>3. /\ SystemActor \notin st2.live /\ GhostUser \notin st.live
  BY Unregistered DEF NewEntry, GoodStore
<1>4. ASSUME NEW x \in OfKind(st, "ActorProfile")
      PROVE  Binding(st2, x) = Binding(st, x)
  <2>1. <<x, "UserBinding">> \in DOMAIN st.comps
    BY DEF GoodStore, OfKind, Whole, ActorWhole
  <2> QED
    BY <2>1 DEF NewEntry, Frame, Binding
<1>5. ASSUME NEW actors \in SUBSET (st.live \cup {SystemActor}),
             NEW x \in actors \cap OfKind(st2, "ActorProfile")
      PROVE  x \in OfKind(st, "ActorProfile")
  BY <1>3, <1>5 DEF OfKind
<1>6. ASSUME NEW j \in 1 .. Len(lg)
      PROVE  GatedEntry(st2, more, j)
  <2>1. more[j] = lg[j] /\ \A i \in 1 .. j - 1 : more[i] = lg[i]
    BY <1>2
  <2>2. GatedEntry(st, lg, j) /\ lg[j].actor \in SUBSET (st.live \cup {SystemActor})
    BY DEF Gate, GoodLog
  <2> QED
    BY <1>4, <1>5, <2>1, <2>2 DEF GatedEntry
<1>7. GatedEntry(st2, more, Len(lg) + 1)
  <2> SUFFICES ASSUME e.path = "dispatch" \/ UserScoped(e),
                      NEW x \in e.actor \cap OfKind(st2, "ActorProfile")
               PROVE  /\ Binding(st2, x) # GhostUser
                      /\ \A i \in 1 .. Len(lg) : Binding(st2, x) \notin lg[i].user
    BY <1>2 DEF GatedEntry
  <2>1. x \in OfKind(st, "ActorProfile")
    BY <1>5 DEF NewEntry
  <2>2. /\ Binding(st, x) \in OfKind(st, "UserProfile")
        /\ st.comps[<<Binding(st, x), "UserGdprState">>] = "Active"
    BY <2>1 DEF NewEntry, Gated
  <2>3. \A i \in 1 .. Len(lg) : Binding(st, x) \notin lg[i].user
    BY <2>2 DEF GoodLog
  <2> QED
    BY <1>3, <1>4, <2>1, <2>2, <2>3 DEF OfKind
<1>8. \A j \in 1 .. Len(more) : j \in 1 .. Len(lg) \/ j = Len(lg) + 1
  BY <1>2
<1> QED
  BY <1>1, <1>6, <1>7, <1>8 DEF Gate

Inserted(ix, e, ix2) ==
  /\ DOMAIN ix2 = DOMAIN ix \cup e.key
  /\ \A k \in DOMAIN ix : ix2[k] = ix[k]
  /\ \A k \in e.key : k \notin DOMAIN ix =>
       ix2[k].entity = e.spawned /\ ix2[k].tick = e.tick

(* or_insert records the key of an entry once and leaves every other key   *)
(* alone.                                                                  *)
LEMMA InsertFacts ==
  ASSUME NEW ix, NEW e, OneKey(e)
  PROVE  Inserted(ix, e, InsertEntry(ix, e))
<1>1. CASE e.key = {}
  BY <1>1 DEF InsertEntry, Inserted
<1>2. CASE e.key # {}
  <2>1. PICK k : e.key = {k}
    BY <1>2 DEF OneKey
  <2>2. PICK b : b = [entity |-> e.spawned, tick |-> e.tick]
    OBVIOUS
  <2>3. InsertEntry(ix, e) = Insert(ix, k, b)
    BY <2>1, <2>2 DEF InsertEntry
  <2>4. b.entity = e.spawned /\ b.tick = e.tick
    BY <2>2
  <2> QED
    BY <2>1, <2>3, <2>4 DEF Insert, Bind, Inserted
<1> QED
  BY <1>1, <1>2

(* The index after an entry: only a direct context records its key.        *)
IndexAfter(ix, e) == IF e.path = "direct" THEN InsertEntry(ix, e) ELSE ix

(* The first entry of a key is not changed by what is logged later.        *)
LEMMA FirstOfKeyKept ==
  ASSUME NEW lg, NEW more, NEW ix, NEW ix2, NEW k, NEW n \in Nat, NEW i \in 1 .. n,
         \A j \in 1 .. n : more[j] = lg[j], ix2[k] = ix[k], FirstOfKey(lg, ix, k, i)
  PROVE  FirstOfKey(more, ix2, k, i)
<1>1. \A h \in 1 .. i - 1 : more[h] = lg[h]
  OBVIOUS
<1> QED
  BY <1>1 DEF FirstOfKey

(* A direct entry whose key was free, or any entry of the kernel, keeps    *)
(* the index exact.                                                        *)
LEMMA IndexedStep ==
  ASSUME NEW st, NEW st2, NEW lg, NEW ix, NEW t \in Nat, NEW e,
         GoodStore(st, t), GoodLog(st, lg, t), Indexed(st, lg, ix),
         NewEntry(st, st2, e, t),
         e.path = "direct" => KeyFree(lg, ix, e) /\ Unclaimed(st, st2, e)
  PROVE  Indexed(st2, Append(lg, e), IndexAfter(ix, e))
<1>1. PICK more : more = Append(lg, e)
  OBVIOUS
<1>2. /\ Len(lg) \in Nat /\ Len(more) = Len(lg) + 1
      /\ \A i \in 1 .. Len(lg) : more[i] = lg[i]
      /\ more[Len(lg) + 1] = e
  BY <1>1, SeqAppend DEF GoodLog
<1>3. PICK ix2 : ix2 = IndexAfter(ix, e)
  OBVIOUS
<1>4. /\ DOMAIN ix \subseteq DOMAIN ix2
      /\ \A k \in DOMAIN ix : ix2[k] = ix[k]
      /\ e.path = "direct" => \A k \in e.key :
           /\ k \in DOMAIN ix2
           /\ k \notin DOMAIN ix => ix2[k].entity = e.spawned /\ ix2[k].tick = e.tick
  <2>1. OneKey(e)
    BY DEF NewEntry
  <2>2. PICK ix3 : ix3 = InsertEntry(ix, e)
    OBVIOUS
  <2>3. Inserted(ix, e, ix3)
    BY <2>1, <2>2, InsertFacts
  <2>4. ix2 = IF e.path = "direct" THEN ix3 ELSE ix
    BY <1>3, <2>2 DEF IndexAfter
  <2>5. CASE e.path = "direct"
    BY <2>3, <2>4, <2>5 DEF Inserted
  <2>6. CASE e.path # "direct"
    BY <2>4, <2>6
  <2> QED
    BY <2>5, <2>6
<1>5. ASSUME NEW y \in OfKind(st, "ActorProfile")
      PROVE  Handle(st2, y) = Handle(st, y)
  <2>1. <<y, "ActorProfile">> \in DOMAIN st.comps
    BY DEF GoodStore, OfKind, Whole, ActorWhole
  <2> QED
    BY <2>1 DEF NewEntry, Frame, Handle
<1>6. ASSUME NEW y \in OfKind(st2, "ActorProfile")
      PROVE  y \in OfKind(st, "ActorProfile") \/ y[2] = t
  BY <1>6 DEF NewEntry, OfKind
<1>7. ASSUME NEW j \in 1 .. Len(lg), lg[j].path = "direct"
      PROVE  IndexedEntry(st2, more, ix2, j)
  <2>1. IndexedEntry(st, lg, ix, j) /\ more[j] = lg[j]
    BY <1>2, <1>7 DEF Indexed
  <2>2. ASSUME NEW k \in lg[j].key
        PROVE  /\ k \in DOMAIN ix2 /\ ix2[k].tick = lg[j].tick
               /\ \E i \in 1 .. j : FirstOfKey(more, ix2, k, i)
    <3>1. k \in DOMAIN ix /\ ix[k].tick = lg[j].tick
      BY <2>1 DEF IndexedEntry
    <3>2. PICK i \in 1 .. j : FirstOfKey(lg, ix, k, i)
      BY <2>1 DEF IndexedEntry
    <3>3. FirstOfKey(more, ix2, k, i)
      <4>1. i \in 1 .. Len(lg) /\ ix2[k] = ix[k]
        BY <1>2, <1>4, <3>1
      <4> QED
        BY <1>2, <3>2, <4>1, FirstOfKeyKept
    <3> QED
      BY <1>4, <3>1, <3>3
  <2>3. ASSUME NEW x \in lg[j].spawned \cap OfKind(st2, "ActorProfile"),
               NEW y \in OfKind(st2, "ActorProfile"), Handle(st2, y) = Handle(st2, x)
        PROVE  y[2] >= lg[j].tick
    <3>1. x \in OfKind(st, "ActorProfile") /\ lg[j].tick \in 0 .. t
      BY <2>3 DEF GoodLog, OfKind
    <3>2. CASE y \in OfKind(st, "ActorProfile")
      BY <1>5, <2>1, <2>3, <3>1, <3>2 DEF IndexedEntry
    <3>3. CASE y[2] = t
      BY <3>1, <3>3
    <3> QED
      BY <1>6, <3>2, <3>3
  <2> QED
    BY <2>1, <2>2, <2>3 DEF IndexedEntry
<1>8. ASSUME e.path = "direct"
      PROVE  IndexedEntry(st2, more, ix2, Len(lg) + 1)
  <2>1. KeyFree(lg, ix, e) /\ Unclaimed(st, st2, e) /\ e.tick = t
    BY <1>8 DEF NewEntry
  <2>2. ASSUME NEW k \in e.key
        PROVE  /\ k \in DOMAIN ix2 /\ ix2[k].tick = e.tick
               /\ \E i \in 1 .. Len(lg) + 1 : FirstOfKey(more, ix2, k, i)
    <3>1. CASE k \in DOMAIN ix
      <4>1. ix[k].tick = e.tick
        BY <2>1, <3>1 DEF KeyFree
      <4>2. PICK j \in 1 .. Len(lg) : lg[j].path = "direct" /\ k \in lg[j].key
        BY <2>1, <3>1 DEF KeyFree
      <4>3. PICK i \in 1 .. j : FirstOfKey(lg, ix, k, i)
        BY <4>2 DEF Indexed, IndexedEntry
      <4>4. FirstOfKey(more, ix2, k, i)
        <5>1. i \in 1 .. Len(lg) /\ ix2[k] = ix[k]
          BY <1>2, <1>4, <3>1
        <5> QED
          BY <1>2, <4>3, <5>1, FirstOfKeyKept
      <4> QED
        BY <1>2, <1>4, <3>1, <4>1, <4>4
    <3>2. CASE k \notin DOMAIN ix
      <4>1. /\ k \in DOMAIN ix2 /\ ix2[k].tick = e.tick /\ ix2[k].entity = e.spawned
            /\ e.key = {k}
        BY <1>4, <1>8, <3>2 DEF NewEntry, OneKey
      <4>2. ASSUME NEW h \in 1 .. Len(lg), more[h].path = "direct"
            PROVE  more[h].key # {k}
        BY <1>2, <3>2, <4>2 DEF Indexed, IndexedEntry
      <4>3. FirstOfKey(more, ix2, k, Len(lg) + 1)
        BY <1>2, <1>8, <4>1, <4>2 DEF FirstOfKey
      <4> QED
        BY <1>2, <4>1, <4>3
    <3> QED
      BY <3>1, <3>2
  <2>3. ASSUME NEW x \in e.spawned \cap OfKind(st2, "ActorProfile"),
               NEW y \in OfKind(st2, "ActorProfile"), Handle(st2, y) = Handle(st2, x)
        PROVE  y[2] >= e.tick
    <3>1. CASE y \in OfKind(st, "ActorProfile")
      BY <1>5, <2>1, <2>3, <3>1 DEF Unclaimed
    <3>2. CASE y[2] = t
      BY <2>1, <3>2
    <3> QED
      BY <1>6, <3>1, <3>2
  <2> QED
    BY <1>2, <2>2, <2>3 DEF IndexedEntry
<1>9. \A j \in 1 .. Len(more) : j \in 1 .. Len(lg) \/ j = Len(lg) + 1
  BY <1>2
<1> QED
  BY <1>1, <1>2, <1>3, <1>7, <1>8, <1>9 DEF Indexed

(* One more entry, with its operations, its key and its gate, keeps the    *)
(* world consistent.                                                       *)
LEMMA WorldStep ==
  ASSUME NEW st, NEW st2, NEW lg, NEW ix, NEW t \in Nat, NEW e,
         World(st, lg, ix, t), NewEntry(st, st2, e, t),
         e.path = "direct" => KeyFree(lg, ix, e) /\ Unclaimed(st, st2, e)
  PROVE  World(st2, Append(lg, e), IndexAfter(ix, e), t)
BY LogStep, GateStep, IndexedStep DEF World, NewEntry

(* A world consistent at a tick is consistent at every later tick.         *)
LEMMA LaterWorld ==
  ASSUME NEW st, NEW lg, NEW ix, NEW t \in Nat, World(st, lg, ix, t)
  PROVE  World(st, lg, ix, t + 1)
<1>1. GoodStore(st, t + 1)
  BY LaterGood DEF World
<1>2. GoodLog(st, lg, t + 1)
  BY DEF World, GoodLog
<1> QED
  BY <1>1, <1>2 DEF World

-----------------------------------------------------------------------------
(***************************************************************************)
(* What a context reads of its own writes is what the store will hold.     *)
(***************************************************************************)
SetsIn(ops, e, type) ==
  {i \in DOMAIN ops : ops[i].op = "SetComponent" /\ ops[i].entity = e /\ ops[i].type = type}

LastSet(ops, e, type) ==
  {i \in SetsIn(ops, e, type) : \A j \in SetsIn(ops, e, type) : j <= i}

StagedOf(view, ops, e, type) ==
  IF SetsIn(ops, e, type) = {} THEN LookUp(view, <<e, type>>)
  ELSE {ops[i].value : i \in LastSet(ops, e, type)}

(* staged_read is a search of the staged writes before the view.           *)
LEMMA StagedReadIs ==
  ASSUME NEW c, NEW e, NEW type
  PROVE  StagedRead(c, e, type) = StagedOf(c.view, c.ops, e, type)
BY DEF StagedRead, Read, StagedOf, SetsIn, LastSet

IsSet(op, e, type) == op.op = "SetComponent" /\ op.entity = e /\ op.type = type

(* An operation that writes another component does not change what is      *)
(* read.                                                                   *)
LEMMA StagedKept ==
  ASSUME NEW view, NEW ops, IsSeq(ops), NEW op, NEW e, NEW type, ~IsSet(op, e, type)
  PROVE  StagedOf(view, Append(ops, op), e, type) = StagedOf(view, ops, e, type)
<1>1. PICK more : more = Append(ops, op)
  OBVIOUS
<1>2. /\ Len(ops) \in Nat /\ DOMAIN ops = 1 .. Len(ops)
      /\ DOMAIN more = 1 .. Len(ops) + 1
      /\ \A i \in 1 .. Len(ops) : more[i] = ops[i]
      /\ more[Len(ops) + 1] = op
  BY <1>1, SeqAppend
<1>3. SetsIn(more, e, type) = SetsIn(ops, e, type)
  <2>1. \A i \in DOMAIN more : i \in DOMAIN ops \/ i = Len(ops) + 1
    BY <1>2
  <2> QED
    BY <1>2, <2>1 DEF SetsIn, IsSet
<1>4. LastSet(more, e, type) = LastSet(ops, e, type)
  BY <1>3 DEF LastSet
<1>5. \A i \in LastSet(ops, e, type) : more[i] = ops[i]
  BY <1>2 DEF LastSet, SetsIn
<1> QED
  BY <1>1, <1>3, <1>4, <1>5 DEF StagedOf

(* The last write is what is read.                                         *)
LEMMA StagedNew ==
  ASSUME NEW view, NEW ops, IsSeq(ops), NEW op, NEW e, NEW type, IsSet(op, e, type)
  PROVE  StagedOf(view, Append(ops, op), e, type) = {op.value}
<1>1. PICK more, n : more = Append(ops, op) /\ n = Len(ops) + 1
  OBVIOUS
<1>2. /\ Len(ops) \in Nat /\ DOMAIN more = 1 .. n /\ more[n] = op /\ n \in Nat \ {0}
  BY <1>1, SeqAppend
<1>3. n \in SetsIn(more, e, type) /\ \A i \in SetsIn(more, e, type) : i \in 1 .. n
  BY <1>2 DEF SetsIn, IsSet
<1>4. LastSet(more, e, type) = {n}
  <2>1. n \in LastSet(more, e, type)
    BY <1>2, <1>3 DEF LastSet
  <2>2. ASSUME NEW i \in LastSet(more, e, type) PROVE i = n
    <3>1. i \in 1 .. n /\ n <= i
      BY <1>3 DEF LastSet
    <3> QED
      BY <1>2, <3>1
  <2> QED
    BY <2>1, <2>2
<1> QED
  BY <1>1, <1>2, <1>3, <1>4 DEF StagedOf

StagedAgrees(view, ops, st) ==
  /\ \A e, type : e # GhostUser =>
       StagedOf(view, ops, e, type) = LookUp(st.comps, <<e, type>>)
  /\ "Active" \notin StagedOf(view, ops, GhostUser, "UserGdprState")

(* An operation other than SetComponent changes neither what is staged nor *)
(* the components.                                                         *)
LEMMA StagedSame ==
  ASSUME NEW view, NEW ops, IsSeq(ops), NEW st, NEW st2, st2.comps = st.comps,
         StagedAgrees(view, ops, st), NEW op, op.op # "SetComponent"
  PROVE  StagedAgrees(view, Append(ops, op), st2)
<1>1. \A e, type : StagedOf(view, Append(ops, op), e, type) = StagedOf(view, ops, e, type)
  BY StagedKept DEF IsSet
<1> QED
  BY <1>1 DEF StagedAgrees

(* A staged SetComponent reads as the component it will be.                *)
LEMMA StagedSet ==
  ASSUME NEW view, NEW ops, IsSeq(ops), NEW st, IsStore(st), GhostUser \notin st.live,
         StagedAgrees(view, ops, st),
         NEW e, NEW type, NEW value, e \in st.live \/ (e = GhostUser /\ value # "Active")
  PROVE  LET op == SetComponent(e, type, value)
         IN  StagedAgrees(view, Append(ops, op), ApplyOp(st, op))
<1>1. PICK op : op = SetComponent(e, type, value)
  OBVIOUS
<1>2. PICK st2 : st2 = ApplyOp(st, op)
  OBVIOUS
<1>3. op.op = "SetComponent" /\ op.entity = e /\ op.type = type /\ op.value = value
  BY <1>1 DEF SetComponent
<1>4. StagedOf(view, Append(ops, op), e, type) = {value}
  BY <1>3, StagedNew DEF IsSet
<1>5. ASSUME NEW f, NEW ty, <<f, ty>> # <<e, type>>
      PROVE  StagedOf(view, Append(ops, op), f, ty) = StagedOf(view, ops, f, ty)
  <2>1. ~IsSet(op, f, ty)
    BY <1>3, <1>5 DEF IsSet
  <2> QED
    BY <2>1, StagedKept
<1>6. CASE e \in st.live
  <2>1. /\ DOMAIN st2.comps = DOMAIN st.comps \cup {<<e, type>>}
        /\ st2.comps[<<e, type>>] = value
        /\ \A k \in DOMAIN st.comps : k # <<e, type>> => st2.comps[k] = st.comps[k]
    BY <1>1, <1>2, <1>6, ApplySet
  <2>2. LookUp(st2.comps, <<e, type>>) = {value}
    BY <2>1 DEF LookUp
  <2>3. ASSUME NEW f, NEW ty, <<f, ty>> # <<e, type>>
        PROVE  LookUp(st2.comps, <<f, ty>>) = LookUp(st.comps, <<f, ty>>)
    BY <2>1, <2>3 DEF LookUp
  <2>4. e # GhostUser
    BY <1>6
  <2>5. ASSUME NEW f, NEW ty, f # GhostUser
        PROVE  StagedOf(view, Append(ops, op), f, ty) = LookUp(st2.comps, <<f, ty>>)
    <3>1. CASE <<f, ty>> = <<e, type>>
      BY <1>4, <2>2, <3>1
    <3>2. CASE <<f, ty>> # <<e, type>>
      BY <1>5, <2>3, <2>5, <3>2 DEF StagedAgrees
    <3> QED
      BY <3>1, <3>2
  <2>6. "Active" \notin StagedOf(view, Append(ops, op), GhostUser, "UserGdprState")
    <3>1. <<GhostUser, "UserGdprState">> # <<e, type>>
      BY <2>4
    <3> QED
      BY <1>5, <3>1 DEF StagedAgrees
  <2> QED
    BY <1>1, <1>2, <2>5, <2>6 DEF StagedAgrees
<1>7. CASE e = GhostUser /\ value # "Active"
  <2>1. st2 = st
    BY <1>1, <1>2, <1>7, ApplySetUnknown
  <2>2. ASSUME NEW f, NEW ty, f # GhostUser
        PROVE  StagedOf(view, Append(ops, op), f, ty) = LookUp(st2.comps, <<f, ty>>)
    <3>1. <<f, ty>> # <<e, type>>
      BY <1>7, <2>2
    <3> QED
      BY <1>5, <2>1, <2>2, <3>1 DEF StagedAgrees
  <2>3. "Active" \notin StagedOf(view, Append(ops, op), GhostUser, "UserGdprState")
    <3>1. CASE type = "UserGdprState"
      BY <1>4, <1>7, <3>1
    <3>2. CASE type # "UserGdprState"
      <4>1. <<GhostUser, "UserGdprState">> # <<e, type>>
        BY <3>2
      <4> QED
        BY <1>5, <4>1 DEF StagedAgrees
    <3> QED
      BY <3>1, <3>2
  <2> QED
    BY <1>1, <1>2, <2>2, <2>3 DEF StagedAgrees
<1> QED
  BY <1>6, <1>7

Staging(view, ops, st) ==
  /\ IsSeq(ops) /\ IsStore(st) /\ GhostUser \notin st.live
  /\ StagedAgrees(view, ops, st)

(* A staged spawn makes its entity live in the store to come.              *)
LEMMA StagingSpawn ==
  ASSUME NEW view, NEW ops, NEW st, Staging(view, ops, st), NEW id, id # GhostUser
  PROVE  /\ Staging(view, Append(ops, SpawnEntity(id)), ApplyOp(st, SpawnEntity(id)))
         /\ id \in ApplyOp(st, SpawnEntity(id)).live
<1>1. PICK op, st2 : op = SpawnEntity(id) /\ st2 = ApplyOp(st, SpawnEntity(id))
  OBVIOUS
<1>2. /\ IsStore(st2) /\ st2.comps = st.comps /\ st2.live = st.live \cup {id}
      /\ op.op # "SetComponent"
  <2>1. op.op # "SetComponent"
    BY <1>1 DEF SpawnEntity
  <2> QED
    BY <1>1, <2>1, ApplySpawn DEF Staging
<1>3. IsSeq(Append(ops, op)) /\ StagedAgrees(view, Append(ops, op), st2)
  BY <1>2, SeqAppend, StagedSame DEF Staging
<1> QED
  BY <1>1, <1>2, <1>3 DEF Staging

(* A staged component agrees with the store to come.                       *)
LEMMA StagingSet ==
  ASSUME NEW view, NEW ops, NEW st, Staging(view, ops, st), NEW e, NEW type, NEW value,
         e \in st.live \/ (e = GhostUser /\ value # "Active")
  PROVE  /\ Staging(view, Append(ops, SetComponent(e, type, value)),
                    ApplyOp(st, SetComponent(e, type, value)))
         /\ ApplyOp(st, SetComponent(e, type, value)).live = st.live
<1>1. PICK op, st2 : /\ op = SetComponent(e, type, value)
                     /\ st2 = ApplyOp(st, SetComponent(e, type, value))
  OBVIOUS
<1>2. IsStore(st2) /\ st2.live = st.live
  <2>1. IsStore(st)
    BY DEF Staging
  <2>2. CASE e \in st.live
    <3>1. LET s2 == ApplyOp(st, SetComponent(e, type, value))
          IN  /\ IsStore(s2) /\ s2.live = st.live
              /\ s2.comps[<<e, type>>] = value
      BY <2>1, <2>2, ApplySet
    <3> QED
      BY <1>1, <3>1
  <2>3. CASE e \notin st.live
    <3>1. st2 = st
      BY <1>1, <2>3, ApplySetUnknown
    <3> QED
      BY <2>1, <3>1
  <2> QED
    BY <2>2, <2>3
<1>3. IsSeq(Append(ops, op)) /\ StagedAgrees(view, Append(ops, op), st2)
  BY <1>1, SeqAppend, StagedSet DEF Staging
<1> QED
  BY <1>1, <1>2, <1>3 DEF Staging

(* A staged event leaves the staged components in agreement.               *)
LEMMA StagingEmit ==
  ASSUME NEW view, NEW ops, NEW st, Staging(view, ops, st), NEW type, NEW value
  PROVE  Staging(view, Append(ops, EmitEvent(type, value)),
                 ApplyOp(st, EmitEvent(type, value)))
<1>1. PICK op, st2 : /\ op = EmitEvent(type, value)
                     /\ st2 = ApplyOp(st, EmitEvent(type, value))
  OBVIOUS
<1>2. /\ IsStore(st2) /\ st2.comps = st.comps /\ st2.live = st.live
      /\ op.op # "SetComponent"
  <2>1. op.op # "SetComponent"
    BY <1>1 DEF EmitEvent
  <2> QED
    BY <1>1, <2>1, ApplyEmit DEF Staging
<1>3. IsSeq(Append(ops, op)) /\ StagedAgrees(view, Append(ops, op), st2)
  BY <1>2, SeqAppend, StagedSame DEF Staging
<1> QED
  BY <1>1, <1>2, <1>3 DEF Staging

(* Short batches, one operation after the other.                           *)
LEMMA Snoc1 ==
  ASSUME NEW s, IsSeq(s), NEW a
  PROVE  s \o <<a>> = Append(s, a)
<1>1. PICK S : s \in Seq(S)
  BY DEF IsSeq
<1>2. s \in Seq(S \cup {a}) /\ <<a>> \in Seq(S \cup {a})
  BY <1>1
<1> QED
  BY <1>2

(* Two elements behind a sequence, appended one by one.                    *)
LEMMA Snoc2 ==
  ASSUME NEW s, IsSeq(s), NEW a, NEW b
  PROVE  s \o <<a, b>> = Append(Append(s, a), b)
<1>1. PICK S : s \in Seq(S)
  BY DEF IsSeq
<1>2. s \in Seq(S \cup {a, b}) /\ <<a, b>> \in Seq(S \cup {a, b})
  BY <1>1
<1>3. PICK u, v : u = s \o <<a, b>> /\ v = Append(Append(s, a), b)
  OBVIOUS
<1>4. u \in Seq(S \cup {a, b}) /\ Len(u) = Len(s) + 2 /\ Len(s) \in Nat
      /\ v \in Seq(S \cup {a, b}) /\ Len(v) = Len(s) + 2
      /\ \A i \in 1 .. Len(s) + 2 : u[i] = v[i]
  BY <1>2, <1>3
<1> QED
  BY <1>3, <1>4, SeqSame

(* Three elements behind a sequence, appended one by one.                  *)
LEMMA Snoc3 ==
  ASSUME NEW s, IsSeq(s), NEW a, NEW b, NEW d
  PROVE  s \o <<a, b, d>> = Append(Append(Append(s, a), b), d)
<1>1. PICK S : s \in Seq(S)
  BY DEF IsSeq
<1>2. s \in Seq(S \cup {a, b, d}) /\ <<a, b, d>> \in Seq(S \cup {a, b, d})
  BY <1>1
<1>3. PICK u, v : u = s \o <<a, b, d>> /\ v = Append(Append(Append(s, a), b), d)
  OBVIOUS
<1>4. u \in Seq(S \cup {a, b, d}) /\ Len(u) = Len(s) + 3 /\ Len(s) \in Nat
      /\ v \in Seq(S \cup {a, b, d}) /\ Len(v) = Len(s) + 3
      /\ \A i \in 1 .. Len(s) + 3 : u[i] = v[i]
  BY <1>2, <1>3
<1> QED
  BY <1>3, <1>4, SeqSame

(* Four elements behind a sequence, appended one by one.                   *)
LEMMA Snoc4 ==
  ASSUME NEW s, IsSeq(s), NEW a, NEW b, NEW d, NEW e
  PROVE  s \o <<a, b, d, e>> = Append(Append(Append(Append(s, a), b), d), e)
<1>1. PICK S : s \in Seq(S)
  BY DEF IsSeq
<1>2. s \in Seq(S \cup {a, b, d, e}) /\ <<a, b, d, e>> \in Seq(S \cup {a, b, d, e})
  BY <1>1
<1>3. PICK u, v : /\ u = s \o <<a, b, d, e>>
                  /\ v = Append(Append(Append(Append(s, a), b), d), e)
  OBVIOUS
<1>4. u \in Seq(S \cup {a, b, d, e}) /\ Len(u) = Len(s) + 4 /\ Len(s) \in Nat
      /\ v \in Seq(S \cup {a, b, d, e}) /\ Len(v) = Len(s) + 4
      /\ \A i \in 1 .. Len(s) + 4 : u[i] = v[i]
  BY <1>2, <1>3
<1> QED
  BY <1>3, <1>4, SeqSame

(***************************************************************************)
(* The same for the batch of an accepted action.                           *)
(***************************************************************************)
LEMMA StagingSpawn1 ==
  ASSUME NEW view, NEW ops, NEW st, Staging(view, ops, st), NEW id, id # GhostUser,
         NEW t1, NEW v1
  PROVE  Staging(view, ops \o Spawn1(id, t1, v1), Apply(st, Spawn1(id, t1, v1)))
<1>1. PICK o, o1 : o = SpawnEntity(id) /\ o1 = SetComponent(id, t1, v1)
  OBVIOUS
<1>2. PICK s0, s1 : s0 = ApplyOp(st, o) /\ s1 = ApplyOp(s0, o1)
  OBVIOUS
<1>3. Staging(view, Append(ops, o), s0) /\ id \in s0.live
  BY <1>1, <1>2, StagingSpawn
<1>4. Staging(view, Append(Append(ops, o), o1), s1)
  BY <1>1, <1>2, <1>3, StagingSet
<1>5. Spawn1(id, t1, v1) = <<o, o1>>
  BY <1>1 DEF Spawn1
<1>6. ops \o <<o, o1>> = Append(Append(ops, o), o1) /\ Apply(st, <<o, o1>>) = s1
  BY <1>2, Snoc2, ApplyTwo DEF Staging
<1> QED
  BY <1>4, <1>5, <1>6

(* A staged entity with two components agrees with the store to come.      *)
LEMMA StagingSpawn2 ==
  ASSUME NEW view, NEW ops, NEW st, Staging(view, ops, st), NEW id, id # GhostUser,
         NEW t1, NEW v1, NEW t2, NEW v2
  PROVE  Staging(view, ops \o Spawn2(id, t1, v1, t2, v2),
                 Apply(st, Spawn2(id, t1, v1, t2, v2)))
<1>1. PICK o, o1, o2 : /\ o = SpawnEntity(id) /\ o1 = SetComponent(id, t1, v1)
                       /\ o2 = SetComponent(id, t2, v2)
  OBVIOUS
<1>2. PICK s0, s1, s2 : /\ s0 = ApplyOp(st, o) /\ s1 = ApplyOp(s0, o1)
                        /\ s2 = ApplyOp(s1, o2)
  OBVIOUS
<1>3. Staging(view, Append(ops, o), s0) /\ id \in s0.live
  BY <1>1, <1>2, StagingSpawn
<1>4. PICK p1 : p1 = Append(Append(ops, o), o1)
  OBVIOUS
<1>5. Staging(view, p1, s1) /\ id \in s1.live
  BY <1>1, <1>2, <1>3, <1>4, StagingSet
<1>6. Staging(view, Append(p1, o2), s2)
  BY <1>1, <1>2, <1>5, StagingSet
<1>7. Spawn2(id, t1, v1, t2, v2) = <<o, o1, o2>>
  BY <1>1 DEF Spawn2
<1>8. ops \o <<o, o1, o2>> = Append(p1, o2) /\ Apply(st, <<o, o1, o2>>) = s2
  BY <1>2, <1>4, Snoc3, ApplyThree DEF Staging
<1> QED
  BY <1>6, <1>7, <1>8

(* A staged entity with three components agrees with the store to come.    *)
LEMMA StagingSpawn3 ==
  ASSUME NEW view, NEW ops, NEW st, Staging(view, ops, st), NEW id, id # GhostUser,
         NEW t1, NEW v1, NEW t2, NEW v2, NEW t3, NEW v3
  PROVE  Staging(view, ops \o Spawn3(id, t1, v1, t2, v2, t3, v3),
                 Apply(st, Spawn3(id, t1, v1, t2, v2, t3, v3)))
<1>1. PICK o, o1, o2, o3 :
        /\ o = SpawnEntity(id) /\ o1 = SetComponent(id, t1, v1)
        /\ o2 = SetComponent(id, t2, v2) /\ o3 = SetComponent(id, t3, v3)
  OBVIOUS
<1>2. PICK s0, s1, s2, s3 : /\ s0 = ApplyOp(st, o) /\ s1 = ApplyOp(s0, o1)
                            /\ s2 = ApplyOp(s1, o2) /\ s3 = ApplyOp(s2, o3)
  OBVIOUS
<1>3. Staging(view, Append(ops, o), s0) /\ id \in s0.live
  BY <1>1, <1>2, StagingSpawn
<1>4. PICK p1, p2 : p1 = Append(Append(ops, o), o1) /\ p2 = Append(p1, o2)
  OBVIOUS
<1>5. Staging(view, p1, s1) /\ id \in s1.live
  BY <1>1, <1>2, <1>3, <1>4, StagingSet
<1>6. Staging(view, p2, s2) /\ id \in s2.live
  BY <1>1, <1>2, <1>4, <1>5, StagingSet
<1>7. Staging(view, Append(p2, o3), s3)
  BY <1>1, <1>2, <1>6, StagingSet
<1>8. Spawn3(id, t1, v1, t2, v2, t3, v3) = <<o, o1, o2, o3>>
  BY <1>1 DEF Spawn3
<1>9. ops \o <<o, o1, o2, o3>> = Append(p2, o3) /\ Apply(st, <<o, o1, o2, o3>>) = s3
  BY <1>2, <1>4, Snoc4, ApplyFour DEF Staging
<1> QED
  BY <1>7, <1>8, <1>9

(* A staged erasure agrees with the store to come.                         *)
LEMMA StagingErase ==
  ASSUME NEW view, NEW ops, NEW st, Staging(view, ops, st),
         NEW u \in st.live \cup {GhostUser}
  PROVE  Staging(view, ops \o EraseOps(u), Apply(st, EraseOps(u)))
<1>1. PICK o, o1 : /\ o = SetComponent(u, "UserGdprState", "ErasurePending")
                   /\ o1 = EmitEvent("UserErasureScheduled", u)
  OBVIOUS
<1>2. PICK s0, s1 : s0 = ApplyOp(st, o) /\ s1 = ApplyOp(s0, o1)
  OBVIOUS
<1>3. Staging(view, Append(ops, o), s0)
  BY <1>1, <1>2, StagingSet
<1>4. Staging(view, Append(Append(ops, o), o1), s1)
  BY <1>1, <1>2, <1>3, StagingEmit
<1>5. EraseOps(u) = <<o, o1>>
  BY <1>1 DEF EraseOps
<1>6. ops \o <<o, o1>> = Append(Append(ops, o), o1) /\ Apply(st, <<o, o1>>) = s1
  BY <1>2, Snoc2, ApplyTwo DEF Staging
<1> QED
  BY <1>4, <1>5, <1>6

(* Whatever was accepted, what is staged agrees with the store to come.    *)
LEMMA AcceptedStaging ==
  ASSUME NEW c, IsContext(c), c.tick # 0, NEW a, NEW st, Coherent(c, a, st),
         NEW view, NEW pre, Staging(view, pre, st),
         NEW d, NEW ops, Accepted(c, a, d, ops)
  PROVE  Staging(view, pre \o ops, Apply(st, ops))
<1>1. \A type : \A id \in Derived(c, type) : id # GhostUser
  BY DerivedId, ServiceAssumption DEF Derived
<1>2. CASE Spawns(c, a, d, ops)
  BY <1>1, <1>2, StagingSpawn1, StagingSpawn2, StagingSpawn3
  DEF Spawns, UserOps, ActorOps, ActivityOps, SpaceOps
<1>3. CASE Erases(c, a, d, ops)
  BY <1>3, StagingErase DEF Erases, Coherent, OfKind
<1>4. CASE a.kind = "RetractActivity" /\ ops = <<>>
  <2>1. Apply(st, ops) = st
    BY <1>4, ApplyNone
  <2>2. pre \o <<>> = pre
    BY DEF Staging, IsSeq
  <2> QED
    BY <1>4, <2>1, <2>2
<1> QED
  BY <1>2, <1>3, <1>4 DEF Accepted

-----------------------------------------------------------------------------
(***************************************************************************)
(* The records of a context and the events its operations emit.            *)
(***************************************************************************)
Quiet(w, w2) == IsStore(w2) /\ w2.events = w.events

(* A spawn emits no event.                                                 *)
LEMMA QuietSpawn ==
  ASSUME NEW w, IsStore(w), NEW id
  PROVE  Quiet(w, ApplyOp(w, SpawnEntity(id)))
BY ApplySpawn DEF Quiet

(* A SetComponent emits no event.                                          *)
LEMMA QuietSet ==
  ASSUME NEW w, IsStore(w), NEW e, NEW type, NEW value
  PROVE  Quiet(w, ApplyOp(w, SetComponent(e, type, value)))
<1>1. CASE e \in w.live
  <2>1. LET s2 == ApplyOp(w, SetComponent(e, type, value))
        IN  /\ IsStore(s2) /\ s2.events = w.events
            /\ s2.comps[<<e, type>>] = value
    BY <1>1, ApplySet
  <2> QED
    BY <2>1 DEF Quiet
<1>2. CASE e \notin w.live
  <2>1. ApplyOp(w, SetComponent(e, type, value)) = w
    BY <1>2, ApplySetUnknown
  <2> QED
    BY <2>1 DEF Quiet
<1> QED
  BY <1>1, <1>2

(* An entity with one component emits no event.                            *)
LEMMA QuietSpawn1 ==
  ASSUME NEW w, IsStore(w), NEW id, NEW t1, NEW v1
  PROVE  Quiet(w, Apply(w, Spawn1(id, t1, v1)))
<1>1. PICK o, o1, s0, s1 :
        /\ o = SpawnEntity(id) /\ o1 = SetComponent(id, t1, v1)
        /\ s0 = ApplyOp(w, o) /\ s1 = ApplyOp(s0, o1)
  OBVIOUS
<1>2. Quiet(w, s0)
  BY <1>1, QuietSpawn
<1>3. Quiet(s0, s1)
  <2>1. IsStore(s0)
    BY <1>2 DEF Quiet
  <2>2. Quiet(s0, ApplyOp(s0, SetComponent(id, t1, v1)))
    BY <2>1, QuietSet, Zenon
  <2> QED
    BY <1>1, <2>2, Zenon
<1>4. Apply(w, Spawn1(id, t1, v1)) = s1
  BY <1>1, ApplyTwo DEF Spawn1
<1> QED
  BY <1>2, <1>3, <1>4 DEF Quiet

(* An entity with two components emits no event.                           *)
LEMMA QuietSpawn2 ==
  ASSUME NEW w, IsStore(w), NEW id, NEW t1, NEW v1, NEW t2, NEW v2
  PROVE  Quiet(w, Apply(w, Spawn2(id, t1, v1, t2, v2)))
<1>1. PICK o, o1, o2, s0, s1, s2 :
        /\ o = SpawnEntity(id) /\ o1 = SetComponent(id, t1, v1)
        /\ o2 = SetComponent(id, t2, v2)
        /\ s0 = ApplyOp(w, o) /\ s1 = ApplyOp(s0, o1) /\ s2 = ApplyOp(s1, o2)
  OBVIOUS
<1>2. Quiet(w, s0)
  BY <1>1, QuietSpawn
<1>3. Quiet(s0, s1)
  <2>1. IsStore(s0)
    BY <1>2 DEF Quiet
  <2>2. Quiet(s0, ApplyOp(s0, SetComponent(id, t1, v1)))
    BY <2>1, QuietSet, Zenon
  <2> QED
    BY <1>1, <2>2, Zenon
<1>4. Quiet(s1, s2)
  <2>1. IsStore(s1)
    BY <1>3 DEF Quiet
  <2>2. Quiet(s1, ApplyOp(s1, SetComponent(id, t2, v2)))
    BY <2>1, QuietSet, Zenon
  <2> QED
    BY <1>1, <2>2, Zenon
<1>5. Apply(w, Spawn2(id, t1, v1, t2, v2)) = s2
  BY <1>1, ApplyThree DEF Spawn2
<1> QED
  BY <1>2, <1>3, <1>4, <1>5 DEF Quiet

(* An entity with three components emits no event.                         *)
LEMMA QuietSpawn3 ==
  ASSUME NEW w, IsStore(w), NEW id, NEW t1, NEW v1, NEW t2, NEW v2, NEW t3, NEW v3
  PROVE  Quiet(w, Apply(w, Spawn3(id, t1, v1, t2, v2, t3, v3)))
<1>1. PICK o, o1, o2, o3, s0, s1, s2, s3 :
        /\ o = SpawnEntity(id) /\ o1 = SetComponent(id, t1, v1)
        /\ o2 = SetComponent(id, t2, v2) /\ o3 = SetComponent(id, t3, v3)
        /\ s0 = ApplyOp(w, o) /\ s1 = ApplyOp(s0, o1) /\ s2 = ApplyOp(s1, o2)
        /\ s3 = ApplyOp(s2, o3)
  OBVIOUS
<1>2. Quiet(w, s0)
  BY <1>1, QuietSpawn
<1>3. Quiet(s0, s1)
  <2>1. IsStore(s0)
    BY <1>2 DEF Quiet
  <2>2. Quiet(s0, ApplyOp(s0, SetComponent(id, t1, v1)))
    BY <2>1, QuietSet, Zenon
  <2> QED
    BY <1>1, <2>2, Zenon
<1>4. Quiet(s1, s2)
  <2>1. IsStore(s1)
    BY <1>3 DEF Quiet
  <2>2. Quiet(s1, ApplyOp(s1, SetComponent(id, t2, v2)))
    BY <2>1, QuietSet, Zenon
  <2> QED
    BY <1>1, <2>2, Zenon
<1>5. Quiet(s2, s3)
  <2>1. IsStore(s2)
    BY <1>4 DEF Quiet
  <2>2. Quiet(s2, ApplyOp(s2, SetComponent(id, t3, v3)))
    BY <2>1, QuietSet, Zenon
  <2> QED
    BY <1>1, <2>2, Zenon
<1>6. Apply(w, Spawn3(id, t1, v1, t2, v2, t3, v3)) = s3
  BY <1>1, ApplyFour DEF Spawn3
<1> QED
  BY <1>2, <1>3, <1>4, <1>5, <1>6 DEF Quiet

(* An erasure emits one event, of its user.                                *)
LEMMA LoudErase ==
  ASSUME NEW w, IsStore(w), NEW u
  PROVE  /\ IsStore(Apply(w, EraseOps(u)))
         /\ Apply(w, EraseOps(u)).events = Append(w.events, u)
<1>1. PICK o, o1, s0, s1 :
        /\ o = SetComponent(u, "UserGdprState", "ErasurePending")
        /\ o1 = EmitEvent("UserErasureScheduled", u)
        /\ s0 = ApplyOp(w, o) /\ s1 = ApplyOp(s0, o1)
  OBVIOUS
<1>2. Quiet(w, s0)
  BY <1>1, QuietSet
<1>3. IsStore(s1) /\ s1.events = Append(s0.events, u)
  BY <1>1, <1>2, ApplyEmit DEF Quiet
<1>4. Apply(w, EraseOps(u)) = s1
  BY <1>1, ApplyTwo DEF EraseOps
<1> QED
  BY <1>2, <1>3, <1>4 DEF Quiet

Mirrors(w, records, n, tick) ==
  /\ IsStore(w) /\ IsSeq(records) /\ n = Len(records)
  /\ w.events = [i \in DOMAIN records |-> records[i].value]
  /\ \A i \in DOMAIN records : records[i].sequence = i - 1 /\ records[i].tick = tick

(* An event and its record, with the next number, keep the records the     *)
(* mirror of the events.                                                   *)
LEMMA MirrorAppend ==
  ASSUME NEW w, NEW records, NEW n, NEW tick, Mirrors(w, records, n, tick),
         NEW w2, IsStore(w2), NEW record,
         w2.events = Append(w.events, record.value),
         record.sequence = n, record.tick = tick
  PROVE  Mirrors(w2, Append(records, record), n + 1, tick)
<1>1. PICK more : more = Append(records, record)
  OBVIOUS
<1>2. /\ IsSeq(more) /\ Len(records) \in Nat /\ DOMAIN records = 1 .. Len(records)
      /\ Len(more) = Len(records) + 1 /\ DOMAIN more = 1 .. Len(records) + 1
      /\ \A i \in 1 .. Len(records) : more[i] = records[i]
      /\ more[Len(records) + 1] = record
  BY <1>1, SeqAppend DEF Mirrors
<1>3. n = Len(records)
  BY DEF Mirrors
<1>4. w2.events = [i \in DOMAIN more |-> more[i].value]
  <2> DEFINE S == {more[i].value : i \in DOMAIN more}
             now2 == [i \in DOMAIN more |-> more[i].value]
             now1 == [i \in DOMAIN records |-> records[i].value]
  <2>1. now1 \in Seq(S)
    <3>1. \A i \in 1 .. Len(records) : records[i].value \in S
      BY <1>2
    <3> HIDE DEF S
    <3> QED
      BY <1>2, <3>1
  <2>2. now2 \in Seq(S) /\ Len(now2) = Len(records) + 1
    <3>1. \A i \in 1 .. Len(records) + 1 : more[i].value \in S
      BY <1>2
    <3> HIDE DEF S
    <3> QED
      BY <1>2, <3>1
  <2>3. record.value \in S /\ Len(now1) = Len(records)
    BY <1>2
  <2>4. /\ \A i \in 1 .. Len(records) : now1[i] = now2[i]
        /\ now2[Len(records) + 1] = record.value
    BY <1>2
  <2>5. w2.events = Append(now1, record.value)
    BY DEF Mirrors
  <2> HIDE DEF S, now1, now2
  <2>6. PICK ev : ev = Append(now1, record.value)
    OBVIOUS
  <2>7. /\ ev \in Seq(S) /\ Len(ev) = Len(records) + 1
        /\ \A i \in 1 .. Len(records) : ev[i] = now1[i]
        /\ ev[Len(records) + 1] = record.value
    BY <1>2, <2>1, <2>3, <2>6
  <2>8. \A i \in 1 .. Len(ev) : ev[i] = now2[i]
    <3>1. \A i \in 1 .. Len(ev) : i \in 1 .. Len(records) \/ i = Len(records) + 1
      BY <1>2, <2>7
    <3> QED
      BY <2>4, <2>7, <3>1
  <2>9. ev = now2
    BY <2>2, <2>7, <2>8, SeqSame
  <2> QED
    BY <2>5, <2>6, <2>9 DEF now2
<1>5. \A i \in DOMAIN more : more[i].sequence = i - 1 /\ more[i].tick = tick
  <2>1. \A i \in DOMAIN more : i \in 1 .. Len(records) \/ i = Len(records) + 1
    BY <1>2
  <2>2. (Len(records) + 1) - 1 = n
    BY <1>2, <1>3
  <2> QED
    BY <1>2, <2>1, <2>2 DEF Mirrors
<1> QED
  BY <1>1, <1>2, <1>3, <1>4, <1>5 DEF Mirrors

(* Operations without an event keep the mirror.                            *)
LEMMA MirrorQuiet ==
  ASSUME NEW w, NEW records, NEW n, NEW tick, Mirrors(w, records, n, tick),
         NEW w2, Quiet(w, w2)
  PROVE  Mirrors(w2, records, n, tick)
BY DEF Mirrors, Quiet

(* The records an accepted action leaves are those of the events it        *)
(* staged.                                                                 *)
LEMMA AcceptedMirror ==
  ASSUME NEW c, IsContext(c), NEW a, NEW w, NEW records,
         Mirrors(w, records, c.eventSeq, c.tick), c.events = <<>>,
         NEW d, NEW ops, Accepted(c, a, d, ops)
  PROVE  Mirrors(Apply(w, ops), records \o d.events, d.eventSeq, c.tick)
<1>0. IsStore(w) /\ IsSeq(records)
  BY DEF Mirrors
<1>1. records \o <<>> = records
  BY <1>0 DEF IsSeq
<1>2. CASE Spawns(c, a, d, ops)
  <2>1. Quiet(w, Apply(w, ops))
    BY <1>0, <1>2, QuietSpawn1, QuietSpawn2, QuietSpawn3
    DEF Spawns, UserOps, ActorOps, ActivityOps, SpaceOps
  <2>2. d.events = <<>> /\ d.eventSeq = c.eventSeq
    BY <1>2 DEF Spawns, Wrote
  <2> QED
    BY <1>1, <2>1, <2>2, MirrorQuiet
<1>3. CASE Erases(c, a, d, ops)
  <2>1. PICK record : record = [type |-> "UserErasureScheduled", value |-> a.user,
                                sequence |-> c.eventSeq, tick |-> c.tick]
    OBVIOUS
  <2>2. PICK w2 : w2 = Apply(w, ops)
    OBVIOUS
  <2>3. IsStore(w2) /\ w2.events = Append(w.events, a.user)
    BY <1>0, <1>3, <2>2, LoudErase DEF Erases
  <2>4. d.events = Append(<<>>, record) /\ d.eventSeq = c.eventSeq + 1
    BY <1>3, <2>1 DEF Erases
  <2>5. record.value = a.user /\ record.sequence = c.eventSeq /\ record.tick = c.tick
    BY <2>1
  <2>6. Mirrors(w2, Append(records, record), c.eventSeq + 1, c.tick)
    BY <2>3, <2>5, MirrorAppend
  <2>7. Append(<<>>, record) = <<record>>
    OBVIOUS
  <2>8. records \o <<record>> = Append(records, record)
    BY <1>0, Snoc1
  <2> QED
    BY <2>2, <2>4, <2>6, <2>7, <2>8
<1>4. CASE a.kind = "RetractActivity" /\ d = c /\ ops = <<>>
  <2>1. Apply(w, ops) = w
    BY <1>4, ApplyNone
  <2> QED
    BY <1>1, <1>4, <2>1
<1> QED
  BY <1>2, <1>3, <1>4 DEF Accepted

-----------------------------------------------------------------------------
(* The ids of one batch of operations after another.                       *)
SpawnsDistinct(ops) ==
  \A i, j \in SpawnsIn(ops) : ops[i].entity = ops[j].entity => i = j

(* Two lists that spawn different entities spawn them all, each once.      *)
LEMMA SpawnsConcat ==
  ASSUME NEW a, IsSeq(a), NEW b, IsSeq(b), SpawnsDistinct(a),
         SpawnsIn(b) \in {{}, {1}}, Spawned(b) \cap Spawned(a) = {}
  PROVE  /\ Spawned(a \o b) = Spawned(a) \cup Spawned(b)
         /\ SpawnsDistinct(a \o b)
<1>1. PICK ab, n : ab = a \o b /\ n = Len(a)
  OBVIOUS
<1>2. /\ n \in Nat /\ Len(b) \in Nat
      /\ DOMAIN a = 1 .. n /\ DOMAIN b = 1 .. Len(b) /\ DOMAIN ab = 1 .. n + Len(b)
      /\ \A i \in 1 .. n : ab[i] = a[i]
      /\ \A i \in 1 .. Len(b) : ab[n + i] = b[i]
      /\ \A i \in n + 1 .. n + Len(b) : ab[i] = b[i - n]
  <2>1. /\ Len(a) \in Nat /\ Len(b) \in Nat
        /\ DOMAIN a = 1 .. Len(a) /\ DOMAIN b = 1 .. Len(b)
        /\ DOMAIN (a \o b) = 1 .. Len(a) + Len(b)
        /\ \A i \in 1 .. Len(a) : (a \o b)[i] = a[i]
        /\ \A i \in 1 .. Len(b) : (a \o b)[Len(a) + i] = b[i]
        /\ \A i \in Len(a) + 1 .. Len(a) + Len(b) : (a \o b)[i] = b[i - Len(a)]
    BY SeqConcat
  <2> QED
    BY <1>1, <2>1, Zenon
<1>3. ASSUME NEW i \in SpawnsIn(ab)
      PROVE  \/ i \in SpawnsIn(a) /\ ab[i] = a[i]
             \/ i = n + 1 /\ 1 \in SpawnsIn(b) /\ ab[i] = b[1]
  <2>1. i \in 1 .. n + Len(b) /\ ab[i].op = "SpawnEntity"
    BY <1>2 DEF SpawnsIn
  <2>2. CASE i \in 1 .. n
    BY <1>2, <2>1, <2>2 DEF SpawnsIn
  <2>3. CASE i \in n + 1 .. n + Len(b)
    <3>1. i - n \in 1 .. Len(b) /\ ab[i] = b[i - n]
      BY <1>2, <2>3
    <3>2. i - n \in SpawnsIn(b)
      BY <1>2, <2>1, <3>1 DEF SpawnsIn
    <3>3. i - n = 1
      BY <3>2
    <3>4. i = n + 1
      BY <1>2, <2>1, <3>3
    <3> QED
      BY <3>1, <3>2, <3>3, <3>4
  <2> QED
    BY <1>2, <2>1, <2>2, <2>3
<1>4. \A i \in SpawnsIn(a) : i \in SpawnsIn(ab) /\ ab[i] = a[i]
  BY <1>2 DEF SpawnsIn
<1>5. ASSUME 1 \in SpawnsIn(b)
      PROVE  n + 1 \in SpawnsIn(ab) /\ ab[n + 1] = b[1]
  <2>1. 1 \in 1 .. Len(b) /\ b[1].op = "SpawnEntity"
    BY <1>2, <1>5 DEF SpawnsIn
  <2>2. ab[n + 1] = b[1] /\ n + 1 \in DOMAIN ab
    BY <1>2, <2>1
  <2> QED
    BY <2>1, <2>2 DEF SpawnsIn
<1>6. \A i \in SpawnsIn(b) : i = 1
  OBVIOUS
<1>7. Spawned(ab) = Spawned(a) \cup Spawned(b)
  <2>1. ASSUME NEW e \in Spawned(ab) PROVE e \in Spawned(a) \cup Spawned(b)
    BY <1>3 DEF Spawned
  <2>2. ASSUME NEW e \in Spawned(a) PROVE e \in Spawned(ab)
    BY <1>4 DEF Spawned
  <2>3. ASSUME NEW e \in Spawned(b) PROVE e \in Spawned(ab)
    <3>1. PICK i \in SpawnsIn(b) : e = b[i].entity
      BY DEF Spawned
    <3>2. n + 1 \in SpawnsIn(ab) /\ ab[n + 1] = b[1] /\ i = 1
      BY <1>5, <1>6, <3>1
    <3> QED
      BY <3>1, <3>2 DEF Spawned
  <2> QED
    BY <2>1, <2>2, <2>3
<1>8. ASSUME NEW i \in SpawnsIn(ab), NEW j \in SpawnsIn(ab), ab[i].entity = ab[j].entity
      PROVE  i = j
  <2>1. \A k \in SpawnsIn(a) : a[k].entity \in Spawned(a)
    BY DEF Spawned
  <2>2. 1 \in SpawnsIn(b) => b[1].entity \in Spawned(b)
    BY DEF Spawned
  <2>3. CASE i \in SpawnsIn(a) /\ ab[i] = a[i] /\ j \in SpawnsIn(a) /\ ab[j] = a[j]
    BY <1>8, <2>3 DEF SpawnsDistinct
  <2>4. CASE i = n + 1 /\ j = n + 1
    BY <2>4
  <2> QED
    BY <1>3, <1>8, <2>1, <2>2, <2>3, <2>4
<1> QED
  BY <1>1, <1>7, <1>8 DEF SpawnsDistinct

-----------------------------------------------------------------------------
(***************************************************************************)
(* The gate: whoever passes it is bound to a user that is Active.          *)
(***************************************************************************)
LEMMA EligibleGated ==
  ASSUME NEW c, NEW st, NEW t \in Nat, GoodStore(st, t),
         StagedAgrees(c.view, c.ops, st), NEW x \in OfKind(st, "ActorProfile"),
         EnsureActorEligible(c, x) = "Ok"
  PROVE  /\ Binding(st, x) \in OfKind(st, "UserProfile")
         /\ st.comps[<<Binding(st, x), "UserGdprState">>] = "Active"
<1>1. GhostUser \notin st.live
  BY Unregistered DEF GoodStore
<1>2. PICK u : u = Binding(st, x)
  OBVIOUS
<1>3. /\ <<x, "UserBinding">> \in DOMAIN st.comps /\ x # GhostUser
      /\ u \in OfKind(st, "UserProfile") \cup {GhostUser}
  BY <1>1, <1>2 DEF GoodStore, OfKind, Whole, ActorWhole, Binding
<1>4. AuthenticatedActorUser(c, x) = {u}
  <2>1. StagedOf(c.view, c.ops, x, "UserBinding") = LookUp(st.comps, <<x, "UserBinding">>)
    BY <1>3 DEF StagedAgrees
  <2>2. LookUp(st.comps, <<x, "UserBinding">>) = {u}
    BY <1>2, <1>3 DEF LookUp, Binding
  <2> QED
    BY <2>1, <2>2, StagedReadIs DEF AuthenticatedActorUser
<1>5. PICK s : s = StagedOf(c.view, c.ops, u, "UserGdprState")
  OBVIOUS
<1>6. UserGdprStatus(c, u) = s
  BY <1>5, StagedReadIs DEF UserGdprStatus
<1>7. s = {"Active"}
  <2>1. UNION {UserGdprStatus(c, v) : v \in {u}} = s
    BY <1>6
  <2>2. {u} # {}
    OBVIOUS
  <2>3. EnsureActorEligible(c, x) =
          IF {u} = {} \/ s = {"Active"} THEN "Ok"
          ELSE IF s = {} THEN "UserLifecycleUnresolved" ELSE "UserErasurePending"
    BY <1>4, <2>1 DEF EnsureActorEligible
  <2> QED
    BY <2>2, <2>3
<1>8. u # GhostUser
  BY <1>5, <1>7 DEF StagedAgrees
<1>9. LookUp(st.comps, <<u, "UserGdprState">>) = {"Active"}
  BY <1>5, <1>7, <1>8 DEF StagedAgrees
<1>10. st.comps[<<u, "UserGdprState">>] = "Active"
  BY <1>9 DEF LookUp
<1> QED
  BY <1>2, <1>3, <1>8, <1>10

(* Nothing is staged on a context without operations.                      *)
LEMMA NothingStaged ==
  ASSUME NEW st, NEW t \in Nat, GoodStore(st, t)
  PROVE  Staging(st.comps, <<>>, st)
<1>1. \A e, type : StagedOf(st.comps, <<>>, e, type) = LookUp(st.comps, <<e, type>>)
  BY DEF StagedOf, SetsIn
<1>2. GhostUser \notin st.live
  BY Unregistered DEF GoodStore
<1>3. LookUp(st.comps, <<GhostUser, "UserGdprState">>) = {}
  <2>1. <<GhostUser, "UserGdprState">> \notin DOMAIN st.comps
    BY <1>2 DEF GoodStore, KeysLive
  <2> QED
    BY <2>1 DEF LookUp
<1>4. IsSeq(<<>>)
  BY DEF IsSeq
<1> QED
  BY <1>1, <1>2, <1>3, <1>4 DEF Staging, StagedAgrees, GoodStore

(***************************************************************************)
(* What a caller asks for, and the entry of what was accepted.             *)
(***************************************************************************)
GoodRequest(a, st) ==
  /\ a.kind \in Kinds
  /\ a.kind \in {"RegisterActor", "GdprEraseUser"} =>
       a.user \in OfKind(st, "UserProfile") \cup {GhostUser}
  /\ a.kind = "CreateSpace" =>
       /\ \A p, q \in a.parent : p = q
       /\ \A p \in a.parent : p \in OfKind(st, "SpaceConfig")
  /\ a.kind = "SubmitActivity" => OneKey(a)

EntryOf(e, path, a, actor, tick, ops) ==
  /\ e.path = path /\ e.kind = a.kind /\ e.actor = actor /\ e.tick = tick
  /\ e.spawned = Spawned(ops)
  /\ e.user = IF a.kind = "GdprEraseUser" /\ ops # <<>> THEN {a.user} ELSE {}
  /\ e.key = IF a.kind = "SubmitActivity" THEN a.key ELSE {}

(* The fields of a logged entry.                                           *)
LEMMA EntryFields ==
  ASSUME NEW path, NEW a, NEW actor, NEW tick, NEW ops
  PROVE  EntryOf(Entry(path, a, actor, tick, ops), path, a, actor, tick, ops)
BY DEF Entry, EntryOf

(* An accepted action, logged with its operations, is a consistent entry.  *)
LEMMA AcceptedEntry ==
  ASSUME NEW c, IsContext(c), NEW a, NEW st, Coherent(c, a, st), GoodRequest(a, st),
         c.tick \in Nat \ {0}, GoodStore(st, c.tick), NEW d, NEW ops, Accepted(c, a, d, ops),
         c.actor \subseteq st.live \cup {SystemActor},
         NEW path \in {"dispatch", "direct"}, NEW e,
         e = Entry(path, a, c.actor, c.tick, ops), Gated(st, e)
  PROVE  NewEntry(st, Apply(st, ops), e, c.tick)
<1>1. PICK st2 : st2 = Apply(st, ops)
  OBVIOUS
<1>2. Effect(c, a, st, ops, c.tick) /\ Erased(a, st, st2)
  BY <1>1, AcceptedEffect
<1>3. EntryOf(e, path, a, c.actor, c.tick, ops)
  BY EntryFields
<1>4. /\ GoodStore(st2, c.tick) /\ Frame(st, st2)
      /\ st2.live = st.live \cup Spawned(ops) /\ Spawned(ops) \cap st.live = {}
      /\ \A x \in Spawned(ops) : x[2] = c.tick
  BY <1>1, <1>2 DEF Effect
<1>5. /\ e.user \subseteq st.live \cup {GhostUser}
      /\ \A u \in e.user \cap OfKind(st, "UserProfile") :
           st2.comps[<<u, "UserGdprState">>] # "Active"
  <2>1. CASE a.kind = "GdprEraseUser"
    BY <1>2, <1>3, <2>1 DEF Erased, Coherent, OfKind, EntryOf
  <2>2. CASE a.kind # "GdprEraseUser"
    BY <1>3, <2>2 DEF EntryOf
  <2> QED
    BY <2>1, <2>2
<1>6. OneKey(e)
  BY <1>3 DEF GoodRequest, OneKey, EntryOf
<1> QED
  BY <1>1, <1>3, <1>4, <1>5, <1>6 DEF NewEntry, EntryOf

-----------------------------------------------------------------------------
(* The contexts that computes run on, as they begin.                       *)
Begun(c, tick, actor, view) ==
  /\ IsContext(c) /\ c.tick = tick /\ c.actor = actor /\ c.view = view
  /\ c.idSeq = 0 /\ c.eventSeq = 0 /\ c.events = <<>> /\ c.ops = <<>>

(* The context of the kernel starts empty, on an empty view.               *)
LEMMA BegunKernel ==
  ASSUME NEW tick, NEW actor
  PROVE  Begun(WithActor(NewContext(tick, TRUE), actor), tick, actor, EmptyMap)
<1>1. IsSeq(<<>>)
  BY DEF IsSeq
<1>2. PICK c : c = WithActor(NewContext(tick, TRUE), actor)
  OBVIOUS
<1>3. PICK none, nil : none = EmptyMap /\ nil = <<>>
  OBVIOUS
<1>4. c = [tick |-> tick, caps |-> TRUE, actor |-> actor, idSeq |-> 0,
           eventSeq |-> 0, events |-> nil, ops |-> nil, view |-> none,
           keys |-> none, handles |-> none]
  BY <1>2, <1>3 DEF WithActor, NewContext
<1>5. IsContext(c)
  BY <1>1, <1>3, <1>4 DEF IsContext
<1>6. Begun(c, tick, actor, none)
  BY <1>3, <1>4, <1>5 DEF Begun
<1> QED
  BY <1>2, <1>3, <1>6

(* The context of new_ctx starts empty, on the view and the indexes it was *)
(* given.                                                                  *)
LEMMA BegunDirect ==
  ASSUME NEW tick, NEW actor, NEW caps, NEW view, NEW keys, NEW handles
  PROVE  LET c == WithIndexes(WithActor(NewContext(tick, caps), actor), view, keys, handles)
         IN  /\ Begun(c, tick, actor, view)
             /\ c.keys = keys /\ c.handles = handles
<1>1. IsSeq(<<>>)
  BY DEF IsSeq
<1>2. PICK c : c = WithIndexes(WithActor(NewContext(tick, caps), actor), view, keys, handles)
  OBVIOUS
<1>3. PICK nil : nil = <<>>
  OBVIOUS
<1>4. c = [tick |-> tick, caps |-> caps, actor |-> actor, idSeq |-> 0,
           eventSeq |-> 0, events |-> nil, ops |-> nil, view |-> view,
           keys |-> keys, handles |-> handles]
  BY <1>2, <1>3 DEF WithActor, NewContext, WithIndexes
<1>5. IsContext(c)
  BY <1>1, <1>3, <1>4 DEF IsContext
<1>6. Begun(c, tick, actor, view) /\ c.keys = keys /\ c.handles = handles
  BY <1>3, <1>4, <1>5 DEF Begun
<1> QED
  BY <1>2, <1>6

IsActor(actor, st) ==
  actor = {} \/ \E x \in OfKind(st, "ActorProfile") \cup {SystemActor} : actor = {x}

(* A context that just began is coherent with the store it was opened on.  *)
LEMMA BegunCoherent ==
  ASSUME NEW st, NEW t \in Nat, GoodStore(st, t), NEW c, NEW actor, NEW view,
         Begun(c, t + 1, actor, view), view \in {EmptyMap, st.comps},
         IsActor(actor, st), NEW a, GoodRequest(a, st)
  PROVE  Coherent(c, a, st)
<1>1. \A e \in st.live : e[2] # t + 1
  BY DEF GoodStore, Ticks
<1>2. c.actor # {} => \E x : c.actor = {x}
  BY DEF IsActor, Begun
<1>3. \A k \in DOMAIN c.view : c.view[k] = st.comps[k]
  BY DEF Begun, EmptyMap
<1> QED
  BY <1>1, <1>2, <1>3 DEF Coherent, GoodRequest, Begun

(***************************************************************************)
(* kernel_compute: the operations of an accepted action, or none.          *)
(***************************************************************************)
LEMMA KernelFacts ==
  ASSUME NEW a, a.kind \in Kinds, NEW tick, NEW actor
  PROVE  \/ KernelCompute(a, tick, actor) = <<>>
         \/ \E d : Accepted(WithActor(NewContext(tick, TRUE), actor), a, d,
                            KernelCompute(a, tick, actor))
<1>1. PICK c : c = WithActor(NewContext(tick, TRUE), actor)
  OBVIOUS
<1>2. IsContext(c) /\ c.ops = <<>>
  BY <1>1, BegunKernel DEF Begun
<1>3. PICK run : run = Compute(c, a)
  OBVIOUS
<1>4. KernelCompute(a, tick, actor) = IF run.err = "Ok" THEN run.ctx.ops ELSE <<>>
  BY <1>1, <1>3 DEF KernelCompute
<1>5. CASE Refused(c, run)
  BY <1>4, <1>5 DEF Refused
<1>6. CASE run.err = "Ok" /\ \E ops : Accepted(c, a, run.ctx, ops)
  <2>1. PICK ops : Accepted(c, a, run.ctx, ops)
    BY <1>6
  <2>2. IsSeq(ops) /\ run.ctx.ops = <<>> \o ops
    <3>1. CASE Spawns(c, a, run.ctx, ops)
      <4>1. IsSeq(ops)
        <5>1. /\ \A id : IsSeq(UserOps(id)) /\ IsSeq(ActorOps(id, a))
              /\ \A id : IsSeq(ActivityOps(id, c, a))
              /\ \A id, depth : IsSeq(SpaceOps(id, c, a, depth))
          BY IsSpawn1, IsSpawn2, IsSpawn3, Zenon
          DEF UserOps, ActorOps, ActivityOps, SpaceOps
        <5> QED
          BY <3>1, <5>1 DEF Spawns
      <4>2. run.ctx.ops = c.ops \o ops
        BY <3>1 DEF Spawns, Wrote
      <4> QED
        BY <1>2, <4>1, <4>2
    <3>2. CASE Erases(c, a, run.ctx, ops)
      BY <1>2, <3>2, ShortSeqs DEF Erases, EraseOps
    <3>3. CASE run.ctx = c /\ ops = <<>>
      <4>1. IsSeq(<<>>) /\ <<>> \o <<>> = <<>>
        BY DEF IsSeq
      <4> QED
        BY <1>2, <3>3, <4>1
    <3> QED
      BY <2>1, <3>1, <3>2, <3>3 DEF Accepted
  <2>3. run.ctx.ops = ops
    BY <2>2 DEF IsSeq
  <2> QED
    BY <1>1, <1>4, <1>6, <2>1, <2>3
<1> QED
  BY <1>2, <1>3, <1>5, <1>6, ComputeFacts

(* A refused action is logged with no operation, and changes nothing.      *)
LEMMA RefusedEntry ==
  ASSUME NEW st, NEW t \in Nat \ {0}, GoodStore(st, t), NEW a, a.kind \in Kinds,
         GoodRequest(a, st), NEW actor, actor \subseteq st.live \cup {SystemActor},
         NEW path \in {"dispatch", "direct"}, NEW e,
         e = Entry(path, a, actor, t, <<>>), Gated(st, e)
  PROVE  NewEntry(st, Apply(st, <<>>), e, t)
<1>1. Apply(st, <<>>) = st /\ Spawned(<<>>) = {}
  BY ApplyNone, NoSpawns
<1>2. EntryOf(e, path, a, actor, t, <<>>)
  BY EntryFields
<1>3. Frame(st, st)
  BY DEF Frame
<1>4. e.user = {} /\ e.spawned = {} /\ OneKey(e)
  BY <1>1, <1>2 DEF EntryOf, GoodRequest, OneKey
<1> QED
  BY <1>1, <1>2, <1>3, <1>4 DEF NewEntry, EntryOf

(***************************************************************************)
(* A dispatch logs an entry that goes with what the kernel applied.        *)
(***************************************************************************)
LEMMA DispatchEntry ==
  ASSUME NEW st, NEW t \in Nat, GoodStore(st, t), NEW a, GoodRequest(a, st),
         NEW actor, IsActor(actor, st), NEW ops, ops = KernelCompute(a, t + 1, actor),
         NEW e, e = Entry("dispatch", a, actor, t + 1, ops), Gated(st, e)
  PROVE  NewEntry(st, Apply(st, ops), e, t + 1)
<1>1. PICK c : c = WithActor(NewContext(t + 1, TRUE), actor)
  OBVIOUS
<1>2. Begun(c, t + 1, actor, EmptyMap)
  BY <1>1, BegunKernel
<1>3. Coherent(c, a, st)
  BY <1>2, BegunCoherent
<1>4. GoodStore(st, t + 1) /\ t + 1 \in Nat \ {0}
  BY LaterGood
<1>5. actor \subseteq st.live \cup {SystemActor} /\ a.kind \in Kinds
  BY DEF IsActor, OfKind, GoodRequest
<1>6. CASE ops = <<>>
  BY <1>4, <1>5, <1>6, RefusedEntry
<1>7. CASE \E d : Accepted(c, a, d, ops)
  <2>1. PICK d : Accepted(c, a, d, ops)
    BY <1>7
  <2>2. c.tick = t + 1 /\ c.actor = actor /\ IsContext(c)
    BY <1>2 DEF Begun
  <2> QED
    BY <1>3, <1>4, <1>5, <2>1, <2>2, AcceptedEntry
<1> QED
  BY <1>1, <1>5, <1>6, <1>7, KernelFacts

(* The mark of an erased user is a consistent entry.                       *)
LEMMA MarkEntry ==
  ASSUME NEW st, NEW t \in Nat, GoodStore(st, t), NEW u \in OfKind(st, "UserProfile"),
         st.comps[<<u, "UserGdprState">>] = "ErasurePending",
         NEW ops, ops = <<SetComponent(u, "UserGdprState", "Erased")>>,
         NEW e, e = Entry("dispatch", [kind |-> "MarkErased"], {}, t + 1, ops)
  PROVE  NewEntry(st, Apply(st, ops), e, t + 1)
<1>1. PICK st2, a : st2 = Apply(st, ops) /\ a = [kind |-> "MarkErased"]
  OBVIOUS
<1>2. GoodStore(st, t + 1) /\ t + 1 \in Nat
  BY LaterGood
<1>3. GoodStore(st2, t + 1) /\ Frame(st, st2) /\ st2.live = st.live
  BY <1>1, <1>2, MarkGood, ApplyOne
<1>4. EntryOf(e, "dispatch", a, {}, t + 1, ops)
  BY <1>1, EntryFields
<1>5. Spawned(ops) = {}
  BY SpawnWrites DEF Spawned, SpawnsIn
<1>6. /\ e.user = {} /\ e.key = {} /\ e.actor = {} /\ e.spawned = {}
      /\ e.path = "dispatch" /\ e.tick = t + 1
  BY <1>1, <1>4, <1>5 DEF EntryOf
<1> QED
  BY <1>1, <1>3, <1>6 DEF NewEntry, OneKey, Gated

-----------------------------------------------------------------------------
(* What an accepted action makes of the context.                           *)
LEMMA AcceptedShape ==
  ASSUME NEW c, IsContext(c), NEW a, NEW d, NEW ops, Accepted(c, a, d, ops)
  PROVE  /\ IsContext(d) /\ SameInputs(c, d) /\ IsSeq(ops) /\ d.ops = c.ops \o ops
         /\ d.idSeq = c.idSeq + 1 \/ (Spawned(ops) = {} /\ d.idSeq = c.idSeq)
<1>1. CASE Spawns(c, a, d, ops)
  <2>1. /\ \A id : IsSeq(UserOps(id)) /\ IsSeq(ActorOps(id, a))
        /\ \A id : IsSeq(ActivityOps(id, c, a))
        /\ \A id, depth : IsSeq(SpaceOps(id, c, a, depth))
    BY IsSpawn1, IsSpawn2, IsSpawn3, Zenon
    DEF UserOps, ActorOps, ActivityOps, SpaceOps
  <2>2. IsSeq(ops)
    BY <1>1, <2>1 DEF Spawns
  <2> QED
    BY <1>1, <2>2 DEF Spawns, Wrote
<1>2. CASE Erases(c, a, d, ops)
  <2>1. IsSeq(ops) /\ Spawned(ops) = {}
    BY <1>2, ShortSeqs, NoSpawns DEF Erases, EraseOps
  <2> QED
    BY <1>2, <2>1 DEF Erases
<1>3. CASE d = c /\ ops = <<>>
  <2>1. IsSeq(ops) /\ Spawned(ops) = {}
    BY <1>3, NoSpawns DEF IsSeq
  <2>2. c.ops \o <<>> = c.ops
    BY DEF IsContext, IsSeq
  <2> QED
    BY <1>3, <2>1, <2>2 DEF SameInputs
<1> QED
  BY <1>1, <1>2, <1>3 DEF Accepted

(* drain_events takes the records and nothing else.                        *)
LEMMA Drained ==
  ASSUME NEW d, IsContext(d)
  PROVE  /\ IsContext(DrainEvents(d)) /\ SameInputs(d, DrainEvents(d))
         /\ DrainEvents(d).ops = d.ops /\ DrainEvents(d).idSeq = d.idSeq
         /\ DrainEvents(d).eventSeq = d.eventSeq /\ DrainEvents(d).events = <<>>
<1>1. PICK e, nil : e = DrainEvents(d) /\ nil = <<>>
  OBVIOUS
<1>2. IsSeq(nil)
  BY <1>1 DEF IsSeq
<1>3. e = [tick |-> d.tick, caps |-> d.caps, actor |-> d.actor, idSeq |-> d.idSeq,
           eventSeq |-> d.eventSeq, events |-> nil, ops |-> d.ops, view |-> d.view,
           keys |-> d.keys, handles |-> d.handles]
  BY <1>1 DEF DrainEvents, IsContext
<1>4. /\ IsContext(e) /\ SameInputs(d, e) /\ e.ops = d.ops /\ e.idSeq = d.idSeq
      /\ e.eventSeq = d.eventSeq /\ e.events = nil
  BY <1>2, <1>3 DEF IsContext, SameInputs
<1> QED
  BY <1>1, <1>4

(* What was written since an action began is the tail of the context's     *)
(* operations.                                                             *)
LEMMA OpsWritten ==
  ASSUME NEW a, IsSeq(a), NEW b, IsSeq(b)
  PROVE  SubSeq(a \o b, Len(a) + 1, Len(a \o b)) = b
<1>1. PICK S : a \in Seq(S) /\ b \in Seq(S)
  <2>1. PICK S, T : a \in Seq(S) /\ b \in Seq(T)
    BY DEF IsSeq
  <2>2. a \in Seq(S \cup T) /\ b \in Seq(S \cup T)
    BY <2>1
  <2> QED
    BY <2>2
<1>2. PICK ab, n : ab = a \o b /\ n = Len(a)
  OBVIOUS
<1>3. ab \in Seq(S) /\ Len(ab) = n + Len(b) /\ n \in Nat /\ Len(b) \in Nat
      /\ \A i \in 1 .. Len(b) : ab[n + i] = b[i]
  BY <1>1, <1>2
<1>4. PICK s : s = SubSeq(ab, n + 1, Len(ab))
  OBVIOUS
<1>5. s \in Seq(S) /\ Len(s) = Len(b)
  BY <1>3, <1>4
<1>6. \A i \in 1 .. Len(s) : s[i] = b[i]
  <2>1. \A i \in 1 .. Len(b) : (n + 1) + i - 1 = n + i
    BY <1>3
  <2>2. \A i \in 1 .. Len(b) : s[i] = ab[(n + 1) + i - 1]
    BY <1>3, <1>4
  <2> QED
    BY <1>3, <1>5, <2>1, <2>2
<1>7. s = b
  BY <1>1, <1>5, <1>6, SeqSame
<1> QED
  BY <1>2, <1>4, <1>7

(* Appending to a concatenation appends to its second part.                *)
LEMMA ConcatAppend ==
  ASSUME NEW a, IsSeq(a), NEW b, IsSeq(b), NEW e
  PROVE  Append(a \o b, e) = a \o Append(b, e)
<1>1. PICK S, T : a \in Seq(S) /\ b \in Seq(T)
  BY DEF IsSeq
<1> DEFINE A == S \cup T \cup {e}
<1>2. a \in Seq(A) /\ b \in Seq(A) /\ e \in A
  BY <1>1
<1> HIDE DEF A
<1>3. PICK u, v : u = Append(a \o b, e) /\ v = a \o Append(b, e)
  OBVIOUS
<1>4. u \in Seq(A) /\ v \in Seq(A) /\ Len(u) = Len(a) + Len(b) + 1 /\ Len(v) = Len(u)
      /\ \A i \in 1 .. Len(u) : u[i] = v[i]
  BY <1>2, <1>3
<1> QED
  BY <1>3, <1>4, SeqSame

(***************************************************************************)
(* The open context, against the store, the log and the index it was       *)
(* opened on: what they will be when it is closed is already sound.        *)
(***************************************************************************)
Bound(c, st, ix, t) ==
  /\ IsContext(c) /\ c.tick = t /\ c.events = <<>>
  /\ IsActor(c.actor, st) /\ c.view = st.comps /\ c.keys = ix
  /\ \A x \in OfKind(st, "ActorProfile") : Handle(st, x) \in DOMAIN c.handles
  /\ t \in Nat \ {0} /\ GoodStore(st, t - 1)

Ahead(c, st, st2) ==
  /\ Frame(st, st2) /\ Staging(c.view, c.ops, st2)
  /\ st2.live = st.live \cup Spawned(c.ops) /\ Spawned(c.ops) \cap st.live = {}
  /\ SpawnsDistinct(c.ops)
  /\ \A e \in Spawned(c.ops) : e[2] = c.tick /\ e[3] \in 0 .. c.idSeq - 1

KeysRecorded(lg, ix, ix2, t) ==
  \A k \in DOMAIN ix2 : k \in DOMAIN ix \/
    /\ ix2[k].tick = t
    /\ \E j \in 1 .. Len(lg) : lg[j].path = "direct" /\ k \in lg[j].key

Future(c, st, ix, t, st2, lg2, ix2) ==
  /\ Bound(c, st, ix, t) /\ Ahead(c, st, st2)
  /\ World(st2, lg2, ix2, t) /\ KeysRecorded(lg2, ix, ix2, t)

(* An open context is coherent with the store that its staged operations   *)
(* lead to.                                                                *)
LEMMA ContextCoherent ==
  ASSUME NEW c, NEW st, NEW ix, NEW t, Bound(c, st, ix, t),
         NEW st2, Ahead(c, st, st2), NEW a, GoodRequest(a, st2)
  PROVE  Coherent(c, a, st2)
<1>1. \A e \in st.live : e[2] # t
  BY DEF Bound, GoodStore, Ticks
<1>2. \A e \in st2.live : e[2] = c.tick => e[3] < c.idSeq
  BY <1>1 DEF Ahead, Bound, IsContext
<1>3. c.actor # {} => \E x : c.actor = {x}
  BY DEF Bound, IsActor
<1>4. \A p : <<p, "ParentChainDepth">> \in DOMAIN c.view =>
        c.view[<<p, "ParentChainDepth">>] = st2.comps[<<p, "ParentChainDepth">>]
  BY DEF Bound, Ahead, Frame
<1> QED
  BY <1>2, <1>3, <1>4 DEF Coherent, GoodRequest

(* An action processed in a context that was opened for a live actor is    *)
(* gated.                                                                  *)
LEMMA DirectGated ==
  ASSUME NEW c, NEW st, NEW ix, NEW t, Bound(c, st, ix, t),
         NEW st2, Ahead(c, st, st2), GoodStore(st2, t),
         NEW a, NEW d, NEW ops, Accepted(c, a, d, ops), NEW e,
         e = Entry("direct", a, c.actor, c.tick, ops)
  PROVE  Gated(st2, e)
<1>1. EntryOf(e, "direct", a, c.actor, c.tick, ops)
  BY EntryFields
<1> SUFFICES ASSUME UserScoped(e), NEW x \in e.actor \cap OfKind(st2, "ActorProfile")
             PROVE  /\ Binding(st2, x) \in OfKind(st2, "UserProfile")
                    /\ st2.comps[<<Binding(st2, x), "UserGdprState">>] = "Active"
  BY <1>1 DEF Gated, EntryOf
<1>2. a.kind \in {"SubmitActivity", "CreateSpace"}
  BY <1>1 DEF UserScoped, EntryOf
<1>3. EnsureActor(c) = "Ok"
  BY <1>2 DEF Accepted, Spawns, Erases
<1>4. c.actor = {x}
  BY <1>1 DEF Bound, IsActor, EntryOf
<1>5. EnsureActorEligible(c, x) = "Ok"
  BY <1>3, <1>4 DEF EnsureActor
<1>6. StagedAgrees(c.view, c.ops, st2) /\ t \in Nat
  BY DEF Ahead, Staging, Bound
<1> QED
  BY <1>5, <1>6, EligibleGated

(* A key that resolve_idempotency_key let through is new, or recorded by   *)
(* the same context.                                                       *)
LEMMA DirectKeyFree ==
  ASSUME NEW c, NEW st, NEW ix, NEW t, Bound(c, st, ix, t),
         NEW lg2, NEW ix2, KeysRecorded(lg2, ix, ix2, t),
         NEW a, NEW d, NEW ops, Accepted(c, a, d, ops), NEW e,
         e = Entry("direct", a, c.actor, c.tick, ops)
  PROVE  KeyFree(lg2, ix2, e)
<1>1. EntryOf(e, "direct", a, c.actor, c.tick, ops)
  BY EntryFields
<1> SUFFICES ASSUME NEW k \in e.key, k \in DOMAIN ix2
             PROVE  /\ ix2[k].tick = e.tick
                    /\ \E j \in 1 .. Len(lg2) : lg2[j].path = "direct" /\ k \in lg2[j].key
  BY DEF KeyFree
<1>2. a.kind = "SubmitActivity" /\ k \in a.key
  BY <1>1 DEF EntryOf
<1>3. IdempotencyLookup(c, k) = {}
  BY <1>2 DEF Accepted, Spawns, Erases
<1>4. k \notin DOMAIN ix
  BY <1>3 DEF IdempotencyLookup, LookUp, Bound
<1> QED
  BY <1>1, <1>4 DEF KeysRecorded, EntryOf, Bound

(* A registration let through claims a handle no one had when the context  *)
(* was opened.                                                             *)
LEMMA DirectUnclaimed ==
  ASSUME NEW c, NEW st, NEW ix, NEW t, Bound(c, st, ix, t),
         NEW st2, Ahead(c, st, st2),
         NEW a, NEW d, NEW ops, Accepted(c, a, d, ops), Effect(c, a, st2, ops, t), NEW e,
         e = Entry("direct", a, c.actor, c.tick, ops)
  PROVE  Unclaimed(st2, Apply(st2, ops), e)
<1>1. EntryOf(e, "direct", a, c.actor, c.tick, ops)
  BY EntryFields
<1>2. PICK st3 : st3 = Apply(st2, ops)
  OBVIOUS
<1> SUFFICES ASSUME NEW x \in e.spawned \cap OfKind(st3, "ActorProfile"),
                    NEW y \in OfKind(st2, "ActorProfile"), Handle(st2, y) = Handle(st3, x)
             PROVE  y[2] >= e.tick
  BY <1>2 DEF Unclaimed
<1>3. a.kind = "RegisterActor" /\ Handle(st3, x) = a.handle
  BY <1>1, <1>2 DEF EntryOf, Effect, OfKind, Handle
<1>4. ActorByHandle(c, a.handle) = {}
  BY <1>3 DEF Accepted, Spawns, Erases
<1>5. a.handle \notin DOMAIN c.handles
  BY <1>4 DEF ActorByHandle, LookUp
<1>6. y \notin st.live
  <2> SUFFICES ASSUME y \in st.live PROVE FALSE
    OBVIOUS
  <2>1. y \in OfKind(st, "ActorProfile")
    BY DEF OfKind
  <2>2. <<y, "ActorProfile">> \in DOMAIN st.comps
    BY <2>1 DEF Bound, GoodStore, OfKind, Whole, ActorWhole
  <2>3. Handle(st2, y) = Handle(st, y)
    BY <2>2 DEF Ahead, Frame, Handle
  <2> QED
    BY <1>3, <1>5, <2>1, <2>3 DEF Bound
<1>7. y \in Spawned(c.ops)
  BY <1>6 DEF Ahead, OfKind
<1>8. y[2] = t /\ e.tick = t
  BY <1>1, <1>7 DEF Ahead, Bound, EntryOf
<1> QED
  BY <1>8 DEF Bound

(* A processed entry adds its key to those the context will record.        *)
LEMMA KeysRecordedStep ==
  ASSUME NEW lg2, IsSeq(lg2), NEW ix, NEW ix2, NEW t, KeysRecorded(lg2, ix, ix2, t),
         NEW e, OneKey(e), e.path = "direct", e.tick = t
  PROVE  KeysRecorded(Append(lg2, e), ix, InsertEntry(ix2, e), t)
<1>1. PICK more, ix3 : more = Append(lg2, e) /\ ix3 = InsertEntry(ix2, e)
  OBVIOUS
<1>2. /\ Len(lg2) \in Nat /\ Len(more) = Len(lg2) + 1
      /\ \A i \in 1 .. Len(lg2) : more[i] = lg2[i]
      /\ more[Len(lg2) + 1] = e
  BY <1>1, SeqAppend
<1>3. Inserted(ix2, e, ix3)
  BY <1>1, InsertFacts
<1>4. ASSUME NEW k \in DOMAIN ix3, k \notin DOMAIN ix
      PROVE  /\ ix3[k].tick = t
             /\ \E j \in 1 .. Len(more) : more[j].path = "direct" /\ k \in more[j].key
  <2>1. CASE k \in DOMAIN ix2
    <3>1. ix3[k] = ix2[k] /\ ix2[k].tick = t
      BY <1>3, <1>4, <2>1 DEF Inserted, KeysRecorded
    <3>2. PICK j \in 1 .. Len(lg2) : lg2[j].path = "direct" /\ k \in lg2[j].key
      BY <1>4, <2>1 DEF KeysRecorded
    <3>3. j \in 1 .. Len(more) /\ more[j] = lg2[j]
      BY <1>2
    <3> QED
      BY <3>1, <3>2, <3>3
  <2>2. CASE k \notin DOMAIN ix2
    <3>1. k \in e.key /\ ix3[k].tick = t
      BY <1>3, <2>2 DEF Inserted
    <3>2. Len(lg2) + 1 \in 1 .. Len(more)
      BY <1>2
    <3> QED
      BY <1>2, <3>1, <3>2
  <2> QED
    BY <2>1, <2>2
<1> QED
  BY <1>1, <1>4 DEF KeysRecorded

(* An accepted action moves the context and the store it leads to          *)
(* together.                                                               *)
LEMMA AheadStep ==
  ASSUME NEW c, NEW st, NEW st2, Ahead(c, st, st2), IsContext(c),
         NEW a, NEW d, NEW ops, Accepted(c, a, d, ops),
         NEW t, Effect(c, a, st2, ops, t), NEW st3, st3 = Apply(st2, ops),
         Staging(c.view, c.ops \o ops, st3)
  PROVE  Ahead(DrainEvents(d), st, st3)
<1>1. /\ IsContext(d) /\ SameInputs(c, d) /\ IsSeq(ops) /\ d.ops = c.ops \o ops
      /\ d.idSeq = c.idSeq + 1 \/ (Spawned(ops) = {} /\ d.idSeq = c.idSeq)
  BY AcceptedShape
<1>2. PICK c2 : c2 = DrainEvents(d)
  OBVIOUS
<1>3. /\ c2.ops = c.ops \o ops /\ c2.idSeq = d.idSeq
      /\ c2.tick = c.tick /\ c2.view = c.view
  BY <1>1, <1>2, Drained DEF SameInputs
<1>4. /\ Frame(st2, st3) /\ st3.live = st2.live \cup Spawned(ops)
      /\ Spawned(ops) \cap st2.live = {} /\ SpawnsIn(ops) \in {{}, {1}}
      /\ \A x \in Spawned(ops) : x[2] = c.tick /\ x[3] = c.idSeq
  BY DEF Effect
<1>5. IsSeq(c.ops) /\ c.idSeq \in Nat
  BY DEF IsContext
<1>6. Spawned(ops) \cap Spawned(c.ops) = {}
  BY <1>4 DEF Ahead
<1>7. Spawned(c2.ops) = Spawned(c.ops) \cup Spawned(ops) /\ SpawnsDistinct(c2.ops)
  BY <1>1, <1>3, <1>4, <1>5, <1>6, SpawnsConcat DEF Ahead
<1>8. Frame(st, st3)
  BY <1>4, FrameTransitive DEF Ahead
<1>9. \A e \in Spawned(c2.ops) : e[2] = c2.tick /\ e[3] \in 0 .. c2.idSeq - 1
  <2>1. ASSUME NEW e \in Spawned(c.ops)
        PROVE  e[2] = c2.tick /\ e[3] \in 0 .. c2.idSeq - 1
    <3>1. e[2] = c.tick /\ e[3] \in 0 .. c.idSeq - 1
      BY DEF Ahead
    <3>2. CASE c2.idSeq = c.idSeq
      BY <1>3, <3>1, <3>2
    <3>3. CASE c2.idSeq = c.idSeq + 1
      <4>1. e[3] \in 0 .. (c.idSeq + 1) - 1
        BY <1>5, <3>1
      <4> QED
        BY <1>3, <3>1, <3>3, <4>1
    <3> QED
      BY <1>1, <1>3, <3>2, <3>3
  <2>2. ASSUME NEW e \in Spawned(ops)
        PROVE  e[2] = c2.tick /\ e[3] \in 0 .. c2.idSeq - 1
    <3>1. e[2] = c.tick /\ e[3] = c.idSeq /\ d.idSeq = c.idSeq + 1
      BY <1>1, <1>4
    <3> QED
      BY <1>3, <1>5, <3>1
  <2> QED
    BY <1>7, <2>1, <2>2
<1> QED
  BY <1>2, <1>3, <1>4, <1>7, <1>8, <1>9 DEF Ahead

(***************************************************************************)
(* The step of a direct context that accepts an action.                    *)
(***************************************************************************)
LEMMA FutureStep ==
  ASSUME NEW c, NEW st, NEW ix, NEW t, NEW st2, NEW lg2, NEW ix2,
         Future(c, st, ix, t, st2, lg2, ix2), NEW a, GoodRequest(a, st2),
         NEW d, NEW ops, Accepted(c, a, d, ops), NEW e,
         e = Entry("direct", a, c.actor, c.tick, ops)
  PROVE  Future(DrainEvents(d), st, ix, t,
                Apply(st2, ops), Append(lg2, e), InsertEntry(ix2, e))
<1>1. /\ Bound(c, st, ix, t) /\ Ahead(c, st, st2)
      /\ World(st2, lg2, ix2, t) /\ KeysRecorded(lg2, ix, ix2, t)
  BY DEF Future
<1>2. /\ IsContext(c) /\ c.tick = t /\ t \in Nat \ {0} /\ t \in 1 .. t
      /\ GoodStore(st2, t)
  BY <1>1 DEF Bound, World
<1>3. Coherent(c, a, st2)
  BY <1>1, ContextCoherent
<1>4. PICK st3, lg3, ix3 : /\ st3 = Apply(st2, ops) /\ lg3 = Append(lg2, e)
                           /\ ix3 = InsertEntry(ix2, e)
  OBVIOUS
<1>5. Effect(c, a, st2, ops, t)
  BY <1>2, <1>3, AcceptedEffect
<1>6. Gated(st2, e)
  BY <1>1, <1>2, DirectGated
<1>7. c.actor \subseteq st2.live \cup {SystemActor}
  BY <1>1 DEF Bound, IsActor, OfKind, Ahead
<1>8. NewEntry(st2, st3, e, t)
  BY <1>2, <1>3, <1>4, <1>6, <1>7, AcceptedEntry
<1>9. KeyFree(lg2, ix2, e)
  BY <1>1, DirectKeyFree
<1>10. Unclaimed(st2, st3, e)
  BY <1>1, <1>4, <1>5, DirectUnclaimed
<1>11. EntryOf(e, "direct", a, c.actor, c.tick, ops)
  BY EntryFields
<1>12. World(st3, lg3, ix3, t)
  <2>1. IndexAfter(ix2, e) = ix3
    BY <1>4, <1>11 DEF IndexAfter, EntryOf
  <2> QED
    BY <1>1, <1>2, <1>4, <1>8, <1>9, <1>10, <2>1, WorldStep
<1>13. KeysRecorded(lg3, ix, ix3, t)
  <2>1. IsSeq(lg2)
    BY <1>1 DEF World, GoodLog
  <2>2. OneKey(e) /\ e.path = "direct" /\ e.tick = t
    BY <1>2, <1>8, <1>11 DEF NewEntry, EntryOf
  <2> QED
    BY <1>1, <1>4, <2>1, <2>2, KeysRecordedStep
<1>14. Ahead(DrainEvents(d), st, st3)
  <2>1. Staging(c.view, c.ops \o ops, st3)
    <3>1. Staging(c.view, c.ops, st2) /\ c.tick # 0
      BY <1>1, <1>2 DEF Ahead
    <3> QED
      BY <1>2, <1>3, <1>4, <3>1, AcceptedStaging
  <2> QED
    BY <1>1, <1>2, <1>4, <1>5, <2>1, AheadStep
<1>15. Bound(DrainEvents(d), st, ix, t)
  <2>1. IsContext(d) /\ SameInputs(c, d)
    BY <1>2, AcceptedShape
  <2>2. PICK c2 : c2 = DrainEvents(d)
    OBVIOUS
  <2>3. IsContext(c2) /\ SameInputs(d, c2) /\ c2.events = <<>>
    BY <2>1, <2>2, Drained
  <2> QED
    BY <1>1, <2>1, <2>2, <2>3 DEF Bound, SameInputs
<1> QED
  BY <1>4, <1>12, <1>13, <1>14, <1>15 DEF Future

(* A refused action may use up a number and changes nothing else.          *)
LEMMA FutureIdle ==
  ASSUME NEW c, NEW st, NEW ix, NEW t, NEW st2, NEW lg2, NEW ix2,
         Future(c, st, ix, t, st2, lg2, ix2), NEW d, Idle(c, d)
  PROVE  Future(d, st, ix, t, st2, lg2, ix2)
<1>1. Bound(d, st, ix, t)
  BY DEF Future, Bound, Idle, SameInputs
<1>2. Ahead(d, st, st2)
  <2>1. Ahead(c, st, st2) /\ d.ops = c.ops /\ d.view = c.view /\ d.tick = c.tick
        /\ c.idSeq <= d.idSeq
    BY DEF Future, Idle, SameInputs
  <2>2. c.idSeq \in Nat /\ d.idSeq \in Nat
    BY DEF Future, Bound, Idle, IsContext
  <2>3. \A e \in Spawned(c.ops) : e[3] \in 0 .. d.idSeq - 1
    <3> SUFFICES ASSUME NEW e \in Spawned(c.ops) PROVE e[3] \in 0 .. d.idSeq - 1
      OBVIOUS
    <3>1. e[3] \in 0 .. c.idSeq - 1
      BY <2>1 DEF Ahead
    <3> QED
      BY <2>1, <2>2, <3>1
  <2> QED
    BY <2>1, <2>3 DEF Ahead
<1> QED
  BY <1>1, <1>2 DEF Future

-----------------------------------------------------------------------------
(***************************************************************************)
(* The inductive invariant of the service.                                 *)
(***************************************************************************)
Direct(c) ==
  /\ Future(c, store, dedup, now,
            Apply(store, c.ops), log \o batch, Recorded(dedup, batch))
  /\ IsSeq(batch)
  /\ Mirrors(Apply(EmptyStore, c.ops), drained, c.eventSeq, c.tick)

ServiceInv ==
  /\ now \in Nat
  /\ World(store, log, dedup, now)
  /\ open # {} => \E c : open = {c}
  /\ open = {} => batch = <<>> /\ drained = <<>>
  /\ \A c \in open : Direct(c)

(* The invariant holds before the first request.                           *)
LEMMA InitService == ASSUME Init PROVE ServiceInv
<1>1. GoodStore(EmptyStore, 0) /\ IsSeq(<<>>)
  BY EmptyGood DEF IsSeq
<1>2. World(EmptyStore, <<>>, EmptyMap, 0)
  BY <1>1 DEF World, GoodLog, Gate, Indexed
<1> QED
  BY <1>2 DEF Init, ServiceInv

(* A caller is a registered actor, the system actor, or no one.            *)
LEMMA CallersAreActors ==
  ASSUME NEW actor \in Callers
  PROVE  IsActor(actor, store)
BY DEF Callers, IsActor, Actors, OfType, OfKind

(* A request names users, actors and spaces that exist, or are staged.     *)
LEMMA RequestsAreGood ==
  ASSUME NEW st, st.live = store.live \cup Staged, NEW tick, NEW a \in Requests(tick)
  PROVE  GoodRequest(a, st)
<1>1. NamedUsers = OfKind(st, "UserProfile") \cup {GhostUser}
  BY DEF NamedUsers, OfKind
<1>2. CASE a \in RegisterUsers
  <2>1. a.kind = "RegisterUser"
    BY <1>2 DEF RegisterUsers
  <2> QED
    BY <2>1 DEF GoodRequest, Kinds
<1>3. CASE a \in RegisterActors
  <2>1. a.kind = "RegisterActor" /\ a.user \in NamedUsers
    BY <1>3 DEF RegisterActors
  <2> QED
    BY <1>1, <2>1 DEF GoodRequest, Kinds
<1>4. CASE a \in GdprEraseUsers
  <2>1. a.kind = "GdprEraseUser" /\ a.user \in NamedUsers
    BY <1>4 DEF GdprEraseUsers
  <2> QED
    BY <1>1, <2>1 DEF GoodRequest, Kinds
<1>5. CASE a \in SubmitActivities(tick)
  <2>1. a.kind = "SubmitActivity" /\ a.key \in {{}} \cup {{k} : k \in Keys}
    BY <1>5 DEF SubmitActivities
  <2> QED
    BY <2>1 DEF GoodRequest, Kinds, OneKey
<1>6. CASE a \in RetractActivities
  <2>1. a.kind = "RetractActivity"
    BY <1>6 DEF RetractActivities
  <2> QED
    BY <2>1 DEF GoodRequest, Kinds
<1>7. CASE a \in CreateSpaces
  <2>1. /\ a.kind = "CreateSpace"
        /\ a.parent \in {{}} \cup {{s} : s \in Spaces \cup {e \in Staged : e[1] = "SpaceConfig"}}
    BY <1>7 DEF CreateSpaces
  <2>2. Spaces \cup {e \in Staged : e[1] = "SpaceConfig"} = OfKind(st, "SpaceConfig")
    BY DEF Spaces, OfType, OfKind
  <2> QED
    BY <2>1, <2>2 DEF GoodRequest, Kinds
<1> QED
  BY <1>2, <1>3, <1>4, <1>5, <1>6, <1>7 DEF Requests

(* A caller that the gate let through is not an actor of an erased user.   *)
LEMMA AdmittedGated ==
  ASSUME ServiceInv, NEW actor \in Callers, Admitted(actor),
         NEW e, e.actor = actor
  PROVE  Gated(store, e)
<1>1. PICK c : c = [NewContext(now, TRUE) EXCEPT !.view = store.comps]
  OBVIOUS
<1>2. c.view = store.comps /\ c.ops = <<>>
  BY <1>1 DEF NewContext
<1>3. GoodStore(store, now) /\ now \in Nat
  BY DEF ServiceInv, World
<1>4. StagedAgrees(c.view, c.ops, store)
  BY <1>2, <1>3, NothingStaged DEF Staging
<1>5. ASSUME NEW x \in actor \cap OfKind(store, "ActorProfile")
      PROVE  /\ Binding(store, x) \in OfKind(store, "UserProfile")
             /\ store.comps[<<Binding(store, x), "UserGdprState">>] = "Active"
  <2>1. EnsureActorEligible(c, x) = "Ok"
    BY <1>1 DEF Admitted
  <2> QED
    BY <1>3, <1>4, <2>1, EligibleGated
<1> QED
  BY <1>5 DEF Gated

(* One dispatched entry keeps the invariant when no context is open.       *)
LEMMA DispatchWorld ==
  ASSUME ServiceInv, NEW e, NEW st2, NewEntry(store, st2, e, now + 1),
         e.path = "dispatch", open = {},
         now' = now + 1, log' = Append(log, e), store' = st2,
         UNCHANGED <<dedup, open, batch, drained>>
  PROVE  ServiceInv'
<1>1. World(store, log, dedup, now + 1) /\ now + 1 \in Nat
  BY LaterWorld DEF ServiceInv
<1>2. IndexAfter(dedup, e) = dedup
  BY DEF IndexAfter
<1>3. World(st2, Append(log, e), IndexAfter(dedup, e), now + 1)
  BY <1>1, WorldStep
<1> QED
  BY <1>1, <1>2, <1>3 DEF ServiceInv

(* A dispatched action, accepted or refused, keeps the invariant.          *)
LEMMA DispatchStep == ASSUME ServiceInv, DispatchAction PROVE ServiceInv' /\ Frame(store, store')
<1>1. PICK actor \in Callers : \E a \in Requests(now + 1) :
        Dispatch(actor, a, KernelCompute(a, now + 1, actor))
  BY DEF DispatchAction
<1>2. PICK a \in Requests(now + 1) :
        Dispatch(actor, a, KernelCompute(a, now + 1, actor))
  BY <1>1
<1>3. PICK ops, e : /\ ops = KernelCompute(a, now + 1, actor)
                    /\ e = Entry("dispatch", a, actor, now + 1, ops)
  OBVIOUS
<1>4. /\ open = {} /\ Admitted(actor) /\ now' = now + 1
      /\ log' = Append(log, e) /\ store' = Apply(store, ops)
      /\ UNCHANGED <<dedup, open, batch, drained>>
  BY <1>2, <1>3 DEF Dispatch
<1>5. GoodStore(store, now) /\ now \in Nat
  BY DEF ServiceInv, World
<1>6. GoodRequest(a, store)
  <2>1. store.live = store.live \cup Staged
    BY <1>4 DEF Staged
  <2> QED
    BY <2>1, RequestsAreGood
<1>7. e.actor = actor /\ e.path = "dispatch"
  <2>1. EntryOf(e, "dispatch", a, actor, now + 1, ops)
    BY <1>3, EntryFields
  <2> QED
    BY <2>1 DEF EntryOf
<1>8. Gated(store, e)
  BY <1>4, <1>7, AdmittedGated
<1>9. NewEntry(store, Apply(store, ops), e, now + 1)
  BY <1>3, <1>5, <1>6, <1>8, CallersAreActors, DispatchEntry
<1> QED
  BY <1>4, <1>7, <1>9, DispatchWorld DEF NewEntry

(* The mark of a completed erasure keeps the invariant.                    *)
LEMMA MarkStep == ASSUME ServiceInv, DispatchMarkErased PROVE ServiceInv' /\ Frame(store, store')
<1>1. PICK u \in Users :
        /\ Status(u) = "ErasurePending"
        /\ Dispatch({}, [kind |-> "MarkErased"],
                    <<SetComponent(u, "UserGdprState", "Erased")>>)
  BY DEF DispatchMarkErased
<1>2. PICK ops, e : /\ ops = <<SetComponent(u, "UserGdprState", "Erased")>>
                    /\ e = Entry("dispatch", [kind |-> "MarkErased"], {}, now + 1, ops)
  OBVIOUS
<1>3. /\ open = {} /\ now' = now + 1
      /\ log' = Append(log, e) /\ store' = Apply(store, ops)
      /\ UNCHANGED <<dedup, open, batch, drained>>
  BY <1>1, <1>2 DEF Dispatch
<1>4. GoodStore(store, now) /\ now \in Nat
  BY DEF ServiceInv, World
<1>5. /\ u \in OfKind(store, "UserProfile")
      /\ store.comps[<<u, "UserGdprState">>] = "ErasurePending"
  BY <1>1 DEF Users, OfType, OfKind, Status, Component
<1>6. NewEntry(store, Apply(store, ops), e, now + 1)
  BY <1>2, <1>4, <1>5, MarkEntry
<1>7. e.path = "dispatch"
  BY <1>2 DEF Entry
<1> QED
  BY <1>3, <1>6, <1>7, DispatchWorld DEF NewEntry

(* The handle index names the handle of every actor of the store.          *)
LEMMA HandlesIndexed ==
  \A x \in OfKind(store, "ActorProfile") : Handle(store, x) \in DOMAIN HandleIndex
BY DEF HandleIndex, Handle, Component, Actors, OfType, OfKind

(* A context that just began leads to the store it was opened on.          *)
LEMMA FutureBegun ==
  ASSUME NEW st, NEW lg, NEW ix, NEW t \in Nat, World(st, lg, ix, t),
         NEW c, NEW actor, Begun(c, t + 1, actor, st.comps), IsActor(actor, st),
         c.keys = ix,
         \A x \in OfKind(st, "ActorProfile") : Handle(st, x) \in DOMAIN c.handles
  PROVE  Future(c, st, ix, t + 1, st, lg, ix)
<1>1. World(st, lg, ix, t + 1) /\ GoodStore(st, t)
  BY LaterWorld DEF World
<1>2. t + 1 \in Nat \ {0} /\ (t + 1) - 1 = t
  OBVIOUS
<1>3. Bound(c, st, ix, t + 1)
  BY <1>1, <1>2 DEF Begun, Bound
<1>4. Ahead(c, st, st)
  <2>1. SpawnsIn(c.ops) = {} /\ Spawned(c.ops) = {}
    BY NoSpawns DEF Begun
  <2>2. Staging(c.view, c.ops, st)
    BY <1>1, NothingStaged DEF Begun
  <2>3. Frame(st, st)
    BY DEF Frame
  <2> QED
    BY <2>1, <2>2, <2>3 DEF Ahead, SpawnsDistinct
<1>5. KeysRecorded(lg, ix, ix, t + 1)
  BY DEF KeysRecorded
<1> QED
  BY <1>1, <1>3, <1>4, <1>5 DEF Future

(* No event, no record.                                                    *)
LEMMA NothingMirrored ==
  ASSUME NEW tick
  PROVE  Mirrors(EmptyStore, <<>>, 0, tick)
<1>1. IsStore(EmptyStore) /\ EmptyStore.events = <<>>
  BY EmptyGood DEF GoodStore, EmptyStore
<1>2. <<>> = [i \in DOMAIN <<>> |-> <<>>[i].value]
  OBVIOUS
<1>3. IsSeq(<<>>)
  BY DEF IsSeq
<1> QED
  BY <1>1, <1>2, <1>3 DEF Mirrors

(* Opening a context keeps the invariant.                                  *)
LEMMA OpenStep ==
  ASSUME ServiceInv, NEW actor \in Callers, NEW caps, OpenContext(actor, caps)
  PROVE  ServiceInv' /\ UNCHANGED store
<1>1. PICK c : c = WithIndexes(WithActor(NewContext(now + 1, caps), actor),
                               store.comps, dedup, HandleIndex)
  OBVIOUS
<1>2. /\ open = {} /\ now' = now + 1 /\ open' = {c}
      /\ UNCHANGED <<log, store, dedup, batch, drained>>
  BY <1>1 DEF OpenContext
<1>3. /\ Begun(c, now + 1, actor, store.comps)
      /\ c.keys = dedup /\ c.handles = HandleIndex
  BY <1>1, BegunDirect
<1>4. now \in Nat /\ World(store, log, dedup, now) /\ batch = <<>> /\ drained = <<>>
  BY <1>2 DEF ServiceInv
<1>5. \A x \in OfKind(store, "ActorProfile") : Handle(store, x) \in DOMAIN c.handles
  BY <1>3, HandlesIndexed
<1>6. Future(c, store, dedup, now + 1, store, log, dedup)
  BY <1>3, <1>4, <1>5, CallersAreActors, FutureBegun
<1>7. /\ Apply(store, c.ops) = store /\ Recorded(dedup, batch) = dedup
      /\ log \o batch = log /\ IsSeq(batch)
  <2>1. c.ops = <<>> /\ IsSeq(log)
    BY <1>3, <1>4 DEF Begun, World, GoodLog
  <2>2. log \o <<>> = log /\ IsSeq(<<>>)
    BY <2>1 DEF IsSeq
  <2> QED
    BY <1>4, <2>1, <2>2, ApplyNone, RecordedNone
<1>8. Mirrors(Apply(EmptyStore, c.ops), drained, c.eventSeq, c.tick)
  BY <1>3, <1>4, ApplyNone, NothingMirrored DEF Begun
<1>9. Direct(c)'
  BY <1>2, <1>6, <1>7, <1>8 DEF Direct
<1>10. World(store, log, dedup, now + 1)
  BY <1>4, LaterWorld
<1> QED
  BY <1>2, <1>4, <1>9, <1>10 DEF ServiceInv

(***************************************************************************)
(* process_action on the open context: refused, or accepted as a whole.    *)
(***************************************************************************)
LEMMA ProcessRefused ==
  ASSUME ServiceInv, NEW c \in open, NEW d, Idle(c, d), open' = {d},
         UNCHANGED <<now, log, store, dedup, batch, drained>>
  PROVE  ServiceInv'
<1>1. Direct(c) /\ open = {c}
  BY DEF ServiceInv
<1>2. d.ops = c.ops /\ d.eventSeq = c.eventSeq /\ d.tick = c.tick
  BY DEF Idle, SameInputs
<1>3. Future(d, store, dedup, now, Apply(store, c.ops), log \o batch,
             Recorded(dedup, batch))
  BY <1>1, FutureIdle DEF Direct
<1>4. Direct(d)'
  BY <1>1, <1>2, <1>3 DEF Direct
<1> QED
  BY <1>4 DEF ServiceInv

(* An accepted action of an open context keeps the invariant.              *)
LEMMA ProcessAccepted ==
  ASSUME ServiceInv, NEW c \in open, NEW a, GoodRequest(a, Apply(store, c.ops)),
         NEW d, NEW ops, Accepted(c, a, d, ops), NEW e,
         e = Entry("direct", a, c.actor, c.tick, ops),
         open' = {DrainEvents(d)}, drained' = drained \o d.events,
         batch' = Append(batch, e), UNCHANGED <<now, log, store, dedup>>
  PROVE  ServiceInv'
<1>1. Direct(c) /\ open = {c} /\ World(store, log, dedup, now)
  BY DEF ServiceInv
<1>2. PICK c2 : c2 = DrainEvents(d)
  OBVIOUS
<1>3. IsContext(c) /\ c.events = <<>> /\ IsSeq(log) /\ IsSeq(batch)
  BY <1>1 DEF Direct, Future, Bound, World, GoodLog
<1>4. /\ IsContext(d) /\ SameInputs(c, d) /\ IsSeq(ops) /\ d.ops = c.ops \o ops
  BY <1>3, AcceptedShape
<1>5. c2.ops = c.ops \o ops /\ c2.eventSeq = d.eventSeq /\ c2.tick = c.tick
  BY <1>2, <1>4, Drained DEF SameInputs
<1>6. Future(c2, store, dedup, now, Apply(Apply(store, c.ops), ops),
             Append(log \o batch, e), InsertEntry(Recorded(dedup, batch), e))
  BY <1>1, <1>2, FutureStep DEF Direct
<1>7. /\ \A st : Apply(st, c2.ops) = Apply(Apply(st, c.ops), ops)
      /\ Append(log \o batch, e) = log \o Append(batch, e)
      /\ Recorded(dedup, Append(batch, e)) = InsertEntry(Recorded(dedup, batch), e)
      /\ IsSeq(Append(batch, e))
  <2>1. \A st : Apply(st, c2.ops) = Apply(Apply(st, c.ops), ops)
    <3>1. IsSeq(c.ops)
      BY <1>3 DEF IsContext
    <3> QED
      BY <1>4, <1>5, <3>1, ApplyConcat
  <2>2. Append(log \o batch, e) = log \o Append(batch, e)
    BY <1>3, ConcatAppend
  <2>3. Recorded(dedup, Append(batch, e)) = InsertEntry(Recorded(dedup, batch), e)
    BY <1>3, RecordedAppend
  <2>4. IsSeq(Append(batch, e))
    BY <1>3, SeqAppend
  <2> QED
    BY <2>1, <2>2, <2>3, <2>4
<1>8. Mirrors(Apply(EmptyStore, c2.ops), drained \o d.events, c2.eventSeq, c2.tick)
  <2>1. PICK w : w = Apply(EmptyStore, c.ops)
    OBVIOUS
  <2>2. Mirrors(w, drained, c.eventSeq, c.tick)
    BY <1>1, <2>1 DEF Direct
  <2>3. Mirrors(Apply(w, ops), drained \o d.events, d.eventSeq, c.tick)
    BY <1>3, <2>2, AcceptedMirror
  <2> QED
    BY <1>5, <1>7, <2>1, <2>3
<1>9. Direct(c2)'
  BY <1>6, <1>7, <1>8 DEF Direct
<1> QED
  BY <1>1, <1>2, <1>9 DEF ServiceInv

(* A processed action, accepted or refused, keeps the invariant.           *)
LEMMA ProcessStep == ASSUME ServiceInv, Process PROVE ServiceInv' /\ UNCHANGED store
<1>1. PICK c \in open : \E a \in Requests(c.tick) : ProcessOn(c, a)
  BY DEF Process
<1>2. PICK a \in Requests(c.tick) : ProcessOn(c, a)
  BY <1>1
<1>3. PICK run, r : /\ run = IF c.caps THEN Compute(c, a) ELSE Result("CapabilityDenied", c)
                    /\ r = ProcessAction(c, a)
  OBVIOUS
<1>4. /\ r.err = run.err
      /\ r.events = IF run.err = "Ok" THEN run.ctx.events ELSE <<>>
      /\ r.ctx = IF run.err = "Ok" THEN DrainEvents(run.ctx) ELSE run.ctx
  BY <1>3 DEF ProcessAction
<1>5. /\ open' = {r.ctx} /\ drained' = drained \o r.events
      /\ UNCHANGED <<now, log, store, dedup>>
      /\ batch' = IF r.err # "Ok" THEN batch
                  ELSE Append(batch,
                         Entry("direct", a, c.actor, c.tick,
                               SubSeq(r.ctx.ops, Len(c.ops) + 1, Len(r.ctx.ops))))
  BY <1>2, <1>3 DEF ProcessOn
<1>6. Direct(c) /\ open = {c}
  BY DEF ServiceInv
<1>7. IsContext(c) /\ IsSeq(drained)
  BY <1>6 DEF Direct, Future, Bound, Mirrors
<1>8. GoodRequest(a, Apply(store, c.ops))
  <2>1. Apply(store, c.ops).live = store.live \cup Spawned(c.ops)
    BY <1>6 DEF Direct, Future, Ahead
  <2>2. Staged = Spawned(c.ops)
    BY <1>6 DEF Staged
  <2> QED
    BY <2>1, <2>2, RequestsAreGood
<1>9. CASE Refused(c, run)
  <2>1. run.err # "Ok" /\ Idle(c, run.ctx)
    BY <1>9 DEF Refused
  <2>2. drained \o <<>> = drained
    BY <1>7 DEF IsSeq
  <2>3. drained' = drained /\ batch' = batch /\ open' = {run.ctx}
    BY <1>4, <1>5, <2>1, <2>2
  <2> QED
    BY <1>5, <2>1, <2>3, ProcessRefused
<1>10. CASE run.err = "Ok" /\ \E ops : Accepted(c, a, run.ctx, ops)
  <2>1. PICK ops : Accepted(c, a, run.ctx, ops)
    BY <1>10
  <2>2. IsContext(run.ctx) /\ IsSeq(ops) /\ run.ctx.ops = c.ops \o ops
    BY <1>7, <2>1, AcceptedShape
  <2>3. r.ctx = DrainEvents(run.ctx) /\ r.events = run.ctx.events
    BY <1>4, <1>10
  <2>4. r.ctx.ops = c.ops \o ops
    BY <2>2, <2>3, Drained
  <2>5. SubSeq(r.ctx.ops, Len(c.ops) + 1, Len(r.ctx.ops)) = ops
    BY <1>7, <2>2, <2>4, OpsWritten DEF IsContext
  <2>6. PICK e : e = Entry("direct", a, c.actor, c.tick, ops)
    OBVIOUS
  <2>7. batch' = Append(batch, e)
    BY <1>4, <1>5, <1>10, <2>5, <2>6
  <2> QED
    BY <1>5, <1>8, <2>1, <2>3, <2>6, <2>7, ProcessAccepted
<1>11. ~c.caps => Refused(c, run)
  <2>1. Idle(c, c)
    BY <1>7 DEF Idle, SameInputs, IsContext
  <2> QED
    BY <1>3, <2>1 DEF Refused, Result
<1>12. c.caps => \/ Refused(c, run)
                 \/ run.err = "Ok" /\ \E ops : Accepted(c, a, run.ctx, ops)
  <2>1. a.kind \in Kinds
    BY <1>8 DEF GoodRequest
  <2> QED
    BY <1>3, <1>7, <2>1, ComputeFacts
<1> QED
  BY <1>5, <1>9, <1>10, <1>11, <1>12

(* Closing a context makes the world it led to the world that is.          *)
LEMMA CloseStep == ASSUME ServiceInv, Close PROVE ServiceInv' /\ Frame(store, store')
<1>1. PICK c \in open :
        /\ store' = Apply(store, c.ops) /\ dedup' = Recorded(dedup, batch)
        /\ log' = log \o batch
        /\ open' = {} /\ batch' = <<>> /\ drained' = <<>> /\ now' = now
  BY DEF Close
<1>2. Direct(c) /\ now \in Nat
  BY DEF ServiceInv
<1>3. /\ Frame(store, Apply(store, c.ops))
      /\ World(Apply(store, c.ops), log \o batch, Recorded(dedup, batch), now)
  BY <1>2 DEF Direct, Future, Ahead
<1> QED
  BY <1>1, <1>2, <1>3 DEF ServiceInv

(* Dropping a context leaves the world as it is.                           *)
LEMMA AbandonStep == ASSUME ServiceInv, Abandon PROVE ServiceInv' /\ UNCHANGED store
BY DEF Abandon, ServiceInv

(* Nothing happens, nothing breaks.                                        *)
LEMMA StutterStep == ASSUME ServiceInv, UNCHANGED vars PROVE ServiceInv' /\ UNCHANGED store
<1>1. UNCHANGED <<now, log, store, dedup, open, batch, drained>>
  BY DEF vars
<1>2. ASSUME NEW c \in open, Direct(c) PROVE Direct(c)'
  BY <1>1, <1>2 DEF Direct
<1> QED
  BY <1>1, <1>2 DEF ServiceInv

(* Every step keeps the invariant and takes nothing from the store.        *)
LEMMA NextStep ==
  ASSUME ServiceInv, [Next]_vars
  PROVE  ServiceInv' /\ Frame(store, store')
<1>1. store' = store => Frame(store, store')
  BY DEF Frame
<1>2. CASE DispatchAction
  BY <1>2, DispatchStep
<1>3. CASE DispatchRejected
  BY <1>1, <1>3, StutterStep DEF DispatchRejected
<1>4. CASE DispatchMarkErased
  BY <1>4, MarkStep
<1>5. CASE \E actor \in Callers : OpenContext(actor, TRUE)
  BY <1>1, <1>5, OpenStep
<1>6. CASE OpenContext({}, FALSE)
  BY <1>1, <1>6, OpenStep DEF Callers
<1>7. CASE Process
  BY <1>1, <1>7, ProcessStep
<1>8. CASE Close
  BY <1>8, CloseStep
<1>9. CASE Abandon
  BY <1>1, <1>9, AbandonStep
<1>10. CASE UNCHANGED vars
  BY <1>1, <1>10, StutterStep
<1> QED
  BY <1>2, <1>3, <1>4, <1>5, <1>6, <1>7, <1>8, <1>9, <1>10 DEF Next

-----------------------------------------------------------------------------
(***************************************************************************)
(* The invariant: whichever way the store was written last, by a dispatch, *)
(* a closed context or the mark of a finished cascade, its entities are    *)
(* whole and its log is gated and indexed, and all of this will still hold *)
(* when the open context's operations are applied.                         *)
(***************************************************************************)
THEOREM ServiceInvariant == Spec => []ServiceInv
<1>1. Init => ServiceInv
  BY InitService
<1>2. ServiceInv /\ [Next]_vars => ServiceInv'
  BY NextStep
<1> QED
  BY <1>1, <1>2, PTL DEF Spec

(* What the invariant says of the store alone.                             *)
LEMMA StoreOf ==
  ASSUME ServiceInv
  PROVE  /\ World(store, log, dedup, now) /\ GoodStore(store, now)
         /\ \A e \in store.live : Whole(store, e)
         /\ Users = OfKind(store, "UserProfile")
         /\ Actors = OfKind(store, "ActorProfile")
         /\ Spaces = OfKind(store, "SpaceConfig")
         /\ Activities = OfKind(store, "ActivityRecord")
BY DEF ServiceInv, World, GoodStore, Users, Actors, Spaces, Activities, OfType, OfKind

(***************************************************************************)
(* Nothing is logged for an actor after the erasure of its user was asked  *)
(* for, on dispatch or, user-scoped, on a context: the gate reads the      *)
(* pointer that every accepted erasure has moved, also the one staged on   *)
(* the very context.                                                       *)
(***************************************************************************)
THEOREM GateIsSound == Spec => []GateHolds
<1>1. ServiceInv => GateHolds
  <2> SUFFICES ASSUME ServiceInv PROVE GateHolds
    OBVIOUS
  <2>1. ASSUME NEW j \in 1 .. Len(log), NEW x \in log[j].actor \cap Actors,
               log[j].path = "dispatch" \/ UserScoped(log[j])
        PROVE  /\ Component(x, "UserBinding") # GhostUser
               /\ \A i \in 1 .. j - 1 : Component(x, "UserBinding") \notin log[i].user
    BY <2>1, StoreOf DEF World, Gate, GatedEntry, Binding, Component
  <2>2. \A r \in Activities : Cardinality(Component(r, "ActivityRecord").actors) = 1
    BY StoreOf DEF OfKind, Whole, ActivityWhole, Component
  <2>3. \A s \in Spaces : Cardinality(Component(s, "SpaceConfig").actors) = 1
    BY StoreOf DEF OfKind, Whole, SpaceWhole, Component
  <2> QED
    BY <2>1, <2>2, <2>3 DEF GateHolds
<1> QED
  BY <1>1, ServiceInvariant, PTL

(***************************************************************************)
(* The pointer the gate reads and the event the cascade reads never part.  *)
(***************************************************************************)
THEOREM PointerAndEventAgree == Spec => []PendingIffScheduled
<1>1. ServiceInv => PendingIffScheduled
  <2> SUFFICES ASSUME ServiceInv, NEW u \in Users
               PROVE  Status(u) # "Active" <=> u \in Range(store.events)
    BY DEF PendingIffScheduled
  <2>1. store.comps[<<u, "UserGdprState">>] # "Active"
          <=> \E i \in DOMAIN store.events : store.events[i] = u
    BY StoreOf DEF GoodStore, Pending
  <2> QED
    BY <2>1 DEF Status, Component, Range
<1> QED
  BY <1>1, ServiceInvariant, PTL

(***************************************************************************)
(* No sequence of calls brings a user back to Active: no operation ever    *)
(* spawns an existing id, and what a step writes is framed.                *)
(***************************************************************************)
THEOREM ErasureIsOneWay == Spec => NeverReopened
<1> DEFINE A == \A u \in Users :
                  /\ u \in store'.live
                  /\ Status(u) # "Active" =>
                       store'.comps[<<u, "UserGdprState">>] # "Active"
<1>1. ServiceInv /\ [Next]_vars => [A]_vars
  <2> SUFFICES ASSUME ServiceInv, [Next]_vars, NEW u \in Users
               PROVE  /\ u \in store'.live
                      /\ Status(u) # "Active" =>
                           store'.comps[<<u, "UserGdprState">>] # "Active"
    OBVIOUS
  <2>1. Frame(store, store')
    BY NextStep
  <2>2. u \in store.live /\ <<u, "UserGdprState">> \in DOMAIN store.comps
    BY StoreOf DEF OfKind, Whole, UserWhole
  <2> QED
    BY <2>1, <2>2 DEF Frame, Status, Component
<1> QED
  BY <1>1, ServiceInvariant, PTL DEF Spec, NeverReopened

(***************************************************************************)
(* The ids of a context are new to it and to the store, whichever digests  *)
(* are zero, and no activity is its own target.                            *)
(***************************************************************************)
THEOREM IdsAreFresh == Spec => []SpawnsAreFresh
<1>1. ServiceInv => SpawnsAreFresh
  <2> SUFFICES ASSUME ServiceInv PROVE SpawnsAreFresh
    OBVIOUS
  <2>1. ASSUME NEW c \in open
        PROVE  /\ \A i, j \in SpawnsIn(c.ops) :
                    c.ops[i].entity = c.ops[j].entity => i = j
               /\ Spawned(c.ops) \cap store.live = {}
    BY DEF ServiceInv, Direct, Future, Ahead, SpawnsDistinct
  <2>2. \A r \in Activities : Component(r, "ActivityRecord").target # {r}
    BY StoreOf DEF OfKind, Whole, ActivityWhole, Component
  <2> QED
    BY <2>1, <2>2 DEF SpawnsAreFresh
<1> QED
  BY <1>1, ServiceInvariant, PTL

(***************************************************************************)
(* What process_action returns and what the kernel will emit are the same  *)
(* events, in one order, numbered without a gap, refused actions included. *)
(***************************************************************************)
THEOREM RecordsAreTheEvents == Spec => []EventsMirrorOps
<1>1. ServiceInv => EventsMirrorOps
  <2> SUFFICES ASSUME ServiceInv, NEW c \in open, NEW records, records = drained \o c.events
               PROVE  /\ Apply(EmptyStore, c.ops).events =
                           [i \in DOMAIN records |-> records[i].value]
                      /\ \A i \in DOMAIN records :
                           records[i].sequence = i - 1 /\ records[i].tick = c.tick
    BY DEF EventsMirrorOps
  <2>1. Mirrors(Apply(EmptyStore, c.ops), drained, c.eventSeq, c.tick) /\ c.events = <<>>
    BY DEF ServiceInv, Direct, Future, Bound
  <2>2. drained \o <<>> = drained
    BY <2>1 DEF Mirrors, IsSeq
  <2> QED
    BY <2>1, <2>2 DEF Mirrors
<1> QED
  BY <1>1, ServiceInvariant, PTL

(***************************************************************************)
(* The depth of a space is one more than that of its parent, to any        *)
(* MaxSpaceDepth.                                                          *)
(***************************************************************************)
THEOREM DepthsAreRight == Spec => []DepthIsParents
<1>1. ServiceInv => DepthIsParents
  <2> SUFFICES ASSUME ServiceInv PROVE DepthIsParents
    OBVIOUS
  <2>1. ASSUME NEW s \in Spaces, NEW parent, NEW depth,
               parent = Component(s, "SpaceConfig").parent,
               depth = Component(s, "ParentChainDepth")
        PROVE  /\ depth <= MaxSpaceDepth
               /\ \A p \in parent : /\ p \in Spaces
                                    /\ depth = Component(p, "ParentChainDepth") + 1
               /\ parent = {} => depth = 0
    <3>1. SpaceWhole(store, s)
      BY StoreOf DEF OfKind, Whole
    <3>2. depth \in 0 .. MaxSpaceDepth
      BY <2>1, <3>1 DEF SpaceWhole, Component
    <3>3. depth <= MaxSpaceDepth
      BY <3>2, ContextAssumption
    <3>4. \A p \in parent : p \in Spaces /\ depth = Component(p, "ParentChainDepth") + 1
      BY <2>1, <3>1, StoreOf DEF SpaceWhole, Component
    <3> QED
      BY <2>1, <3>1, <3>3, <3>4 DEF SpaceWhole, Component
  <2> QED
    BY <2>1 DEF DepthIsParents
<1> QED
  BY <1>1, ServiceInvariant, PTL

(***************************************************************************)
(* On a context, a key belongs to the first record accepted under it and   *)
(* to that context, and a handle to no actor of an earlier tick: a context *)
(* checks against indexes as old as itself, and nothing is applied while   *)
(* it is open.                                                             *)
(***************************************************************************)
THEOREM FirstIsIndexed == Spec => []IndexedOnce
<1>1. ServiceInv => IndexedOnce
  <2> SUFFICES ASSUME ServiceInv PROVE IndexedOnce
    OBVIOUS
  <2>1. ASSUME NEW j \in 1 .. Len(log), log[j].path = "direct"
        PROVE  IndexedEntry(store, log, dedup, j)
    BY <2>1, StoreOf DEF World, Indexed
  <2>2. ASSUME NEW j \in 1 .. Len(log), log[j].path = "direct", NEW k \in log[j].key
        PROVE  /\ k \in DOMAIN dedup /\ dedup[k].tick = log[j].tick
               /\ \E i \in 1 .. j :
                    /\ log[i].key = {k} /\ log[i].path = "direct"
                    /\ dedup[k].entity = log[i].spawned
                    /\ \A h \in 1 .. i - 1 :
                         log[h].path = "direct" => log[h].key # {k}
    <3>1. IndexedEntry(store, log, dedup, j)
      BY <2>1, <2>2
    <3>2. PICK i \in 1 .. j : FirstOfKey(log, dedup, k, i)
      BY <3>1 DEF IndexedEntry
    <3> QED
      BY <3>1, <3>2 DEF IndexedEntry, FirstOfKey
  <2>3. ASSUME NEW j \in 1 .. Len(log), log[j].path = "direct",
               NEW x \in log[j].spawned \cap Actors, NEW y \in Actors,
               Component(y, "ActorProfile") = Component(x, "ActorProfile")
        PROVE  y[2] >= log[j].tick
    <3>1. IndexedEntry(store, log, dedup, j)
      BY <2>1, <2>3
    <3>2. Actors = OfKind(store, "ActorProfile")
      BY StoreOf
    <3> QED
      BY <2>3, <3>1, <3>2 DEF IndexedEntry, Handle, Component
  <2> QED
    BY <2>2, <2>3 DEF IndexedOnce
<1> QED
  BY <1>1, ServiceInvariant, PTL
=============================================================================
