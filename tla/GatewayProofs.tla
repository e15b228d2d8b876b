--------------------------- MODULE GatewayProofs ---------------------------
(***************************************************************************)
(* Proofs about the response store of Gateway, and about what it gives and *)
(* refuses to execute, for any model, any clients, any commands and any    *)
(* number of requests.                                                     *)
(***************************************************************************)
EXTENDS Gateway, FiniteSetTheorems, NaturalsInduction, TLAPS

(***************************************************************************)
(* The requests are a sequence of records.                                 *)
(***************************************************************************)
\* What a request has that the proofs look at.
Fields == {"ask", "prev", "results", "pc", "chat", "out", "says", "end", "done", "kept"}

ReqInv ==
  /\ \E S : req \in Seq(S)
  /\ \A r \in DOMAIN req :
       /\ Fields \subseteq DOMAIN req[r]
       /\ req[r].pc \in {"upstream", "repair", "store", "end"}
       /\ req[r].pc = "store" => req[r].end = "completed" /\ ~ req[r].ask.chat

Kept == {stored[i] : i \in DOMAIN stored}

\* What has been stored are the complete responses, each of them once.
StoredInv ==
  /\ stored \in Seq(Nat) /\ expired \in 0..Len(stored)
  /\ \A i, j \in DOMAIN stored : i # j => stored[i] # stored[j]
  /\ Kept = MayContinue
  /\ DOMAIN store \subseteq Kept

StoreInv ==
  /\ IsFiniteSet(DOMAIN store) /\ Cardinality(DOMAIN store) <= MaxEntries
  /\ CompletedCanBeContinued

GatewayInv == ReqInv /\ StoredInv /\ StoreInv

LEMMA SeqGrows ==
  ASSUME NEW S, NEW s \in Seq(S), NEW e
  PROVE  /\ Append(s, e) \in Seq(S \union {e}) /\ Len(Append(s, e)) = Len(s) + 1
         /\ DOMAIN Append(s, e) = 1..(Len(s) + 1) /\ DOMAIN s = 1..Len(s) /\ Len(s) \in Nat
         /\ Append(s, e)[Len(s) + 1] = e /\ \A i \in 1..Len(s) : Append(s, e)[i] = s[i]
<1>1. s \in Seq(S \union {e})
  <2>1. Len(s) \in Nat /\ s \in [1..Len(s) -> S]
    OBVIOUS
  <2>2. s \in [1..Len(s) -> S \union {e}]
    BY <2>1
  <2> QED
    BY <2>1, <2>2
<1> QED
  BY <1>1

LEMMA LeastPlace ==
  ASSUME NEW S, S \subseteq Nat, S # {}
  PROVE  \E x \in S : \A y \in S : x <= y
<1>1. PICK x \in S : \A y \in S : ~ (<<y, x>> \in OpToRel(<, Nat))
  BY NatLessThanWellFounded, WFMin
<1>2. ASSUME NEW y \in S, y < x PROVE FALSE
  <2>1. <<y, x>> \in OpToRel(<, Nat)
    BY <1>2 DEF OpToRel
  <2> QED
    BY <1>1, <2>1
<1> QED
  BY <1>2

\* Of entries in the store one was stored before the others: the one that
\* responseStore.set evicts.
LEMMA VictimIsFirst ==
  ASSUME StoredInv, NEW kept, kept \subseteq Kept, kept # {}
  PROVE  /\ Victim(kept) \in kept
         /\ \A o \in kept \ {Victim(kept)} : StoredBefore(Victim(kept), o)
<1> DEFINE Places == {i \in DOMAIN stored : stored[i] \in kept}
<1>1. DOMAIN stored \subseteq Nat
  BY DEF StoredInv
<1>2. PICK i \in Places : \A j \in Places : i <= j
  <2>1. Places \subseteq Nat /\ Places # {}
    BY <1>1 DEF Kept
  <2> HIDE DEF Places
  <2> QED
    BY <2>1, LeastPlace
<1>3. ASSUME NEW o \in kept \ {stored[i]} PROVE StoredBefore(stored[i], o)
  <2>1. PICK j \in DOMAIN stored : stored[j] = o
    BY DEF Kept
  <2>2. i \in DOMAIN stored /\ j \in DOMAIN stored /\ i \in Nat /\ j \in Nat /\ i <= j /\ i # j
    BY <2>1, <1>1, <1>2
  <2>3. i < j
    BY <2>2
  <2> QED
    BY <2>1, <2>2, <2>3 DEF StoredBefore
<1>4. stored[i] \in kept
  OBVIOUS
<1> HIDE DEF Places
<1> QED
  BY <1>3, <1>4 DEF Victim

\* Only a response that has been stored makes a difference to the store.
LEMMA StoreFrame ==
  ASSUME StoredInv, StoreInv, ReqInv,
         stored' = stored, expired' \in 0..Len(stored), expired <= expired',
         DOMAIN store' \subseteq DOMAIN store,
         \A id \in DOMAIN store \ DOMAIN store' : Expired(id)',
         DOMAIN req \subseteq DOMAIN req', IsFiniteSet(DOMAIN req'),
         MayContinue' = MayContinue
  PROVE  StoredInv' /\ StoreInv'
<1>1. StoredInv'
  BY DEF StoredInv, Kept
<1>2. IsFiniteSet(DOMAIN store') /\ Cardinality(DOMAIN store') <= MaxEntries
  <2>1. /\ IsFiniteSet(DOMAIN store') /\ Cardinality(DOMAIN store') <= Cardinality(DOMAIN store)
        /\ Cardinality(DOMAIN store) \in Nat /\ Cardinality(DOMAIN store') \in Nat
    BY FS_Subset, FS_CardinalityType DEF StoreInv
  <2> QED
    BY <2>1, GatewayAssumption DEF StoreInv
<1>3. \A a, b : StoredBefore(a, b)' = StoredBefore(a, b)
  BY DEF StoredBefore
<1>4. \A id : Expired(id) => Expired(id)'
  <2>1. \A i \in 1..expired : i \in 1..expired'
    BY DEF StoredInv
  <2> QED
    BY <2>1 DEF Expired
<1>5. ASSUME NEW r \in MayContinue,
             Cardinality({o \in DOMAIN req : StoredBefore(r, o)}) >= MaxEntries
      PROVE  Cardinality({o \in DOMAIN req' : StoredBefore(r, o)'}) >= MaxEntries
  <2> DEFINE A == {o \in DOMAIN req : StoredBefore(r, o)}
             B == {o \in DOMAIN req' : StoredBefore(r, o)'}
  <2>1. A \subseteq B /\ B \subseteq DOMAIN req'
    BY <1>3
  <2>2. Cardinality(A) >= MaxEntries
    BY <1>5
  <2> HIDE DEF A, B
  <2>3. IsFiniteSet(B) /\ Cardinality(A) <= Cardinality(B)
        /\ Cardinality(A) \in Nat /\ Cardinality(B) \in Nat
    BY <2>1, FS_Subset, FS_CardinalityType
  <2>4. Cardinality(B) >= MaxEntries
    BY <2>2, <2>3, GatewayAssumption
  <2> QED
    BY <2>4 DEF B
<1>6. CompletedCanBeContinued'
  <2> SUFFICES ASSUME NEW r \in MayContinue
               PROVE  \/ Expired(r)' \/ r \in DOMAIN store'
                      \/ Cardinality({o \in DOMAIN req' : StoredBefore(r, o)'}) >= MaxEntries
    BY DEF CompletedCanBeContinued
  <2>1. \/ Expired(r) \/ r \in DOMAIN store
        \/ Cardinality({o \in DOMAIN req : StoredBefore(r, o)}) >= MaxEntries
    BY DEF StoreInv, CompletedCanBeContinued
  <2> QED
    BY <2>1, <1>4, <1>5
<1> QED
  BY <1>1, <1>2, <1>6 DEF StoreInv

LEMMA RequestsAreFinite ==
  ASSUME ReqInv
  PROVE  /\ Len(req) \in Nat /\ DOMAIN req = 1..Len(req) /\ IsFiniteSet(DOMAIN req)
         /\ DOMAIN req \subseteq Nat
<1>1. Len(req) \in Nat /\ DOMAIN req = 1..Len(req)
  BY DEF ReqInv
<1> QED
  BY <1>1, FS_Interval

(***************************************************************************)
(* store.set: the response that is pushed out has maxEntries later ones.   *)
(***************************************************************************)
LEMMA StoreSafe ==
  ASSUME GatewayInv, NEW r \in DOMAIN req, StoreResponse(r)
  PROVE  GatewayInv'
<1>0. ReqInv /\ StoredInv /\ StoreInv /\ req[r].pc = "store" /\ req[r].end = "completed"
      /\ ~ req[r].ask.chat /\ req' = [req EXCEPT ![r].pc = "end"] /\ expired' = expired
  BY DEF GatewayInv, ReqInv, StoreResponse
<1>1. PICK S : req \in Seq(S)
  BY <1>0 DEF ReqInv
<1>2. /\ DOMAIN req' = DOMAIN req /\ req'[r].pc = "end" /\ req'[r].end = "completed"
      /\ ~ req'[r].ask.chat /\ DOMAIN req'[r] = DOMAIN req[r]
      /\ \A p \in DOMAIN req \ {r} : req'[p] = req[p]
  BY <1>0, <1>1 DEF ReqInv, Fields
<1>3. ReqInv'
  <2>1. req' \in Seq(S \cup {req'[r]})
    <3>1. req' = [req EXCEPT ![r] = req'[r]]
      BY <1>0, <1>1
    <3>2. req \in [1..Len(req) -> S] /\ Len(req) \in Nat
      BY <1>1
    <3>3. \A p \in 1..Len(req) : req'[p] \in S \cup {req'[r]}
      BY <1>1, <1>2, <3>2
    <3>4. req' = [p \in 1..Len(req) |-> req'[p]]
      BY <1>0, <3>2
    <3>5. req' \in [1..Len(req) -> S \cup {req'[r]}]
      BY <3>3, <3>4
    <3> QED
      BY <3>2, <3>5
  <2> QED
    BY <2>1, <1>0, <1>2 DEF ReqInv
<1>4. MayContinue' = MayContinue \cup {r} /\ r \notin MayContinue
  BY <1>0, <1>2 DEF MayContinue
<1>5. /\ stored' = Append(stored, r) /\ Len(stored) \in Nat /\ r \in Nat
      /\ DOMAIN stored = 1..Len(stored) /\ DOMAIN stored' = 1..(Len(stored) + 1)
      /\ stored'[Len(stored) + 1] = r /\ \A i \in 1..Len(stored) : stored'[i] = stored[i]
      /\ stored' \in Seq(Nat) /\ Len(stored') = Len(stored) + 1
  <2>1. stored \in Seq(Nat) /\ r \in Nat /\ stored' = Append(stored, r)
    BY <1>0, RequestsAreFinite DEF StoreResponse, Set, StoredInv
  <2> QED
    BY <2>1
<1>6. Kept' = Kept \cup {r} /\ r \notin Kept
  <2>1. Kept' = Kept \cup {r}
    BY <1>5 DEF Kept
  <2> QED
    BY <2>1, <1>0, <1>4 DEF StoredInv
<1>7. PICK kept, left :
        /\ kept = (IF Cardinality(DOMAIN store) >= MaxEntries THEN Fresh ELSE DOMAIN store)
        /\ left = (IF Cardinality(kept) >= MaxEntries THEN kept \ {Victim(kept)} ELSE kept)
        /\ DOMAIN store' = left \cup {r}
  BY DEF StoreResponse, Set
<1>8. /\ IsFiniteSet(kept) /\ Cardinality(kept) \in Nat /\ Cardinality(kept) <= MaxEntries
      /\ kept \subseteq DOMAIN store /\ kept \subseteq Kept /\ left \subseteq kept
      /\ \A id \in DOMAIN store \ kept : Expired(id)
  <2>1. kept \subseteq DOMAIN store /\ left \subseteq kept
        /\ \A id \in DOMAIN store \ kept : Expired(id)
    BY <1>7 DEF Fresh
  <2>2. IsFiniteSet(kept) /\ Cardinality(kept) <= Cardinality(DOMAIN store)
        /\ Cardinality(kept) \in Nat /\ Cardinality(DOMAIN store) \in Nat
    BY <2>1, <1>0, FS_Subset, FS_CardinalityType DEF StoreInv
  <2> QED
    BY <2>1, <2>2, <1>0, GatewayAssumption DEF StoredInv, StoreInv
<1>9. ASSUME Cardinality(kept) >= MaxEntries
      PROVE  /\ Victim(kept) \in kept
             /\ \A o \in kept \ {Victim(kept)} : StoredBefore(Victim(kept), o)
  <2>1. kept # {}
    BY <1>9, FS_EmptySet, GatewayAssumption
  <2> QED
    BY <2>1, <1>0, <1>8, VictimIsFirst
<1>10. IsFiniteSet(DOMAIN store') /\ Cardinality(DOMAIN store') <= MaxEntries
  <2>1. IsFiniteSet(left) /\ Cardinality(left) \in Nat /\ Cardinality(left) < MaxEntries
    <3>1. CASE Cardinality(kept) >= MaxEntries
      <4>1. IsFiniteSet(kept \ {Victim(kept)})
            /\ Cardinality(kept \ {Victim(kept)}) = Cardinality(kept) - 1
        BY <1>8, <1>9, <3>1, FS_RemoveElement
      <4>2. left = kept \ {Victim(kept)}
        BY <1>7, <3>1
      <4>3. IsFiniteSet(left) /\ Cardinality(left) = Cardinality(kept) - 1 /\ Cardinality(left) \in Nat
        BY <4>1, <4>2, FS_CardinalityType
      <4> QED
        BY <4>3, <1>8, GatewayAssumption
    <3>2. CASE ~ (Cardinality(kept) >= MaxEntries)
      <4>1. left = kept
        BY <1>7, <3>2
      <4> QED
        BY <4>1, <3>2, <1>8, GatewayAssumption
    <3> QED
      BY <3>1, <3>2
  <2>2. r \notin left
    BY <1>6, <1>8
  <2>3. IsFiniteSet(left \cup {r}) /\ Cardinality(left \cup {r}) = Cardinality(left) + 1
    BY <2>1, <2>2, FS_AddElement
  <2> QED
    BY <2>1, <2>3, <1>7, GatewayAssumption
<1>11. StoredInv'
  <2>1. expired' \in 0..Len(stored')
    BY <1>0, <1>5 DEF StoredInv
  <2>2. \A i, j \in DOMAIN stored' : i # j => stored'[i] # stored'[j]
    <3>1. \A i \in 1..Len(stored) : stored'[i] # r
      BY <1>5, <1>6 DEF Kept
    <3>2. \A i \in DOMAIN stored' : i \in 1..Len(stored) \/ i = Len(stored) + 1
      BY <1>5
    <3> QED
      BY <3>1, <3>2, <1>0, <1>5 DEF StoredInv
  <2>3. Kept' = MayContinue' /\ DOMAIN store' \subseteq Kept'
    BY <1>0, <1>4, <1>6, <1>7, <1>8 DEF StoredInv
  <2> QED
    BY <2>1, <2>2, <2>3, <1>5 DEF StoredInv
<1>12. \A id : Expired(id) => Expired(id)'
  <2>1. \A i \in 1..expired : i \in 1..Len(stored)
    BY <1>0, <1>5 DEF StoredInv
  <2> QED
    BY <2>1, <1>0, <1>5 DEF Expired
<1>13. /\ \A a, b : StoredBefore(a, b) => StoredBefore(a, b)'
       /\ \A a \in Kept : StoredBefore(a, r)'
  <2>1. DOMAIN stored \subseteq DOMAIN stored'
        /\ \A i \in DOMAIN stored : stored'[i] = stored[i] /\ i < Len(stored) + 1
        /\ Len(stored) + 1 \in DOMAIN stored' /\ stored'[Len(stored) + 1] = r
    BY <1>5
  <2>2. \A a, b : StoredBefore(a, b) => StoredBefore(a, b)'
    BY <2>1 DEF StoredBefore
  <2>3. ASSUME NEW a \in Kept PROVE StoredBefore(a, r)'
    <3>1. PICK i \in DOMAIN stored : stored[i] = a
      BY DEF Kept
    <3> QED
      BY <3>1, <2>1 DEF StoredBefore
  <2> QED
    BY <2>2, <2>3
<1>14. ASSUME NEW p \in MayContinue, NEW T, T \subseteq DOMAIN req, IsFiniteSet(T),
              Cardinality(T) >= MaxEntries, \A o \in T : StoredBefore(p, o)'
       PROVE  Cardinality({o \in DOMAIN req' : StoredBefore(p, o)'}) >= MaxEntries
  <2> DEFINE B == {o \in DOMAIN req' : StoredBefore(p, o)'}
  <2>1. T \subseteq B /\ B \subseteq DOMAIN req
    BY <1>14, <1>2
  <2> HIDE DEF B
  <2>2. IsFiniteSet(B) /\ Cardinality(T) <= Cardinality(B)
        /\ Cardinality(T) \in Nat /\ Cardinality(B) \in Nat
    BY <2>1, <1>0, <1>14, RequestsAreFinite, FS_Subset, FS_CardinalityType
  <2>3. Cardinality(B) >= MaxEntries
    BY <2>2, <1>14, GatewayAssumption
  <2> QED
    BY <2>3 DEF B
<1>15. CompletedCanBeContinued'
  <2> SUFFICES ASSUME NEW p \in MayContinue', ~ Expired(p)', p \notin DOMAIN store'
               PROVE  Cardinality({o \in DOMAIN req' : StoredBefore(p, o)'}) >= MaxEntries
    BY DEF CompletedCanBeContinued
  <2>1. p \in MayContinue /\ p \notin left
    BY <1>4, <1>7
  <2>2. \/ p \in DOMAIN store
        \/ Cardinality({o \in DOMAIN req : StoredBefore(p, o)}) >= MaxEntries
    BY <2>1, <1>0, <1>12 DEF StoreInv, CompletedCanBeContinued
  <2>3. CASE Cardinality({o \in DOMAIN req : StoredBefore(p, o)}) >= MaxEntries
    <3> DEFINE T == {o \in DOMAIN req : StoredBefore(p, o)}
    <3>1. T \subseteq DOMAIN req /\ \A o \in T : StoredBefore(p, o)'
      BY <1>13
    <3>2. Cardinality(T) >= MaxEntries
      BY <2>3
    <3> HIDE DEF T
    <3>3. IsFiniteSet(T)
      BY <3>1, <1>0, RequestsAreFinite, FS_Subset
    <3> QED
      BY <3>1, <3>2, <3>3, <2>1, <1>14
  <2>4. CASE p \in DOMAIN store
    <3>1. p \in kept
      BY <2>4, <1>8, <1>12
    <3>2. Cardinality(kept) >= MaxEntries /\ p = Victim(kept)
      BY <3>1, <2>1, <1>7
    <3> DEFINE T == (kept \ {p}) \cup {r}
    <3>3. T \subseteq DOMAIN req
      BY <1>0, <1>8 DEF StoredInv, MayContinue
    <3>4. \A o \in T : StoredBefore(p, o)'
      BY <3>1, <3>2, <1>8, <1>9, <1>13
    <3>5. IsFiniteSet(T) /\ Cardinality(T) = Cardinality(kept)
      <4>1. IsFiniteSet(kept \ {p}) /\ Cardinality(kept \ {p}) = Cardinality(kept) - 1
        BY <3>1, <1>8, FS_RemoveElement
      <4>2. r \notin kept \ {p}
        BY <1>6, <1>8
      <4>3. IsFiniteSet(T) /\ Cardinality(T) = Cardinality(kept \ {p}) + 1
        BY <4>1, <4>2, FS_AddElement
      <4> QED
        BY <4>1, <4>3, <1>8
    <3> HIDE DEF T
    <3>6. Cardinality(T) >= MaxEntries
      BY <3>2, <3>5
    <3> QED
      BY <3>3, <3>4, <3>5, <3>6, <2>1, <1>14
  <2> QED
    BY <2>2, <2>3, <2>4
<1> QED
  BY <1>3, <1>10, <1>11, <1>15 DEF GatewayInv, StoreInv

(***************************************************************************)
(* The other steps: a request that arrives is not complete, one that is    *)
(* answered is stored before it is, and get forgets only what expired.     *)
(***************************************************************************)
LEMMA ArriveSafe ==
  ASSUME GatewayInv, NEW ask \in Asks, NEW prev \in {None} \cup MayContinue,
         NEW results, Arrive(ask, prev, results)
  PROVE  GatewayInv'
<1>0. ReqInv /\ StoredInv /\ StoreInv /\ stored' = stored /\ expired' = expired
  BY DEF GatewayInv, Arrive
<1>1. PICK q : /\ req' = Append(req, q) /\ Fields \subseteq DOMAIN q
               /\ q.pc \in {"upstream", "end"} /\ q.end # "completed"
  <2> DEFINE o == Opened(ask, prev, results)
  <2>1. o.pc = "upstream" /\ o.end = "none"
        /\ DOMAIN o = {"ask", "prev", "results", "pc", "chat", "out", "says", "end", "done", "kept"}
    BY DEF Opened
  <2>2. ASSUME NEW x, x.pc = "upstream", x.end = "none",
               Fields \subseteq DOMAIN x, NEW why, why # "completed"
        PROVE  /\ Fields \subseteq DOMAIN Ended(x, why)
               /\ Ended(x, why).pc = "end" /\ Ended(x, why).end # "completed"
    BY <2>2 DEF Ended, Fields
  <2>3. CASE req' = Append(req, Ended(o, "previous_not_found"))
    <3>1. Fields \subseteq DOMAIN o
      BY <2>1 DEF Fields
    <3> HIDE DEF o
    <3>2. /\ Fields \subseteq DOMAIN Ended(o, "previous_not_found")
          /\ Ended(o, "previous_not_found").pc = "end"
          /\ Ended(o, "previous_not_found").end # "completed"
      BY <3>1, <2>1, <2>2
    <3> QED
      BY <2>3, <3>2
  <2>4. CASE \E chat, msgs, kept : LET asked == [o EXCEPT !.chat = chat, !.kept = kept]
             IN  req' = Append(req, IF TooLarge(chat) THEN Ended(asked, "context_window_exceeded")
                                                       ELSE asked)
    <3> HIDE DEF o
    <3>1. PICK chat, kept : req' = Append(req,
             IF TooLarge(chat) THEN Ended([o EXCEPT !.chat = chat, !.kept = kept], "context_window_exceeded")
             ELSE [o EXCEPT !.chat = chat, !.kept = kept])
      BY <2>4
    <3>2. PICK x : x = [o EXCEPT !.chat = chat, !.kept = kept]
      OBVIOUS
    <3>3. x.pc = "upstream" /\ x.end = "none" /\ Fields \subseteq DOMAIN x
      BY <3>2, <2>1 DEF Fields
    <3>4. /\ Fields \subseteq DOMAIN Ended(x, "context_window_exceeded")
          /\ Ended(x, "context_window_exceeded").pc = "end"
          /\ Ended(x, "context_window_exceeded").end # "completed"
      BY <3>3, <2>2
    <3>5. req' = Append(req, IF TooLarge(chat) THEN Ended(x, "context_window_exceeded") ELSE x)
      BY <3>1, <3>2
    <3>6. CASE TooLarge(chat)
      BY <3>4, <3>5, <3>6
    <3>7. CASE ~ TooLarge(chat)
      BY <3>3, <3>5, <3>7
    <3> QED
      BY <3>6, <3>7
  <2> QED
    BY <2>3, <2>4, Zenon DEF Arrive
<1>2. PICK S : req \in Seq(S)
  BY <1>0 DEF ReqInv
<1>3. /\ req' \in Seq(S \cup {q}) /\ DOMAIN req' = DOMAIN req \cup {Len(req) + 1}
      /\ Len(req) + 1 \notin DOMAIN req /\ req'[Len(req) + 1] = q
      /\ \A p \in DOMAIN req : req'[p] = req[p]
  <2>1. /\ Append(req, q) \in Seq(S \cup {q}) /\ Len(req) \in Nat /\ DOMAIN req = 1..Len(req)
        /\ DOMAIN Append(req, q) = 1..(Len(req) + 1) /\ Append(req, q)[Len(req) + 1] = q
        /\ \A i \in 1..Len(req) : Append(req, q)[i] = req[i]
    BY <1>2, SeqGrows
  <2> QED
    BY <2>1, <1>1
<1>4. ReqInv'
  BY <1>0, <1>1, <1>3 DEF ReqInv
<1>5. MayContinue' = MayContinue
  BY <1>1, <1>3 DEF MayContinue
<1>6. /\ DOMAIN store' \subseteq DOMAIN store
      /\ \A id \in DOMAIN store \ DOMAIN store' : Expired(id)
  BY DEF Arrive, Get, Fresh
<1>7. \A id : Expired(id)' = Expired(id)
  BY <1>0 DEF Expired
<1>8. expired' \in 0..Len(stored) /\ expired <= expired'
  BY <1>0 DEF StoredInv
<1>9. IsFiniteSet(DOMAIN req') /\ DOMAIN req \subseteq DOMAIN req'
  <2>1. IsFiniteSet(DOMAIN req)
    BY <1>0, RequestsAreFinite
  <2>2. IsFiniteSet(DOMAIN req \cup {Len(req) + 1})
    BY <2>1, FS_AddElement
  <2> QED
    BY <2>2, <1>3
<1>10. StoredInv' /\ StoreInv'
  BY <1>0, <1>5, <1>6, <1>7, <1>8, <1>9, StoreFrame
<1> QED
  BY <1>4, <1>10 DEF GatewayInv

LEMMA FinishSafe ==
  ASSUME GatewayInv, NEW r \in DOMAIN req, req[r].pc # "end", NEW result, Finish(r, result),
         UNCHANGED <<store, stored, expired>>
  PROVE  GatewayInv'
<1>0. ReqInv /\ StoredInv /\ StoreInv
  BY DEF GatewayInv
<1>1. PICK pc : pc = (CASE result.end = "repair" -> "repair"
                        [] result.end = "completed" /\ ~ req[r].ask.chat -> "store"
                        [] OTHER -> "end")
  OBVIOUS
<1>2. PICK end : end = (IF pc = "repair" THEN "none" ELSE result.end)
  OBVIOUS
<1>3. req' = [req EXCEPT ![r].pc = pc, ![r].out = result.out, ![r].says = result.says,
                         ![r].end = end]
  BY <1>1, <1>2, Zenon DEF Finish
<1>4. /\ pc \in {"repair", "store", "end"}
      /\ pc = "store" => end = "completed" /\ ~ req[r].ask.chat
      /\ pc = "end" /\ end = "completed" => req[r].ask.chat
  <2>1. CASE result.end = "repair"
    <3>1. pc = "repair"
      BY <1>1, <2>1
    <3> QED
      BY <3>1
  <2>2. CASE result.end = "completed" /\ ~ req[r].ask.chat
    <3>1. pc = "store"
      BY <1>1, <2>2
    <3> QED
      BY <3>1, <1>2, <2>2
  <2>3. CASE result.end # "repair" /\ ~ (result.end = "completed" /\ ~ req[r].ask.chat)
    <3>1. pc = "end"
      BY <1>1, <2>3
    <3> QED
      BY <3>1, <1>2, <2>3
  <2> QED
    BY <2>1, <2>2, <2>3
<1>5. PICK S : req \in Seq(S)
  BY <1>0 DEF ReqInv
<1>6. /\ DOMAIN req' = DOMAIN req /\ req'[r].pc = pc /\ req'[r].end = end
      /\ req'[r].ask = req[r].ask /\ DOMAIN req'[r] = DOMAIN req[r]
      /\ \A p \in DOMAIN req \ {r} : req'[p] = req[p]
  BY <1>0, <1>3, <1>5 DEF ReqInv, Fields
<1>7. ReqInv'
  <2>1. req' \in Seq(S \cup {req'[r]})
    <3>1. req \in [1..Len(req) -> S] /\ Len(req) \in Nat
      BY <1>5
    <3>2. \A p \in 1..Len(req) : req'[p] \in S \cup {req'[r]}
      BY <1>6, <3>1
    <3>3. req' = [p \in 1..Len(req) |-> req'[p]]
      BY <1>3, <3>1
    <3>4. req' \in [1..Len(req) -> S \cup {req'[r]}]
      BY <3>2, <3>3
    <3> QED
      BY <3>1, <3>4
  <2> QED
    BY <2>1, <1>0, <1>4, <1>6 DEF ReqInv
<1>8. MayContinue' = MayContinue
  BY <1>4, <1>6 DEF MayContinue
<1>9. expired' \in 0..Len(stored) /\ expired <= expired'
  BY <1>0 DEF StoredInv
<1>10. IsFiniteSet(DOMAIN req') /\ DOMAIN req \subseteq DOMAIN req'
  BY <1>0, <1>6, RequestsAreFinite
<1>11. StoredInv' /\ StoreInv'
  BY <1>0, <1>8, <1>9, <1>10, StoreFrame
<1> QED
  BY <1>7, <1>11 DEF GatewayInv

LEMMA ExpireSafe ==
  ASSUME GatewayInv, Expire
  PROVE  GatewayInv'
<1>0. ReqInv /\ StoredInv /\ StoreInv /\ UNCHANGED <<store, stored, req>>
  BY DEF GatewayInv, Expire
<1>1. ReqInv' /\ MayContinue' = MayContinue
  BY <1>0 DEF ReqInv, MayContinue
<1>2. expired' \in 0..Len(stored) /\ expired <= expired'
  <2>1. Len(stored) \in Nat
    BY <1>0 DEF StoredInv
  <2> QED
    BY <2>1, <1>0 DEF Expire, StoredInv
<1>3. StoredInv' /\ StoreInv'
  BY <1>0, <1>1, <1>2, RequestsAreFinite, StoreFrame
<1> QED
  BY <1>1, <1>3 DEF GatewayInv

LEMMA InitSafe ==
  ASSUME Init
  PROVE  GatewayInv
<1>1. store = <<>> /\ stored = <<>> /\ req = <<>> /\ expired = 0
  BY DEF Init
<1>2. DOMAIN store = {} /\ DOMAIN stored = {} /\ DOMAIN req = {}
      /\ stored \in Seq(Nat) /\ Len(stored) = 0 /\ req \in Seq({})
  BY <1>1
<1>3. MayContinue = {} /\ Kept = {}
  BY <1>2 DEF MayContinue, Kept
<1>4. IsFiniteSet(DOMAIN store) /\ Cardinality(DOMAIN store) <= MaxEntries
  <2>1. IsFiniteSet({}) /\ Cardinality({}) = 0
    BY FS_EmptySet
  <2> QED
    BY <2>1, <1>2, GatewayAssumption
<1>5. ReqInv /\ StoredInv
  BY <1>1, <1>2, <1>3 DEF ReqInv, StoredInv
<1>6. CompletedCanBeContinued
  BY <1>3 DEF CompletedCanBeContinued
<1> QED
  BY <1>4, <1>5, <1>6 DEF GatewayInv, StoreInv

LEMMA NextSafe ==
  ASSUME GatewayInv, [Next]_vars
  PROVE  GatewayInv'
<1>1. CASE UNCHANGED vars
  BY <1>1 DEF vars, GatewayInv, ReqInv, StoredInv, StoreInv, Kept, MayContinue,
              CompletedCanBeContinued, Expired, StoredBefore
<1>2. ASSUME NEW ask \in Asks, NEW prev \in {None} \cup MayContinue,
             NEW results \in Replies(prev), Arrive(ask, prev, results)
      PROVE  GatewayInv'
  BY <1>2, ArriveSafe
<1>3. ASSUME NEW r \in DOMAIN req, NEW a \in Answers, Answer(r, a) \/ Repair(r, a)
      PROVE  GatewayInv'
  BY <1>3, FinishSafe DEF Answer, Repair
<1>4. ASSUME NEW r \in DOMAIN req, StoreResponse(r)
      PROVE  GatewayInv'
  BY <1>4, StoreSafe
<1>5. CASE Expire
  BY <1>5, ExpireSafe
<1> QED
  BY <1>1, <1>2, <1>3, <1>4, <1>5 DEF Next

\* Whatever is asked and answered, the store keeps to maxEntries, holds only
\* complete responses, and expiry takes them in the order they were stored
\* (responseStore.set and get).
THEOREM TypeCorrect == Spec => []TypeOK
<1>1. GatewayInv => TypeOK
  <2> SUFFICES ASSUME GatewayInv PROVE TypeOK
    OBVIOUS
  <2>1. ReqInv /\ StoredInv /\ StoreInv
    BY DEF GatewayInv
  <2>2. \A id \in DOMAIN store : id \in DOMAIN req /\ req[id].end = "completed"
    BY <2>1 DEF StoredInv, MayContinue
  <2> QED
    BY <2>1, <2>2 DEF TypeOK, ReqInv, StoredInv, StoreInv
<1> QED
  BY <1>1, InitSafe, NextSafe, PTL DEF Spec

\* A response the client was told is complete can be continued until it is ttl
\* old, unless maxEntries later ones pushed it out: the response is stored
\* before its end is sent, get drops only what is expired, and set evicts the
\* entry that was stored first, when maxEntries - 1 others and the new one
\* came after it.
THEOREM ContinueSafe == Spec => []CompletedCanBeContinued
<1>1. GatewayInv => CompletedCanBeContinued
  BY DEF GatewayInv, StoreInv
<1> QED
  BY <1>1, InitSafe, NextSafe, PTL DEF Spec

(***************************************************************************)
(* What repeatedSuccessfulExecCommand reads in a conversation: for every   *)
(* successful output the last exec_command before it with its identifier.  *)
(***************************************************************************)
Names == {a.name : a \in Answers} \cup
         {"", "exec_command", "write_file", "apply_patch", "tool_search_code", "tool_search_code_exec"}
Ids == Nat \X Nat \X Names
Calls == [id : Ids, name : Names, cmd : Commands \cup {Unread}]
Messages ==
  {m \in [role : Roles, calls : Seq(Calls), id : Ids, ok : BOOLEAN, chars : Nat] :
     m.role # "assistant" => m.calls = <<>>}

Noted(call, id) == call.id = id /\ call.name = "exec_command" /\ call.cmd # Unread

LastCall(msgs, j, i, k) ==
  /\ i \in 1..(j - 1) /\ k \in DOMAIN msgs[i].calls /\ Noted(msgs[i].calls[k], msgs[j].id)
  /\ \A x \in 1..(j - 1) : \A y \in DOMAIN msgs[x].calls :
       Noted(msgs[x].calls[y], msgs[j].id) => x < i \/ (x = i /\ y <= k)

\* The commands a conversation shows to have succeeded.
Shown(msgs) ==
  {c \in Commands : \E j \in DOMAIN msgs : \E i, k :
     OutputSucceeded(msgs[j]) /\ LastCall(msgs, j, i, k) /\ c = msgs[i].calls[k].cmd}

LEMMA GreatestPlace ==
  ASSUME NEW n \in Nat, NEW S, S \subseteq 1..n, S # {}
  PROVE  \E x \in S : \A y \in S : y <= x
<1> DEFINE T == {n - x : x \in S}
<1>1. T \subseteq Nat /\ T # {}
  <2>1. \A x \in S : n - x \in Nat
    OBVIOUS
  <2> QED
    BY <2>1
<1> HIDE DEF T
<1>2. PICK t \in T : \A u \in T : t <= u
  BY <1>1, LeastPlace
<1>3. PICK x \in S : t = n - x
  BY DEF T
<1>4. ASSUME NEW y \in S PROVE y <= x
  <2>1. n - y \in T
    BY DEF T
  <2>2. t <= n - y
    BY <2>1, <1>2
  <2>3. x \in Nat /\ y \in Nat
    OBVIOUS
  <2> QED
    BY <2>2, <2>3, <1>3
<1> QED
  BY <1>4

LEMMA CallPairs ==
  ASSUME NEW msgs, NEW j, NEW id
  PROVE  CallsBefore(msgs, j, id) =
           {p \in UNION {{i} \X DOMAIN msgs[i].calls : i \in 1..(j - 1)} :
              Noted(msgs[p[1]].calls[p[2]], id)}
  BY DEF CallsBefore, Noted

LEMMA CallPlaces ==
  ASSUME NEW msgs, NEW j, NEW id
  PROVE  /\ \A p \in CallsBefore(msgs, j, id) : \E i \in 1..(j - 1) : \E k \in DOMAIN msgs[i].calls :
              p = <<i, k>> /\ p[1] = i /\ p[2] = k /\ Noted(msgs[i].calls[k], id)
         /\ \A i \in 1..(j - 1) : \A k \in DOMAIN msgs[i].calls :
              Noted(msgs[i].calls[k], id) => <<i, k>> \in CallsBefore(msgs, j, id)
<1>1. ASSUME NEW p \in CallsBefore(msgs, j, id)
      PROVE  \E i \in 1..(j - 1) : \E k \in DOMAIN msgs[i].calls :
               p = <<i, k>> /\ p[1] = i /\ p[2] = k /\ Noted(msgs[i].calls[k], id)
  <2>1. p \in UNION {{i} \X DOMAIN msgs[i].calls : i \in 1..(j - 1)} /\ Noted(msgs[p[1]].calls[p[2]], id)
    BY CallPairs
  <2>2. PICK i \in 1..(j - 1) : p \in {i} \X DOMAIN msgs[i].calls
    BY <2>1
  <2>3. p = <<p[1], p[2]>> /\ p[1] = i /\ p[2] \in DOMAIN msgs[i].calls
    BY <2>2
  <2> QED
    BY <2>1, <2>3
<1>2. ASSUME NEW i \in 1..(j - 1), NEW k \in DOMAIN msgs[i].calls, Noted(msgs[i].calls[k], id)
      PROVE  <<i, k>> \in CallsBefore(msgs, j, id)
  <2>1. <<i, k>> \in {i} \X DOMAIN msgs[i].calls /\ <<i, k>>[1] = i /\ <<i, k>>[2] = k
    OBVIOUS
  <2>2. <<i, k>> \in UNION {{x} \X DOMAIN msgs[x].calls : x \in 1..(j - 1)}
    BY <2>1
  <2> QED
    BY <2>1, <2>2, <1>2, CallPairs
<1> QED
  BY <1>1, <1>2

LEMMA LastCallExists ==
  ASSUME NEW msgs \in Seq(Messages), NEW j \in DOMAIN msgs, CallsBefore(msgs, j, msgs[j].id) # {}
  PROVE  \E i, k : LastCall(msgs, j, i, k)
<1> DEFINE id == msgs[j].id
           Has(i, k) == Noted(msgs[i].calls[k], id)
           I == {i \in 1..(j - 1) : \E k \in DOMAIN msgs[i].calls : Has(i, k)}
<1>1. j \in Nat /\ j - 1 \in Nat /\ \A i \in 1..(j - 1) : i \in DOMAIN msgs
  OBVIOUS
<1>2. I # {} /\ I \subseteq 1..(j - 1)
  BY CallPlaces
<1>3. PICK i \in I : \A x \in I : x <= i
  <2> HIDE DEF I
  <2> QED
    BY <1>1, <1>2, GreatestPlace
<1> DEFINE K == {k \in DOMAIN msgs[i].calls : Has(i, k)}
<1>4. PICK n \in Nat : DOMAIN msgs[i].calls = 1..n
  <2>1. msgs[i] \in Messages
    BY <1>1, <1>2
  <2>2. msgs[i].calls \in Seq(Calls)
    BY <2>1 DEF Messages
  <2> QED
    BY <2>2
<1>5. K # {} /\ K \subseteq 1..n
  BY <1>4
<1>6. PICK k \in K : \A y \in K : y <= k
  <2> HIDE DEF K
  <2> QED
    BY <1>5, GreatestPlace
<1>7. ASSUME NEW x \in 1..(j - 1), NEW y \in DOMAIN msgs[x].calls, Has(x, y)
      PROVE  x < i \/ (x = i /\ y <= k)
  <2>1. x \in I
    BY <1>7
  <2>2. x <= i /\ i \in 1..(j - 1)
    BY <2>1, <1>3
  <2>3. CASE x = i
    <3>1. y \in K
      BY <2>3, <1>7
    <3> QED
      BY <3>1, <2>3, <1>6
  <2>4. CASE x # i
    BY <2>4, <2>2, <1>1
  <2> QED
    BY <2>3, <2>4
<1>8. i \in 1..(j - 1) /\ k \in DOMAIN msgs[i].calls /\ Has(i, k)
  OBVIOUS
<1>9. LastCall(msgs, j, i, k)
  BY <1>7, <1>8 DEF LastCall
<1> QED
  BY <1>9

LEMMA SeenIsLastCall ==
  ASSUME NEW msgs \in Seq(Messages), NEW j \in DOMAIN msgs, NEW i, NEW k, LastCall(msgs, j, i, k)
  PROVE  /\ CallsBefore(msgs, j, msgs[j].id) # {}
         /\ Seen(msgs, j, msgs[j].id) = msgs[i].calls[k].cmd
         /\ msgs[i].calls[k].cmd \in Commands
<1> DEFINE id == msgs[j].id
           B == CallsBefore(msgs, j, id)
           Top(p) == \A o \in B : p[1] > o[1] \/ (p[1] = o[1] /\ p[2] >= o[2])
<1>1. /\ i \in 1..(j - 1) /\ k \in DOMAIN msgs[i].calls /\ Noted(msgs[i].calls[k], id)
      /\ \A x \in 1..(j - 1) : \A y \in DOMAIN msgs[x].calls :
           Noted(msgs[x].calls[y], id) => x < i \/ (x = i /\ y <= k)
  BY DEF LastCall
<1>2. \A x \in 1..(j - 1) : x \in DOMAIN msgs /\ msgs[x] \in Messages
  OBVIOUS
<1>3. \A x \in 1..(j - 1) : msgs[x].calls \in Seq(Calls) /\ DOMAIN msgs[x].calls \subseteq Nat
  <2>1. \A x \in 1..(j - 1) : msgs[x].calls \in Seq(Calls)
    BY <1>2 DEF Messages
  <2> QED
    BY <2>1
<1>4. \A p \in B : \E x \in 1..(j - 1) : \E y \in DOMAIN msgs[x].calls :
        p = <<x, y>> /\ p[1] = x /\ p[2] = y /\ Noted(msgs[x].calls[y], id)
  BY CallPlaces
<1>5. <<i, k>> \in B
  BY <1>1, CallPlaces
<1> HIDE DEF B
<1>6. Top(<<i, k>>)
  <2> SUFFICES ASSUME NEW o \in B PROVE i > o[1] \/ (i = o[1] /\ k >= o[2])
    OBVIOUS
  <2>0. PICK x \in 1..(j - 1) : \E y \in DOMAIN msgs[x].calls :
          o[1] = x /\ o[2] = y /\ Noted(msgs[x].calls[y], id)
    BY <1>4
  <2>1. PICK y \in DOMAIN msgs[x].calls : o[1] = x /\ o[2] = y /\ Noted(msgs[x].calls[y], id)
    BY <2>0
  <2>2. x < i \/ (x = i /\ y <= k)
    BY <2>1, <1>1
  <2>3. x \in Nat /\ i \in Nat /\ y \in Nat /\ k \in Nat
    BY <1>1, <1>3
  <2> QED
    BY <2>1, <2>2, <2>3
<1>7. ASSUME NEW p \in B, Top(p) PROVE p = <<i, k>>
  <2>0. PICK x \in 1..(j - 1) : \E y \in DOMAIN msgs[x].calls :
          p = <<x, y>> /\ p[1] = x /\ p[2] = y /\ Noted(msgs[x].calls[y], id)
    BY <1>4
  <2>1. PICK y \in DOMAIN msgs[x].calls :
          p = <<x, y>> /\ p[1] = x /\ p[2] = y /\ Noted(msgs[x].calls[y], id)
    BY <2>0
  <2>2. x < i \/ (x = i /\ y <= k)
    BY <2>1, <1>1
  <2>3. x > i \/ (x = i /\ y >= k)
    BY <2>1, <1>5, <1>7
  <2>4. x \in Nat /\ i \in Nat /\ y \in Nat /\ k \in Nat
    BY <1>1, <1>3
  <2> QED
    BY <2>1, <2>2, <2>3, <2>4
<1>8. Seen(msgs, j, id) = msgs[i].calls[k].cmd
  <2>1. PICK at : at = CHOOSE p \in B : Top(p)
    OBVIOUS
  <2>2. at = <<i, k>>
    BY <2>1, <1>5, <1>6, <1>7
  <2>3. Seen(msgs, j, id) = msgs[at[1]].calls[at[2]].cmd
    BY <2>1, Zenon DEF Seen, B
  <2> QED
    BY <2>2, <2>3
<1>9. msgs[i].calls[k].cmd \in Commands
  <2>1. msgs[i].calls[k] \in Calls
    BY <1>1, <1>3
  <2> QED
    BY <2>1, <1>1 DEF Calls, Noted
<1> QED
  BY <1>5, <1>8, <1>9 DEF B

\* repeatedSuccessfulExecCommand compares with what the conversation shows.
LEMMA RepeatedIsShown ==
  ASSUME NEW msgs \in Seq(Messages), NEW item
  PROVE  RepeatedSuccessfulExecCommand(msgs, item)
           <=> IsExec(item) /\ \E c \in Shown(msgs) : Equivalent(c, item.cmd)
<1>1. ASSUME NEW j \in DOMAIN msgs, OutputSucceeded(msgs[j]),
             CallsBefore(msgs, j, msgs[j].id) # {}, Equivalent(Seen(msgs, j, msgs[j].id), item.cmd)
      PROVE  \E c \in Shown(msgs) : Equivalent(c, item.cmd)
  <2>1. PICK i, k : LastCall(msgs, j, i, k)
    BY <1>1, LastCallExists
  <2>2. Seen(msgs, j, msgs[j].id) = msgs[i].calls[k].cmd /\ msgs[i].calls[k].cmd \in Commands
    BY <2>1, SeenIsLastCall
  <2>3. msgs[i].calls[k].cmd \in Shown(msgs)
    BY <2>1, <2>2, <1>1 DEF Shown
  <2> QED
    BY <2>2, <2>3, <1>1
<1>2. ASSUME NEW c \in Shown(msgs), Equivalent(c, item.cmd)
      PROVE  \E j \in DOMAIN msgs :
               /\ OutputSucceeded(msgs[j]) /\ CallsBefore(msgs, j, msgs[j].id) # {}
               /\ Equivalent(Seen(msgs, j, msgs[j].id), item.cmd)
  <2>0. PICK j \in DOMAIN msgs : \E i, k :
          OutputSucceeded(msgs[j]) /\ LastCall(msgs, j, i, k) /\ c = msgs[i].calls[k].cmd
    BY DEF Shown
  <2>1. PICK i, k : OutputSucceeded(msgs[j]) /\ LastCall(msgs, j, i, k) /\ c = msgs[i].calls[k].cmd
    BY <2>0
  <2>2. CallsBefore(msgs, j, msgs[j].id) # {} /\ Seen(msgs, j, msgs[j].id) = c
    BY <2>1, SeenIsLastCall
  <2> QED
    BY <2>1, <2>2, <1>2
<1> QED
  BY <1>1, <1>2 DEF RepeatedSuccessfulExecCommand

(***************************************************************************)
(* A conversation that grows, and one that is cut: compactMessages keeps a *)
(* head without calls and outputs, and what it keeps of the rest is its    *)
(* end, in one piece.                                                      *)
(***************************************************************************)
Quiet(m) == m.calls = <<>> /\ m.role # "tool"

CutAt(kept, msgs, h, d) ==
  /\ kept \in Seq(Messages) /\ h \in 0..Len(kept) /\ d \in Int
  /\ \A i \in 1..h : Quiet(kept[i])
  /\ \A i \in (h + 1)..Len(kept) : i + d \in DOMAIN msgs /\ kept[i] = msgs[i + d]

LEMMA CutShowsLess ==
  ASSUME NEW msgs \in Seq(Messages), NEW kept, NEW h, NEW d, CutAt(kept, msgs, h, d)
  PROVE  Shown(kept) \subseteq Shown(msgs)
<1> SUFFICES ASSUME NEW c \in Shown(kept) PROVE c \in Shown(msgs)
  OBVIOUS
<1>0. /\ kept \in Seq(Messages) /\ h \in Nat /\ h <= Len(kept) /\ d \in Int /\ Len(kept) \in Nat
      /\ DOMAIN kept = 1..Len(kept) /\ Len(msgs) \in Nat /\ DOMAIN msgs = 1..Len(msgs)
  BY DEF CutAt
<1>1. PICK j \in DOMAIN kept : \E i, k :
        OutputSucceeded(kept[j]) /\ LastCall(kept, j, i, k) /\ c = kept[i].calls[k].cmd
  BY DEF Shown
<1>2. PICK i, k : OutputSucceeded(kept[j]) /\ LastCall(kept, j, i, k) /\ c = kept[i].calls[k].cmd
  BY <1>1
<1>3. /\ i \in 1..(j - 1) /\ k \in DOMAIN kept[i].calls /\ Noted(kept[i].calls[k], kept[j].id)
      /\ \A x \in 1..(j - 1) : \A y \in DOMAIN kept[x].calls :
           Noted(kept[x].calls[y], kept[j].id) => x < i \/ (x = i /\ y <= k)
  BY <1>2 DEF LastCall
<1>4. i \notin 1..h /\ j \notin 1..h
  <2>1. kept[i].calls # <<>>
    BY <1>3
  <2> QED
    BY <2>1, <1>2 DEF CutAt, Quiet, OutputSucceeded
<1>5. i \in Nat /\ j \in Nat /\ i < j /\ h < i /\ j <= Len(kept)
  BY <1>0, <1>3, <1>4
<1>6. /\ i + d \in DOMAIN msgs /\ kept[i] = msgs[i + d]
      /\ j + d \in DOMAIN msgs /\ kept[j] = msgs[j + d]
  BY <1>0, <1>5 DEF CutAt
<1>7. i + d \in 1..((j + d) - 1)
  BY <1>0, <1>5, <1>6
<1>8. ASSUME NEW x \in 1..((j + d) - 1), NEW y \in DOMAIN msgs[x].calls,
             Noted(msgs[x].calls[y], msgs[j + d].id)
      PROVE  x < i + d \/ (x = i + d /\ y <= k)
  <2>1. CASE x < i + d
    BY <2>1
  <2>2. CASE ~ (x < i + d)
    <3>1. x - d \in 1..(j - 1) /\ x - d \in (h + 1)..Len(kept) /\ x - d >= i
      BY <2>2, <1>0, <1>5, <1>6
    <3>2. kept[x - d] = msgs[(x - d) + d]
      BY <3>1 DEF CutAt
    <3>3. (x - d) + d = x
      BY <1>0
    <3>4. kept[x - d] = msgs[x]
      BY <3>2, <3>3
    <3>5. x - d < i \/ (x - d = i /\ y <= k)
      BY <3>1, <3>4, <1>3, <1>6, <1>8
    <3> QED
      BY <3>1, <3>5, <1>0, <1>5
  <2> QED
    BY <2>1, <2>2
<1>9. LastCall(msgs, j + d, i + d, k)
  BY <1>3, <1>6, <1>7, <1>8 DEF LastCall
<1>10. c = msgs[i + d].calls[k].cmd /\ OutputSucceeded(msgs[j + d]) /\ c \in Commands
  BY <1>2, <1>6 DEF Shown
<1> QED
  BY <1>6, <1>9, <1>10 DEF Shown

Extends(m, a) == Len(a) <= Len(m) /\ \A i \in 1..Len(a) : m[i] = a[i]

LEMMA PrefixCalls ==
  ASSUME NEW a \in Seq(Messages), NEW m \in Seq(Messages), Extends(m, a),
         NEW j \in 1..Len(a), NEW i, NEW k
  PROVE  LastCall(m, j, i, k) <=> LastCall(a, j, i, k)
<1>1. m[j] = a[j] /\ \A x \in 1..(j - 1) : m[x] = a[x]
  BY DEF Extends
<1> QED
  BY <1>1 DEF LastCall

\* A message after the first n shows c.
ShownAfter(m, n, c) ==
  \E j \in (n + 1)..Len(m) : \E i, k :
    OutputSucceeded(m[j]) /\ LastCall(m, j, i, k) /\ c = m[i].calls[k].cmd

\* What is added to a conversation changes nothing of what it showed.
LEMMA GrownShows ==
  ASSUME NEW a \in Seq(Messages), NEW m \in Seq(Messages), Extends(m, a)
  PROVE  /\ Shown(a) \subseteq Shown(m)
         /\ \A c \in Shown(m) \ Shown(a) : ShownAfter(m, Len(a), c)
<1>0. Len(a) \in Nat /\ DOMAIN a = 1..Len(a) /\ Len(m) \in Nat /\ DOMAIN m = 1..Len(m)
  OBVIOUS
<1>e. Len(a) <= Len(m) /\ \A i \in 1..Len(a) : m[i] = a[i]
  BY DEF Extends
<1>1. ASSUME NEW c \in Shown(a) PROVE c \in Shown(m)
  <2>1. PICK j \in DOMAIN a : \E i, k :
          OutputSucceeded(a[j]) /\ LastCall(a, j, i, k) /\ c = a[i].calls[k].cmd
    BY DEF Shown
  <2>2. PICK i, k : OutputSucceeded(a[j]) /\ LastCall(a, j, i, k) /\ c = a[i].calls[k].cmd
    BY <2>1
  <2>3. LastCall(m, j, i, k) /\ j \in DOMAIN m /\ m[j] = a[j]
    BY <2>2, <1>0, <1>e, PrefixCalls
  <2>4. i \in 1..(j - 1)
    BY <2>2 DEF LastCall
  <2>5. m[i] = a[i]
    BY <2>4, <1>0, <1>e
  <2> QED
    BY <2>2, <2>3, <2>5 DEF Shown
<1>2. ASSUME NEW c \in Shown(m) \ Shown(a)
      PROVE  ShownAfter(m, Len(a), c)
  <2>1. PICK j \in DOMAIN m : \E i, k :
          OutputSucceeded(m[j]) /\ LastCall(m, j, i, k) /\ c = m[i].calls[k].cmd
    BY DEF Shown
  <2>2. PICK i, k : OutputSucceeded(m[j]) /\ LastCall(m, j, i, k) /\ c = m[i].calls[k].cmd
    BY <2>1
  <2>3. CASE j \in 1..Len(a)
    <3>1. LastCall(a, j, i, k) /\ m[j] = a[j]
      BY <2>2, <2>3, <1>e, PrefixCalls
    <3>2. i \in 1..(j - 1)
      BY <2>2 DEF LastCall
    <3>3. m[i] = a[i]
      BY <3>2, <2>3, <1>0, <1>e
    <3>4. c \in Shown(a)
      BY <2>2, <2>3, <3>1, <3>3, <1>0 DEF Shown
    <3> QED
      BY <3>4
  <2>4. CASE j \notin 1..Len(a)
    <3>1. j \in (Len(a) + 1)..Len(m)
      BY <2>4, <1>0
    <3> QED
      BY <3>1, <2>2 DEF ShownAfter
  <2> QED
    BY <2>3, <2>4
<1> QED
  BY <1>1, <1>2

LEMMA MessageTypes ==
  /\ \A role \in Roles : Plain(role) \in Messages /\ (role # "tool" => Quiet(Plain(role)))
  /\ \A calls \in Seq(Calls) :
       /\ Says(calls) \in Messages /\ Says(calls).calls = calls /\ Says(calls).role = "assistant"
  /\ \A id \in Ids, ok \in BOOLEAN :
       /\ Output(id, ok) \in Messages /\ Output(id, ok).calls = <<>> /\ Output(id, ok).id = id
       /\ Output(id, ok).role = "tool" /\ Output(id, ok).ok = ok
  /\ Summary \in Messages /\ Quiet(Summary) /\ NoCall \in Ids
<1>1. NoCall \in Ids
  <2>1. 0 \in Nat /\ "" \in Names
    BY DEF Names
  <2> QED
    BY <2>1 DEF NoCall, Ids
<1>2. \A role \in Roles : Size[role] \in Nat
  BY GatewayAssumption
<1>3. ASSUME NEW role \in Roles, NEW calls \in Seq(Calls), NEW id \in Ids, NEW ok \in BOOLEAN,
             role # "assistant" => calls = <<>>
      PROVE  /\ Message(role, calls, id, ok) \in Messages
             /\ Message(role, calls, id, ok).calls = calls /\ Message(role, calls, id, ok).role = role
             /\ Message(role, calls, id, ok).id = id /\ Message(role, calls, id, ok).ok = ok
  <2> QED
    BY <1>2, <1>3 DEF Message, Messages
<1>4. <<>> \in Seq(Calls) /\ FALSE \in BOOLEAN
      /\ "assistant" \in Roles /\ "tool" \in Roles /\ "summary" \in Roles /\ "summary" # "tool"
  BY DEF Roles
<1>5. ASSUME NEW role \in Roles
      PROVE  Plain(role) \in Messages /\ (role # "tool" => Quiet(Plain(role)))
  <2>1. Plain(role) = Message(role, <<>>, NoCall, FALSE)
    BY DEF Plain
  <2>2. /\ Message(role, <<>>, NoCall, FALSE) \in Messages
        /\ Message(role, <<>>, NoCall, FALSE).calls = <<>>
        /\ Message(role, <<>>, NoCall, FALSE).role = role
    BY <1>1, <1>3, <1>4, Zenon
  <2> QED
    BY <2>1, <2>2, Zenon DEF Quiet
<1>6. ASSUME NEW calls \in Seq(Calls)
      PROVE  Says(calls) \in Messages /\ Says(calls).calls = calls /\ Says(calls).role = "assistant"
  <2>0. PICK role \in Roles : role = "assistant"
    BY <1>4
  <2>1. Says(calls) = Message(role, calls, NoCall, FALSE)
    BY <2>0 DEF Says
  <2>2. /\ Message(role, calls, NoCall, FALSE) \in Messages
        /\ Message(role, calls, NoCall, FALSE).calls = calls
        /\ Message(role, calls, NoCall, FALSE).role = role
    BY <2>0, <1>1, <1>3, Zenon
  <2> QED
    BY <2>0, <2>1, <2>2, Zenon
<1>7. ASSUME NEW id \in Ids, NEW ok \in BOOLEAN
      PROVE  /\ Output(id, ok) \in Messages /\ Output(id, ok).calls = <<>> /\ Output(id, ok).id = id
             /\ Output(id, ok).role = "tool" /\ Output(id, ok).ok = ok
  <2>0. PICK role \in Roles : role = "tool"
    BY <1>4
  <2>1. Output(id, ok) = Message(role, <<>>, id, ok)
    BY <2>0 DEF Output
  <2>2. /\ Message(role, <<>>, id, ok) \in Messages /\ Message(role, <<>>, id, ok).calls = <<>>
        /\ Message(role, <<>>, id, ok).id = id /\ Message(role, <<>>, id, ok).role = role
        /\ Message(role, <<>>, id, ok).ok = ok
    <3>1. PICK calls \in Seq(Calls) : calls = <<>>
      BY <1>4
    <3>2. /\ Message(role, calls, id, ok) \in Messages /\ Message(role, calls, id, ok).calls = calls
          /\ Message(role, calls, id, ok).id = id /\ Message(role, calls, id, ok).role = role
          /\ Message(role, calls, id, ok).ok = ok
      BY <3>1, <1>2 DEF Message, Messages
    <3> QED
      BY <3>1, <3>2, Zenon
  <2> QED
    BY <2>0, <2>1, <2>2, Zenon
<1>8. Summary \in Messages /\ Quiet(Summary)
  BY <1>4, <1>5 DEF Summary
<1> QED
  BY <1>1, <1>5, <1>6, <1>7, <1>8

LEMMA CompactCut ==
  ASSUME NEW msgs \in Seq(Messages), Len(msgs) >= 3
  PROVE  \E h, d : CutAt(CompactMessages(msgs), msgs, h, d)
<1> DEFINE n == Len(msgs)
           first == IF Head(msgs).role \in SystemRoles THEN <<Head(msgs)>> ELSE <<>>
           end == SubSeq(msgs, Len(msgs) - 1, Len(msgs))
           all == <<Summary>> \o first \o end
           dropped(k) == <<Head(all)>> \o SubSeq(all, k + 2, Len(all))
           fits(k) == ChatPromptChars(dropped(k)) <= MaxPromptChars \/ k = Len(all) - 1
           pick(k) == fits(k) /\ \A j \in 0..(k - 1) : ~ fits(j)
           K == CHOOSE k \in 0..(Len(all) - 1) : pick(k)
<1>1. n \in Nat /\ n >= 3 /\ Head(msgs) \in Messages /\ Head(msgs) = msgs[1]
  OBVIOUS
<1>2. /\ end \in Seq(Messages) /\ Len(end) = 2 /\ end[1] = msgs[n - 1] /\ end[2] = msgs[n]
  BY <1>1
<1>3. /\ first \in Seq(Messages) /\ Len(first) \in {0, 1}
      /\ Len(first) = 1 => Quiet(first[1])
  <2>1. Head(msgs).role \in SystemRoles => Quiet(Head(msgs))
    BY <1>1 DEF Quiet, Messages, SystemRoles
  <2> QED
    BY <2>1, <1>1
<1>4. Summary \in Messages /\ Quiet(Summary)
  BY MessageTypes
<1> HIDE DEF first, end
<1>5. /\ all \in Seq(Messages) /\ Len(all) = 3 + Len(first) /\ all[1] = Summary /\ Head(all) = Summary
      /\ all[Len(all)] = msgs[n] /\ all[Len(all) - 1] = msgs[n - 1]
      /\ Len(first) = 1 => all[2] = first[1]
  <2>1. PICK head : head = <<Summary>> \o first
    OBVIOUS
  <2>2. /\ head \in Seq(Messages) /\ Len(head) = 1 + Len(first) /\ head[1] = Summary
        /\ Len(first) = 1 => head[2] = first[1]
    BY <2>1, <1>3, <1>4
  <2>3. all = head \o end
    BY <2>1
  <2>4. /\ all \in Seq(Messages) /\ Len(all) = Len(head) + 2 /\ Len(head) \in Nat
        /\ \A i \in 1..Len(head) : all[i] = head[i]
        /\ all[Len(head) + 1] = end[1] /\ all[Len(head) + 2] = end[2]
    <3>1. PICK a, e : a = all /\ e = end
      OBVIOUS
    <3>2. /\ a = head \o e /\ e \in Seq(Messages) /\ Len(e) = 2 /\ Len(head) \in Nat
      BY <3>1, <2>2, <2>3, <1>2
    <3>3. /\ a \in Seq(Messages) /\ Len(a) = Len(head) + 2
          /\ \A i \in 1..Len(head) : a[i] = head[i]
          /\ a[Len(head) + 1] = e[1] /\ a[Len(head) + 2] = e[2]
      <4>1. /\ a \in Seq(Messages) /\ Len(a) = Len(head) + Len(e)
            /\ \A i \in 1..Len(head) : a[i] = head[i]
            /\ \A i \in 1..Len(e) : a[Len(head) + i] = e[i]
        <5>1. head \in Seq(Messages) /\ e \in Seq(Messages) /\ a = head \o e
          BY <3>2, <2>2
        <5>2. /\ head \o e \in Seq(Messages) /\ Len(head \o e) = Len(head) + Len(e)
              /\ \A i \in 1..Len(head) : (head \o e)[i] = head[i]
              /\ \A i \in 1..Len(e) : (head \o e)[Len(head) + i] = e[i]
          BY <5>1
        <5> QED
          BY <5>1, <5>2, Zenon
      <4>2. 1 \in 1..Len(e) /\ 2 \in 1..Len(e)
        BY <3>2
      <4> QED
        BY <4>1, <4>2, <3>2
    <3> QED
      BY <3>1, <3>2, <3>3
  <2> HIDE DEF all
  <2>5. 1 \in 1..Len(head) /\ (Len(first) = 1 => 2 \in 1..Len(head))
    BY <2>2, <1>3
  <2>6. Len(all) - 1 = Len(head) + 1 /\ Len(all) = Len(head) + 2 /\ Len(all) = 3 + Len(first)
    BY <2>2, <2>4, <1>3
  <2> QED
    BY <2>2, <2>4, <2>5, <2>6, <1>2
<1> HIDE DEF all
<1>6. PICK L \in Nat : L = Len(all) /\ L \in {3, 4} /\ (L = 4 => Quiet(all[2]))
  <2>1. Len(all) \in Nat /\ Len(all) \in {3, 4} /\ (Len(all) = 4 => Len(first) = 1)
    <3>1. PICK f, a : f = Len(first) /\ a = Len(all)
      OBVIOUS
    <3>2. f \in {0, 1} /\ a = 3 + f
      BY <3>1, <1>3, <1>5
    <3>3. a \in Nat /\ a \in {3, 4} /\ (a = 4 => f = 1)
      BY <3>2
    <3> QED
      BY <3>1, <3>3
  <2> QED
    BY <2>1, <1>3, <1>5
<1>7. K \in 0..(L - 1)
  <2> DEFINE F == {k \in 0..(L - 1) : fits(k)}
  <2>1. L - 1 \in F /\ F \subseteq Nat
    BY <1>6
  <2>2. F # {} /\ F \subseteq Nat
    BY <2>1
  <2>3. PICK k \in F : \A y \in F : k <= y
    <3> HIDE DEF F
    <3> QED
      BY <2>2, LeastPlace
  <2>4. \A j \in 0..(k - 1) : j \notin F
    BY <2>3
  <2>5. k \in 0..(Len(all) - 1) /\ pick(k)
    BY <2>4, <1>6
  <2>6. K \in 0..(Len(all) - 1)
    <3> HIDE DEF pick
    <3> QED
      BY <2>5
  <2> QED
    BY <2>6, <1>6
<1>8. CompactMessages(msgs) = dropped(K)
  BY Zenon DEF CompactMessages, K, pick, fits, dropped, all, first, end
<1> HIDE DEF K, pick, fits
<1>9. PICK c : c = dropped(K)
  OBVIOUS
<1>10. /\ c \in Seq(Messages) /\ Len(c) = L - K /\ c[1] = Summary
       /\ \A i \in 2..(L - K) : c[i] = all[i + K]
  <2>1. PICK rest : rest = SubSeq(all, K + 2, L)
    OBVIOUS
  <2>2. /\ rest \in Seq(Messages) /\ Len(rest) = L - K - 1
        /\ \A i \in 1..(L - K - 1) : rest[i] = all[K + 1 + i]
    BY <2>1, <1>5, <1>6, <1>7
  <2>3. c = <<Summary>> \o rest
    BY <2>1, <1>5, <1>6, <1>9
  <2>4. c \in Seq(Messages) /\ Len(c) = L - K /\ c[1] = Summary
    BY <2>2, <2>3, <1>4, <1>6, <1>7
  <2>5. \A i \in 2..(L - K) : c[i] = rest[i - 1]
    BY <2>2, <2>3, <1>4, <1>6, <1>7
  <2>6. \A i \in 2..(L - K) : rest[i - 1] = all[i + K]
    <3>1. \A i \in 2..(L - K) : i - 1 \in 1..(L - K - 1) /\ K + 1 + (i - 1) = i + K
      BY <1>6, <1>7
    <3> QED
      BY <3>1, <2>2
  <2> QED
    BY <2>4, <2>5, <2>6
<1>11. PICK h, d : h = (IF L - 2 - K >= 1 THEN L - 2 - K ELSE 1) /\ d = K - L + n
  OBVIOUS
<1>12. h \in 0..Len(c) /\ d \in Int
  BY <1>1, <1>6, <1>7, <1>10, <1>11
<1>13. ASSUME NEW i \in 1..h PROVE Quiet(c[i])
  <2>1. CASE i = 1
    BY <2>1, <1>4, <1>10
  <2>2. CASE i # 1
    <3>1. i = 2 /\ K = 0 /\ L = 4
      BY <2>2, <1>6, <1>7, <1>11
    <3> QED
      BY <3>1, <1>6, <1>10
  <2> QED
    BY <2>1, <2>2
<1>14. ASSUME NEW i \in (h + 1)..Len(c) PROVE i + d \in DOMAIN msgs /\ c[i] = msgs[i + d]
  <2>1. i \in 2..(L - K) /\ i + K \in {L - 1, L} /\ i + d = (i + K) - L + n
    BY <1>1, <1>6, <1>7, <1>10, <1>11
  <2>2. i + d \in DOMAIN msgs
    BY <2>1, <1>1, <1>6
  <2>3. CASE i + K = L
    <3>1. i + d = n
      BY <2>1, <2>3, <1>1, <1>6
    <3> QED
      BY <3>1, <2>1, <2>2, <2>3, <1>5, <1>6, <1>10
  <2>4. CASE i + K = L - 1
    <3>1. i + d = n - 1
      BY <2>1, <2>4, <1>1, <1>6
    <3> QED
      BY <3>1, <2>1, <2>2, <2>4, <1>5, <1>6, <1>10
  <2> QED
    BY <2>1, <2>3, <2>4
<1>15. CutAt(c, msgs, h, d)
  BY <1>10, <1>12, <1>13, <1>14 DEF CutAt
<1> QED
  BY <1>8, <1>9, <1>15

\* Compaction forgets, and invents nothing.
LEMMA CompactShowsLess ==
  ASSUME NEW msgs \in Seq(Messages)
  PROVE  \E h, d : CutAt(CompactChatPrompt(msgs), msgs, h, d)
<1>1. CASE TooLarge(msgs) /\ Len(msgs) >= 3
  BY <1>1, CompactCut DEF CompactChatPrompt
<1>2. CASE ~ (TooLarge(msgs) /\ Len(msgs) >= 3)
  <2>1. CompactChatPrompt(msgs) = msgs
    BY <1>2 DEF CompactChatPrompt
  <2>2. 0 \in 0..Len(msgs) /\ 0 \in Int /\ \A i \in (0 + 1)..Len(msgs) : i + 0 \in DOMAIN msgs /\ i + 0 = i
    OBVIOUS
  <2>3. CutAt(msgs, msgs, 0, 0)
    BY <2>2 DEF CutAt
  <2> QED
    BY <2>1, <2>3
<1> QED
  BY <1>1, <1>2

(***************************************************************************)
(* Identifiers of calls.  A native call has the request in its identifier; *)
(* the identifier of a call found in text tells, for given tools, whether  *)
(* it was turned into an exec_command.                                     *)
(***************************************************************************)
ExecName(name, tools) ==
  \/ name = "exec_command"
  \/ name = "write_file" /\ ToolNameAllowed("exec_command", tools)
  \/ name = "apply_patch" /\ tools # {}

OwnId(id, r) == \E n \in Nat : id = NativeId(r, n)

KnownId(id, r, tools) ==
  \/ \E p \in 1..r : OwnId(id, p)
  \/ \E name \in Names : id = DefaultId(name) /\ ExecName(name, tools)

KnownCalls(m, r, tools) ==
  \A k \in DOMAIN m.calls : Noted(m.calls[k], m.calls[k].id) => KnownId(m.calls[k].id, r, tools)

Items == [type : {"function_call", "custom_tool_call", "message", "repeated"},
          id : Ids, name : Names, cmd : Commands \cup {""}]

\* A function call of a response and the call the conversation keeps of it.
Remembers(says, item) ==
  \A k \in DOMAIN says.calls : says.calls[k].id = item.id =>
    says.calls[k].name = item.name /\ says.calls[k].cmd \in {item.cmd, Unread}

FunctionCall(r, tools, says, item) ==
  /\ Remembers(says, item) /\ item.cmd \in Commands \ {Unread}
  /\ \/ OwnId(item.id, r) /\ IsExec(item)
     \/ \E name \in Names :
          /\ item.id = DefaultId(name) /\ (IsExec(item) <=> ExecName(name, tools))
          /\ IsExec(item) => \E k \in DOMAIN says.calls : Noted(says.calls[k], item.id)

Answered(r, tools, out, says) ==
  /\ says \in Messages /\ says.role = "assistant" /\ KnownCalls(says, r, tools)
  /\ \A k, l \in DOMAIN says.calls : says.calls[k].id = says.calls[l].id => k = l
  /\ out \in Seq(Items)
  /\ \A i \in DOMAIN out :
       /\ i < Len(out) => out[i].type = "function_call"
       /\ out[i].type = "function_call" => FunctionCall(r, tools, says, out[i])

LEMMA IdsApart ==
  ASSUME NEW r \in Nat \ {0}, NEW id
  PROVE  /\ OwnId(id, r) => \A name : id # DefaultId(name)
         /\ \A p \in Nat : p # r /\ OwnId(id, r) => ~ OwnId(id, p)
         /\ \A name, other : DefaultId(name) = DefaultId(other) => name = other
<1>1. \A x, y, z, a, b, c : <<x, y, z>> = <<a, b, c>> => x = a /\ z = c
  OBVIOUS
<1>2. ASSUME OwnId(id, r), NEW name, id = DefaultId(name) PROVE FALSE
  <2>1. PICK n \in Nat : id = <<r, n, "">>
    BY <1>2 DEF OwnId, NativeId
  <2>2. <<r, n, "">> = <<0, 0, name>>
    BY <2>1, <1>2 DEF DefaultId
  <2>3. r = 0
    BY <2>2
  <2> QED
    BY <2>3
<1>3. ASSUME NEW p \in Nat, p # r, OwnId(id, r), OwnId(id, p) PROVE FALSE
  <2>1. PICK n \in Nat : id = <<r, n, "">>
    BY <1>3 DEF OwnId, NativeId
  <2>2. PICK l \in Nat : id = <<p, l, "">>
    BY <1>3 DEF OwnId, NativeId
  <2>3. <<r, n, "">> = <<p, l, "">>
    BY <2>1, <2>2
  <2>4. r = p
    BY <2>3
  <2> QED
    BY <2>4, <1>3
<1>4. \A name, other : DefaultId(name) = DefaultId(other) => name = other
  BY <1>1, Zenon DEF DefaultId
<1> QED
  BY <1>2, <1>3, <1>4

\* The messages of a request after what the conversation holds.
LEMMA AddedMessages ==
  ASSUME NEW q
  PROVE  \E tools \in Seq(Messages) :
           /\ \A prior : ResponsesToChat(q, prior) =
                (IF q.prev = None THEN <<Plain("instructions")>> ELSE prior) \o tools \o InputToChatMessages(q)
           /\ \A i \in DOMAIN tools : Quiet(tools[i])
<1>1. Plain("tools") \in Messages /\ Plain("strict") \in Messages
      /\ Quiet(Plain("tools")) /\ Quiet(Plain("strict"))
  <2>1. "tools" \in Roles /\ "strict" \in Roles /\ "tools" # "tool" /\ "strict" # "tool"
    BY DEF Roles, SystemRoles
  <2> QED
    BY <2>1, MessageTypes
<1>2. PICK tools : tools = (IF q.ask.tools = {} THEN <<>>
               ELSE IF ShouldUseStrictExecution(q) THEN <<Plain("tools"), Plain("strict")>>
               ELSE <<Plain("tools")>>)
  OBVIOUS
<1>3. tools \in Seq(Messages) /\ \A i \in DOMAIN tools : Quiet(tools[i])
  <2>1. CASE tools = <<>>
    BY <2>1
  <2>2. CASE tools = <<Plain("tools")>>
    BY <2>2, <1>1
  <2>3. CASE tools = <<Plain("tools"), Plain("strict")>>
    BY <2>3, <1>1
  <2>4. tools = <<>> \/ tools = <<Plain("tools")>> \/ tools = <<Plain("tools"), Plain("strict")>>
    BY <1>2, Zenon
  <2> QED
    BY <2>1, <2>2, <2>3, <2>4
<1>4. \A prior : ResponsesToChat(q, prior) =
        (IF q.prev = None THEN <<Plain("instructions")>> ELSE prior) \o tools \o InputToChatMessages(q)
  BY <1>2, Zenon DEF ResponsesToChat
<1> QED
  BY <1>3, <1>4

\* Messages without calls and outputs show nothing new.
LEMMA QuietShowsNothing ==
  ASSUME NEW a \in Seq(Messages), NEW m \in Seq(Messages), Extends(m, a),
         \A i \in (Len(a) + 1)..Len(m) : m[i].role # "tool"
  PROVE  Shown(m) = Shown(a)
<1>1. Shown(a) \subseteq Shown(m)
  BY GrownShows
<1>2. ASSUME NEW c \in Shown(m), c \notin Shown(a) PROVE FALSE
  <2>1. PICK j \in (Len(a) + 1)..Len(m) : \E i, k :
          OutputSucceeded(m[j]) /\ LastCall(m, j, i, k) /\ c = m[i].calls[k].cmd
    BY <1>2, GrownShows DEF ShownAfter
  <2> QED
    BY <2>1 DEF OutputSucceeded
<1> QED
  BY <1>1, <1>2

\* The outputs m[base + i] of the calls fun[i] follow response r, at P.
OutputsFollow(r, tools, out, says, chat, m, P, base, fun) ==
  /\ Answered(r, tools, out, says)
  /\ chat \in Seq(Messages) /\ \A i \in DOMAIN chat : KnownCalls(chat[i], r - 1, tools)
  /\ m \in Seq(Messages) /\ Extends(m, chat) /\ P = Len(chat) + 1 /\ m[P] = says
  /\ base \in Nat /\ P <= base /\ base <= Len(m)
  /\ \A i \in (P + 1)..Len(m) : m[i].calls = <<>>
  /\ \A i \in (P + 1)..base : m[i].role # "tool"
  /\ fun \in Seq(Items) /\ base + Len(fun) = Len(m)
  /\ \A i \in DOMAIN fun : /\ m[base + i].role = "tool" /\ m[base + i].id = fun[i].id
                           /\ fun[i].type = "function_call" /\ \E x \in DOMAIN out : fun[i] = out[x]

\* The outputs a client sends for the calls of a response: what the
\* conversation then shows is what it showed, and the commands of calls that
\* are remembered and succeeded.
LEMMA OutputsShow ==
  ASSUME NEW r \in Nat \ {0}, NEW tools, NEW out, NEW says, NEW chat, NEW m, NEW P, NEW base, NEW fun,
         OutputsFollow(r, tools, out, says, chat, m, P, base, fun)
  PROVE  /\ \A c \in Shown(m) \ Shown(chat) : \E i \in DOMAIN fun :
              m[base + i].ok /\ IsExec(fun[i]) /\ fun[i].cmd = c
         /\ Shown(chat) \subseteq Shown(m)
         /\ \A i \in DOMAIN fun : m[base + i].ok /\ IsExec(fun[i]) /\ Remembered(says, out)
                                   => fun[i].cmd \in Shown(m)
<1>f. /\ Answered(r, tools, out, says)
      /\ chat \in Seq(Messages) /\ \A i \in DOMAIN chat : KnownCalls(chat[i], r - 1, tools)
      /\ m \in Seq(Messages) /\ Extends(m, chat) /\ P = Len(chat) + 1 /\ m[P] = says
      /\ base \in Nat /\ P <= base /\ base <= Len(m)
      /\ \A i \in (P + 1)..Len(m) : m[i].calls = <<>>
      /\ \A i \in (P + 1)..base : m[i].role # "tool"
      /\ fun \in Seq(Items) /\ base + Len(fun) = Len(m)
      /\ \A i \in DOMAIN fun : /\ m[base + i].role = "tool" /\ m[base + i].id = fun[i].id
                               /\ fun[i].type = "function_call" /\ \E x \in DOMAIN out : fun[i] = out[x]
  BY DEF OutputsFollow
<1>e. Len(chat) <= Len(m) /\ \A i \in 1..Len(chat) : m[i] = chat[i]
  BY <1>f DEF Extends
<1> USE <1>f, <1>e
<1>0. /\ DOMAIN chat = 1..Len(chat) /\ Len(chat) \in Nat /\ DOMAIN m = 1..Len(m) /\ Len(m) \in Nat
      /\ DOMAIN fun = 1..Len(fun) /\ Len(fun) \in Nat /\ P \in DOMAIN m /\ Len(chat) <= Len(m)
      /\ P \in Nat
  OBVIOUS
<1>1. \A i \in DOMAIN fun : /\ FunctionCall(r, tools, says, fun[i])
                            /\ base + i \in DOMAIN m /\ P <= (base + i) - 1
  <2>1. ASSUME NEW i \in DOMAIN fun PROVE FunctionCall(r, tools, says, fun[i])
    <3>1. PICK x \in DOMAIN out : fun[i] = out[x]
      OBVIOUS
    <3>2. out[x].type = "function_call" => FunctionCall(r, tools, says, out[x])
      BY DEF Answered
    <3> QED
      BY <3>1, <3>2
  <2> QED
    BY <2>1, <1>0
<1>2. ASSUME NEW c \in Shown(m), c \notin Shown(chat)
      PROVE  \E i \in DOMAIN fun : m[base + i].ok /\ IsExec(fun[i]) /\ fun[i].cmd = c
  <2>1. PICK j \in (Len(chat) + 1)..Len(m) : \E x, k :
          OutputSucceeded(m[j]) /\ LastCall(m, j, x, k) /\ c = m[x].calls[k].cmd
    <3>1. ShownAfter(m, Len(chat), c)
      BY <1>0, <1>2, GrownShows
    <3> QED
      BY <3>1 DEF ShownAfter
  <2>2. PICK x, k : OutputSucceeded(m[j]) /\ LastCall(m, j, x, k) /\ c = m[x].calls[k].cmd
    BY <2>1
  <2>3. j > base
    <3>1. m[j].role = "tool" /\ m[j].ok
      BY <2>2 DEF OutputSucceeded
    <3>2. says.role = "assistant"
      BY DEF Answered
    <3>3. j # P
      BY <3>1, <3>2
    <3> QED
      BY <3>1, <3>3, <1>0
  <2>4. PICK i \in DOMAIN fun : j = base + i
    <3>1. j - base \in DOMAIN fun /\ j = base + (j - base)
      BY <2>3, <1>0
    <3> QED
      BY <3>1
  <2>5. m[j].ok /\ m[j].id = fun[i].id /\ FunctionCall(r, tools, says, fun[i])
    BY <2>2, <2>4, <1>1 DEF OutputSucceeded
  <2>6. /\ x \in 1..(j - 1) /\ k \in DOMAIN m[x].calls /\ Noted(m[x].calls[k], fun[i].id)
        /\ \A y \in DOMAIN m[P].calls : P \in 1..(j - 1) /\ Noted(m[P].calls[y], fun[i].id)
             => P < x \/ (P = x /\ y <= k)
    BY <2>2, <2>5 DEF LastCall
  <2>7. P \in 1..(j - 1) /\ x \in Nat /\ x \in 1..Len(m)
    BY <2>4, <2>6, <1>0, <1>1
  <2>8. x <= P
    <3>1. m[x].calls # <<>>
      BY <2>6
    <3>2. x \notin (P + 1)..Len(m)
      BY <3>1
    <3> QED
      BY <3>2, <2>7, <1>0
  <2>9. CASE x = P
    <3>1. says.calls[k].id = fun[i].id /\ says.calls[k].name = "exec_command" /\ says.calls[k].cmd # Unread
          /\ k \in DOMAIN says.calls
      BY <2>6, <2>9 DEF Noted
    <3>2. fun[i].name = "exec_command" /\ says.calls[k].cmd = fun[i].cmd
      BY <3>1, <2>5 DEF FunctionCall, Remembers
    <3> QED
      BY <3>2, <2>2, <2>4, <2>5, <2>9 DEF IsExec
  <2>10. CASE x < P
    <3>1. x \in DOMAIN chat /\ m[x] = chat[x]
      BY <2>7, <2>10, <1>0
    <3>2. KnownId(fun[i].id, r - 1, tools)
      BY <3>1, <2>6 DEF KnownCalls, Noted
    <3>3. CASE OwnId(fun[i].id, r)
      <4>1. \A p \in 1..(r - 1) : p \in Nat /\ p # r
        OBVIOUS
      <4> QED
        BY <4>1, <3>2, <3>3, IdsApart DEF KnownId
    <3>4. CASE \E name \in Names :
                 /\ fun[i].id = DefaultId(name) /\ (IsExec(fun[i]) <=> ExecName(name, tools))
                 /\ IsExec(fun[i]) => \E y \in DOMAIN says.calls : Noted(says.calls[y], fun[i].id)
      <4>1. PICK name \in Names :
              /\ fun[i].id = DefaultId(name) /\ (IsExec(fun[i]) <=> ExecName(name, tools))
              /\ IsExec(fun[i]) => \E y \in DOMAIN says.calls : Noted(says.calls[y], fun[i].id)
        BY <3>4
      <4>2. \A p \in 1..(r - 1) : ~ OwnId(fun[i].id, p)
        <5>1. \A p \in 1..(r - 1) : p \in Nat \ {0}
          OBVIOUS
        <5> QED
          BY <5>1, <4>1, IdsApart
      <4>3. PICK other \in Names : fun[i].id = DefaultId(other) /\ ExecName(other, tools)
        BY <3>2, <4>2 DEF KnownId
      <4>4. name = other
        BY <4>1, <4>3, IdsApart
      <4>5. PICK y \in DOMAIN says.calls : Noted(says.calls[y], fun[i].id)
        BY <4>1, <4>3, <4>4
      <4>6. P < x \/ P = x
        BY <4>5, <2>6, <2>7
      <4> QED
        BY <4>6, <2>7, <2>10
    <3> QED
      BY <3>3, <3>4, <2>5 DEF FunctionCall
  <2> QED
    BY <2>7, <2>8, <2>9, <2>10
<1>3. ASSUME NEW i \in DOMAIN fun, m[base + i].ok, IsExec(fun[i]), Remembered(says, out)
      PROVE  fun[i].cmd \in Shown(m)
  <2>1. PICK x \in DOMAIN out : fun[i] = out[x]
    OBVIOUS
  <2>2. PICK k \in DOMAIN says.calls : says.calls[k].id = fun[i].id /\ says.calls[k].cmd = fun[i].cmd
    <3>1. IsExec(out[x])
      BY <2>1, <1>3
    <3>2. \E k \in DOMAIN says.calls : says.calls[k].id = out[x].id /\ says.calls[k].cmd = out[x].cmd
      BY <3>1, <1>3, Zenon DEF Remembered
    <3> QED
      BY <3>2, <2>1
  <2>3. Noted(says.calls[k], fun[i].id)
    <3>1. Remembers(says, fun[i]) /\ fun[i].cmd # Unread
      BY <1>1 DEF FunctionCall
    <3>2. says.calls[k].name = fun[i].name
      BY <3>1, <2>2 DEF Remembers
    <3> QED
      BY <3>1, <3>2, <2>2, <1>3 DEF Noted, IsExec
  <2>4. m[base + i].id = fun[i].id /\ m[base + i].role = "tool"
    OBVIOUS
  <2>5. ASSUME NEW y \in 1..((base + i) - 1), NEW z \in DOMAIN m[y].calls,
               Noted(m[y].calls[z], fun[i].id)
        PROVE  y < P \/ (y = P /\ z <= k)
    <3>1. y \in 1..Len(m) /\ y \in Nat /\ m[y].calls # <<>>
      BY <2>5, <1>0, <1>1
    <3>2. y <= P
      BY <3>1, <1>0
    <3>3. CASE y = P
      <4>1. says.calls[z].id = says.calls[k].id
        BY <3>3, <2>2, <2>5 DEF Noted
      <4>2. z = k
        BY <4>1, <3>3, <2>5 DEF Answered
      <4>3. k \in Int
        <5>1. says.calls \in Seq(Calls)
          BY DEF Answered, Messages
        <5> QED
          BY <5>1
      <4> QED
        BY <4>2, <4>3, <3>3
    <3> QED
      BY <3>1, <3>2, <3>3
  <2>6. LastCall(m, base + i, P, k)
    <3>1. P \in 1..((base + i) - 1) /\ k \in DOMAIN m[P].calls
      BY <1>0, <1>1
    <3> QED
      BY <3>1, <2>3, <2>4, <2>5 DEF LastCall
  <2>7. /\ OutputSucceeded(m[base + i]) /\ base + i \in DOMAIN m /\ fun[i].cmd = m[P].calls[k].cmd
        /\ fun[i].cmd \in Commands
    BY <2>2, <2>4, <1>1, <1>3 DEF OutputSucceeded, FunctionCall
  <2> QED
    BY <2>6, <2>7, <1>3 DEF Shown
<1>4. Shown(chat) \subseteq Shown(m)
  BY <1>0, GrownShows
<1> QED
  BY <1>2, <1>3, <1>4

LEMMA FunctionsAre ==
  ASSUME NEW p, NEW tools, Answered(p, tools, req[p].out, req[p].says)
  PROVE  /\ Functions(p) \in Seq(Items)
         /\ \A i \in DOMAIN Functions(p) :
              /\ Functions(p)[i].type = "function_call"
              /\ \E x \in DOMAIN req[p].out : Functions(p)[i] = req[p].out[x]
              /\ Functions(p)[i].id \in Ids /\ FunctionCall(p, tools, req[p].says, Functions(p)[i])
<1>1. PICK out, fun : out = req[p].out /\ fun = Functions(p)
  OBVIOUS
<1>2. /\ out \in Seq(Items) /\ \A i \in DOMAIN out :
           /\ i < Len(out) => out[i].type = "function_call"
           /\ out[i].type = "function_call" => FunctionCall(p, tools, req[p].says, out[i])
  BY <1>1 DEF Answered
<1>3. fun = IF out = <<>> \/ out[Len(out)].type = "function_call" THEN out ELSE SubSeq(out, 1, Len(out) - 1)
  BY <1>1 DEF Functions, Last, Front
<1>4. /\ fun \in Seq(Items) /\ \A i \in DOMAIN fun : i \in DOMAIN out /\ fun[i] = out[i]
      /\ \A i \in DOMAIN fun : fun[i].type = "function_call"
  <2>1. CASE out = <<>>
    BY <2>1, <1>2, <1>3
  <2>2. CASE out # <<>> /\ out[Len(out)].type = "function_call"
    <3>1. fun = out
      BY <2>2, <1>3
    <3>2. \A i \in DOMAIN out : i < Len(out) \/ i = Len(out)
      BY <1>2
    <3> QED
      BY <3>1, <3>2, <2>2, <1>2
  <2>3. CASE out # <<>> /\ out[Len(out)].type # "function_call"
    <3>1. fun = SubSeq(out, 1, Len(out) - 1)
      BY <2>3, <1>3
    <3>2. /\ fun \in Seq(Items) /\ DOMAIN fun = 1..(Len(out) - 1)
          /\ \A i \in 1..(Len(out) - 1) : fun[i] = out[i] /\ i \in DOMAIN out /\ i < Len(out)
      BY <3>1, <2>3, <1>2
    <3> QED
      BY <3>2, <1>2
  <2> QED
    BY <2>1, <2>2, <2>3
<1>5. \A i \in DOMAIN fun : fun[i] \in Items
  BY <1>4
<1>6. \A i \in DOMAIN fun : fun[i].id \in Ids
  BY <1>5 DEF Items
<1> QED
  BY <1>1, <1>2, <1>4, <1>6

\* What a client sends back for a response.
LEMMA RepliesAre ==
  ASSUME NEW p, p # None, NEW results \in Replies(p), results # <<>>
  PROVE  /\ DOMAIN results = DOMAIN Functions(p)
         /\ \A i \in DOMAIN results : results[i].id = Functions(p)[i].id /\ results[i].ok \in BOOLEAN
<1>1. results \in {[i \in DOMAIN Functions(p) |-> [id |-> Functions(p)[i].id, ok |-> ok[i]]] :
                      ok \in [DOMAIN Functions(p) -> BOOLEAN]}
  BY DEF Replies
<1>2. PICK ok \in [DOMAIN Functions(p) -> BOOLEAN] :
        results = [i \in DOMAIN Functions(p) |-> [id |-> Functions(p)[i].id, ok |-> ok[i]]]
  BY <1>1
<1>3. ASSUME NEW i \in DOMAIN Functions(p)
      PROVE  results[i].id = Functions(p)[i].id /\ results[i].ok \in BOOLEAN
  <2>1. results[i] = [id |-> Functions(p)[i].id, ok |-> ok[i]]
    BY <1>2
  <2>2. ok[i] \in BOOLEAN
    BY <1>2
  <2> QED
    BY <2>1, <2>2
<1> QED
  BY <1>2, <1>3

IsJoin(m, a, b) ==
  /\ DOMAIN m = 1..(Len(a) + Len(b)) /\ Len(m) = Len(a) + Len(b)
  /\ \A i \in 1..Len(a) : m[i] = a[i]
  /\ \A i \in 1..Len(b) : m[Len(a) + i] = b[i]
  /\ \A i \in (Len(a) + 1)..Len(m) : i - Len(a) \in DOMAIN b /\ m[i] = b[i - Len(a)]

LEMMA Joined ==
  ASSUME NEW S, NEW a \in Seq(S), NEW b \in Seq(S)
  PROVE  a \o b \in Seq(S) /\ IsJoin(a \o b, a, b)
<1>1. /\ a \o b \in Seq(S) /\ Len(a \o b) = Len(a) + Len(b) /\ Len(a) \in Nat /\ Len(b) \in Nat
      /\ \A i \in 1..Len(a) : (a \o b)[i] = a[i]
      /\ \A i \in 1..Len(b) : (a \o b)[Len(a) + i] = b[i]
  OBVIOUS
<1>2. ASSUME NEW i \in (Len(a) + 1)..Len(a \o b)
      PROVE  i - Len(a) \in DOMAIN b /\ (a \o b)[i] = b[i - Len(a)]
  <2>1. i - Len(a) \in 1..Len(b) /\ Len(a) + (i - Len(a)) = i
    BY <1>1
  <2> QED
    BY <2>1, <1>1
<1>3. DOMAIN (a \o b) = 1..(Len(a) + Len(b))
  BY <1>1
<1> QED
  BY <1>1, <1>2, <1>3 DEF IsJoin

\* A conversation that is continued: q asks for more after response p.
LEMMA Continued ==
  ASSUME NEW p \in Nat \ {0}, NEW tools, Answered(p, tools, req[p].out, req[p].says),
         req[p].chat \in Seq(Messages),
         \A i \in DOMAIN req[p].chat : KnownCalls(req[p].chat[i], p - 1, tools),
         NEW q, q.prev = p, q.results \in Replies(p), NEW m,
         m = ResponsesToChat(q, Append(req[p].chat, req[p].says)),
         Shown(req[p].chat) \subseteq req[p].done
  PROVE  /\ m \in Seq(Messages) /\ \A i \in DOMAIN m : KnownCalls(m[i], p, tools)
         /\ Shown(m) \subseteq DoneBefore(p, q.results)
         /\ req[p].done \subseteq Shown(req[p].chat) /\ Remembered(req[p].says, req[p].out)
              => DoneBefore(p, q.results) \subseteq Shown(m)
<1>1. PICK chat, says, out, in : /\ chat = req[p].chat /\ says = req[p].says /\ out = req[p].out
                                 /\ in = InputToChatMessages(q)
  OBVIOUS
<1>2. PICK tl \in Seq(Messages) : /\ m = Append(chat, says) \o tl \o in
                                  /\ \A i \in DOMAIN tl : Quiet(tl[i])
  <2>1. q.prev # None
    BY DEF None
  <2>2. PICK tl \in Seq(Messages) :
           /\ \A prior : ResponsesToChat(q, prior) =
                (IF q.prev = None THEN <<Plain("instructions")>> ELSE prior) \o tl \o InputToChatMessages(q)
           /\ \A i \in DOMAIN tl : Quiet(tl[i])
    BY AddedMessages
  <2>3. ResponsesToChat(q, Append(chat, says)) = Append(chat, says) \o tl \o in
    BY <2>1, <2>2, <1>1
  <2> QED
    BY <2>2, <2>3, <1>1
<1>3. /\ chat \in Seq(Messages) /\ says \in Messages /\ says.role = "assistant"
      /\ Len(chat) \in Nat /\ DOMAIN chat = 1..Len(chat)
  BY <1>1 DEF Answered
<1>4. in \in Seq(Messages) /\ \A i \in DOMAIN in : in[i].calls = <<>>
  <2>1. CASE q.results = <<>>
    <3>1. in = <<Plain("user")>>
      BY <2>1, <1>1 DEF InputToChatMessages, HasFunctionCallOutput
    <3>2. "user" \in Roles /\ "user" # "tool"
      BY DEF Roles
    <3>3. Plain("user") \in Messages /\ Plain("user").calls = <<>>
      BY <3>2, MessageTypes DEF Quiet
    <3> QED
      BY <3>1, <3>3
  <2>2. CASE q.results # <<>>
    <3>1. in = [i \in DOMAIN q.results |-> Output(q.results[i].id, q.results[i].ok)]
      BY <2>2, <1>1 DEF InputToChatMessages, HasFunctionCallOutput
    <3>2. /\ DOMAIN q.results = DOMAIN Functions(p) /\ Functions(p) \in Seq(Items)
          /\ \A i \in DOMAIN q.results : q.results[i].id \in Ids /\ q.results[i].ok \in BOOLEAN
      <4>1. /\ DOMAIN q.results = DOMAIN Functions(p)
            /\ \A i \in DOMAIN q.results : /\ q.results[i].id = Functions(p)[i].id
                                           /\ q.results[i].ok \in BOOLEAN
        BY <2>2, RepliesAre DEF None
      <4>2. Functions(p) \in Seq(Items) /\ \A i \in DOMAIN Functions(p) : Functions(p)[i].id \in Ids
        BY FunctionsAre
      <4> QED
        BY <4>1, <4>2
    <3>3. \A i \in DOMAIN q.results : in[i] \in Messages /\ in[i].calls = <<>>
      BY <3>1, <3>2, MessageTypes
    <3>4. PICK n \in Nat : DOMAIN q.results = 1..n
      BY <3>2
    <3>5. in \in [1..n -> Messages]
      BY <3>1, <3>3, <3>4
    <3> QED
      BY <3>1, <3>3, <3>4, <3>5
  <2> QED
    BY <2>1, <2>2
<1>5. PICK a : a = Append(chat, says) \o tl
  OBVIOUS
<1>6. PICK P \in Nat, base \in Nat : P = Len(chat) + 1 /\ base = P + Len(tl)
  BY <1>2, <1>3
<1>7. /\ a \in Seq(Messages) /\ Len(a) = base /\ a[P] = says
      /\ \A i \in 1..Len(chat) : a[i] = chat[i]
      /\ \A i \in (P + 1)..base : a[i] = tl[i - P] /\ i - P \in DOMAIN tl
  <2>1. PICK b : b = Append(chat, says)
    OBVIOUS
  <2>2. b \in Seq(Messages) /\ Len(b) = P /\ b[P] = says /\ \A i \in 1..Len(chat) : b[i] = chat[i]
    BY <2>1, <1>3, <1>6
  <2>3. a = b \o tl
    BY <2>1, <1>5
  <2>4. /\ a \in Seq(Messages) /\ Len(a) = base /\ \A i \in 1..P : a[i] = b[i]
        /\ \A i \in (P + 1)..base : a[i] = tl[i - P] /\ i - P \in DOMAIN tl
    <3>1. b \o tl \in Seq(Messages) /\ IsJoin(b \o tl, b, tl)
      BY <2>2, <1>2, Joined
    <3>2. a \in Seq(Messages) /\ IsJoin(a, b, tl)
      BY <3>1, <2>3
    <3> QED
      BY <3>2, <2>2, <1>6 DEF IsJoin
  <2>5. P \in 1..P /\ \A i \in 1..Len(chat) : i \in 1..P
    BY <1>3, <1>6
  <2> QED
    BY <2>2, <2>4, <2>5
<1>8. /\ m \in Seq(Messages) /\ Len(m) = base + Len(in) /\ \A i \in 1..base : m[i] = a[i]
      /\ \A i \in DOMAIN in : m[base + i] = in[i]
      /\ \A i \in (base + 1)..Len(m) : i - base \in DOMAIN in /\ m[i] = in[i - base]
  <2>1. m = a \o in
    BY <1>2, <1>5
  <2>2. a \o in \in Seq(Messages) /\ IsJoin(a \o in, a, in)
    BY <1>4, <1>7, Joined
  <2>3. m \in Seq(Messages) /\ IsJoin(m, a, in)
    BY <2>1, <2>2
  <2>4. DOMAIN in = 1..Len(in)
    BY <1>4
  <2> QED
    BY <2>3, <2>4, <1>7 DEF IsJoin
<1>9. P <= base /\ P \in 1..base /\ base <= Len(m) /\ Len(m) \in Nat /\ \A i \in 1..Len(chat) : i \in 1..base
  BY <1>2, <1>3, <1>4, <1>6, <1>8
<1>10. m[P] = says /\ \A i \in 1..Len(chat) : m[i] = chat[i]
  BY <1>7, <1>8, <1>9
<1>11. /\ \A i \in (P + 1)..Len(m) : m[i].calls = <<>>
       /\ \A i \in (P + 1)..base : m[i].role # "tool"
  <2>1. ASSUME NEW i \in (P + 1)..base PROVE m[i].calls = <<>> /\ m[i].role # "tool"
    <3>1. m[i] = a[i]
      BY <1>6, <1>8
    <3>2. a[i] = tl[i - P] /\ i - P \in DOMAIN tl
      BY <1>7
    <3>3. Quiet(tl[i - P])
      BY <3>2, <1>2
    <3> QED
      BY <3>1, <3>2, <3>3 DEF Quiet
  <2>2. ASSUME NEW i \in (base + 1)..Len(m) PROVE m[i].calls = <<>>
    BY <1>4, <1>8
  <2>3. \A i \in (P + 1)..Len(m) : i \in (P + 1)..base \/ i \in (base + 1)..Len(m)
    BY <1>9
  <2> QED
    BY <2>1, <2>2, <2>3
<1>12. ASSUME NEW i \in DOMAIN m PROVE KnownCalls(m[i], p, tools)
  <2>1. CASE i \in 1..Len(chat)
    <3>1. KnownCalls(chat[i], p - 1, tools)
      BY <2>1, <1>1, <1>3
    <3>2. \A x \in 1..(p - 1) : x \in 1..p
      OBVIOUS
    <3>3. KnownCalls(chat[i], p, tools)
      BY <3>1, <3>2 DEF KnownCalls, KnownId
    <3> QED
      BY <3>3, <2>1, <1>10
  <2>2. CASE i = P
    BY <2>2, <1>1, <1>10 DEF Answered
  <2>3. CASE i \in (P + 1)..Len(m)
    <3>1. DOMAIN m[i].calls = {}
      BY <2>3, <1>11
    <3> QED
      BY <3>1 DEF KnownCalls
  <2> QED
    BY <2>1, <2>2, <2>3, <1>3, <1>6, <1>8, <1>9
<1>13. /\ Shown(m) \subseteq DoneBefore(p, q.results)
       /\ req[p].done \subseteq Shown(chat) /\ Remembered(says, out)
              => DoneBefore(p, q.results) \subseteq Shown(m)
  <2>0. DoneBefore(p, q.results) = req[p].done \cup
       {Functions(p)[i].cmd : i \in {j \in DOMAIN q.results :
                                          q.results[j].ok /\ IsExec(Functions(p)[j])}}
    BY DEF DoneBefore, None
  <2>1. CASE q.results = <<>>
    <3>1. in = <<Plain("user")>>
      BY <2>1, <1>1 DEF InputToChatMessages, HasFunctionCallOutput
    <3>2. "user" \in Roles /\ "user" # "tool"
      BY DEF Roles
    <3>3. Plain("user").role # "tool"
      BY <3>2, MessageTypes DEF Quiet
    <3>4. \A i \in (Len(chat) + 1)..Len(m) : m[i].role # "tool"
      <4>1. m[Len(m)] = Plain("user") /\ Len(m) = base + 1
        BY <3>1, <1>8, <1>9
      <4>2. \A i \in (Len(chat) + 1)..Len(m) : i = P \/ i \in (P + 1)..base \/ i = Len(m)
        BY <4>1, <1>6, <1>9
      <4> QED
        BY <4>1, <4>2, <3>3, <1>3, <1>10, <1>11
    <3>5. Shown(m) = Shown(chat)
      <4>1. Extends(m, chat)
        BY <1>3, <1>6, <1>9, <1>10 DEF Extends
      <4> QED
        BY <4>1, <3>4, <1>3, <1>8, QuietShowsNothing
    <3>6. DoneBefore(p, q.results) = req[p].done
      BY <2>0, <2>1
    <3> QED
      BY <3>5, <3>6, <1>1
  <2>2. CASE q.results # <<>>
    <3>1. in = [i \in DOMAIN q.results |-> Output(q.results[i].id, q.results[i].ok)]
      BY <2>2, <1>1 DEF InputToChatMessages, HasFunctionCallOutput
    <3>2. PICK fun : fun = Functions(p)
      OBVIOUS
    <3>3. /\ fun \in Seq(Items) /\ DOMAIN q.results = DOMAIN fun
          /\ \A i \in DOMAIN fun : /\ fun[i].type = "function_call" /\ \E x \in DOMAIN out : fun[i] = out[x]
                                   /\ fun[i].id \in Ids
                                   /\ q.results[i].id = fun[i].id /\ q.results[i].ok \in BOOLEAN
      <4>1. /\ DOMAIN q.results = DOMAIN Functions(p)
            /\ \A i \in DOMAIN q.results : /\ q.results[i].id = Functions(p)[i].id
                                           /\ q.results[i].ok \in BOOLEAN
        BY <2>2, RepliesAre DEF None
      <4>2. /\ Functions(p) \in Seq(Items)
            /\ \A i \in DOMAIN Functions(p) :
                 Functions(p)[i].type = "function_call" /\ Functions(p)[i].id \in Ids
        BY FunctionsAre
      <4>3. ASSUME NEW i \in DOMAIN Functions(p)
            PROVE  \E x \in DOMAIN req[p].out : Functions(p)[i] = req[p].out[x]
        BY FunctionsAre
      <4> QED
        BY <4>1, <4>2, <4>3, <3>2, <1>1
    <3>4. \A i \in DOMAIN fun : /\ in[i].role = "tool" /\ in[i].id = fun[i].id /\ in[i].ok = q.results[i].ok
                                /\ m[base + i] = in[i]
      BY <3>1, <3>3, <1>8, MessageTypes
    <3>5. Len(in) = Len(fun)
      BY <3>1, <3>3, <1>4
    <3>6. /\ \A c \in Shown(m) \ Shown(chat) : \E i \in DOMAIN fun :
              m[base + i].ok /\ IsExec(fun[i]) /\ fun[i].cmd = c
         /\ Shown(chat) \subseteq Shown(m)
         /\ \A i \in DOMAIN fun : m[base + i].ok /\ IsExec(fun[i]) /\ Remembered(says, out)
                                   => fun[i].cmd \in Shown(m)
      <4>1. Answered(p, tools, out, says) /\ \A i \in DOMAIN chat : KnownCalls(chat[i], p - 1, tools)
        BY <1>1
      <4>2. base + Len(fun) = Len(m)
        BY <3>5, <1>8
      <4>3. \A i \in DOMAIN fun : m[base + i].role = "tool" /\ m[base + i].id = fun[i].id
                               /\ fun[i].type = "function_call" /\ \E x \in DOMAIN out : fun[i] = out[x]
        BY <3>3, <3>4
      <4>4. Extends(m, chat) /\ P = Len(chat) + 1 /\ fun \in Seq(Items) /\ m \in Seq(Messages)
        BY <3>3, <1>3, <1>6, <1>8, <1>9, <1>10 DEF Extends
      <4>5. OutputsFollow(p, tools, out, says, chat, m, P, base, fun)
        BY <4>1, <4>2, <4>3, <4>4, <1>3, <1>9, <1>10, <1>11 DEF OutputsFollow
      <4> QED
        BY <4>5, OutputsShow
    <3>7. ASSUME NEW c \in Shown(m) PROVE c \in DoneBefore(p, q.results)
      <4>1. CASE c \in Shown(chat)
        BY <4>1, <2>0, <1>1
      <4>2. CASE c \notin Shown(chat)
        <5>1. PICK i \in DOMAIN fun : m[base + i].ok /\ IsExec(fun[i]) /\ fun[i].cmd = c
          BY <3>6, <4>2
        <5>2. i \in DOMAIN q.results /\ q.results[i].ok
          BY <5>1, <3>3, <3>4
        <5> QED
          BY <5>1, <5>2, <3>2, <2>0
      <4> QED
        BY <4>1, <4>2
    <3>8. ASSUME req[p].done \subseteq Shown(chat), Remembered(says, out), NEW c \in DoneBefore(p, q.results)
          PROVE  c \in Shown(m)
      <4>1. CASE c \in req[p].done
        BY <4>1, <3>6, <3>8
      <4>2. CASE c \notin req[p].done
        <5>1. PICK i \in DOMAIN q.results : q.results[i].ok /\ IsExec(fun[i]) /\ c = fun[i].cmd
          BY <4>2, <2>0, <3>2
        <5>2. i \in DOMAIN fun /\ m[base + i].ok
          BY <5>1, <3>3, <3>4
        <5> QED
          BY <5>1, <5>2, <3>6, <3>8
      <4> QED
        BY <4>1, <4>2
    <3> QED
      BY <3>7, <3>8
  <2> QED
    BY <2>1, <2>2
<1> QED
  BY <1>1, <1>8, <1>12, <1>13

\* A conversation that begins shows nothing.
LEMMA Opening ==
  ASSUME NEW q, q.prev = None, q.results = <<>>, NEW m, m = ResponsesToChat(q, <<>>)
  PROVE  m \in Seq(Messages) /\ Shown(m) = {} /\ \A i \in DOMAIN m : m[i].calls = <<>>
<1>1. PICK tl \in Seq(Messages) :
         /\ \A prior : ResponsesToChat(q, prior) =
              (IF q.prev = None THEN <<Plain("instructions")>> ELSE prior) \o tl \o InputToChatMessages(q)
         /\ \A i \in DOMAIN tl : Quiet(tl[i])
  BY AddedMessages
<1>2. PICK u, v : u = Plain("instructions") /\ v = Plain("user")
  OBVIOUS
<1>3. u \in Messages /\ v \in Messages /\ Quiet(u) /\ Quiet(v)
  <2>1. "instructions" \in Roles /\ "user" \in Roles /\ "instructions" # "tool" /\ "user" # "tool"
    BY DEF Roles, SystemRoles
  <2> QED
    BY <2>1, <1>2, MessageTypes
<1>4. m = <<u>> \o tl \o <<v>>
  <2>1. InputToChatMessages(q) = <<v>>
    BY <1>2 DEF InputToChatMessages, HasFunctionCallOutput
  <2>2. ResponsesToChat(q, <<>>) = <<u>> \o tl \o InputToChatMessages(q)
    BY <1>1, <1>2
  <2> QED
    BY <2>1, <2>2
<1>5. PICK a : a = <<u>> \o tl
  OBVIOUS
<1>6. <<u>> \in Seq(Messages) /\ <<v>> \in Seq(Messages)
      /\ (\A i \in 1..Len(<<u>>) : <<u>>[i] = u) /\ (\A i \in DOMAIN <<v>> : <<v>>[i] = v)
  <2>1. <<u>> \in Seq(Messages) /\ Len(<<u>>) = 1 /\ <<u>>[1] = u
    BY <1>3
  <2>2. <<v>> \in Seq(Messages) /\ DOMAIN <<v>> = {1} /\ <<v>>[1] = v
    BY <1>3
  <2>3. \A i \in 1..1 : i = 1
    OBVIOUS
  <2> QED
    BY <2>1, <2>2, <2>3
<1>7. a \in Seq(Messages) /\ IsJoin(a, <<u>>, tl)
  <2>1. <<u>> \o tl \in Seq(Messages) /\ IsJoin(<<u>> \o tl, <<u>>, tl)
    BY <1>6, Joined
  <2> QED
    BY <2>1, <1>5
<1>8. m \in Seq(Messages) /\ IsJoin(m, a, <<v>>)
  <2>1. a \o <<v>> \in Seq(Messages) /\ IsJoin(a \o <<v>>, a, <<v>>)
    BY <1>6, <1>7, Joined
  <2> QED
    BY <2>1, <1>4, <1>5
<1>9. \A i \in 1..Len(a) : Quiet(a[i])
  <2>1. ASSUME NEW i \in 1..Len(a) PROVE i \in 1..Len(<<u>>) \/ i \in (Len(<<u>>) + 1)..Len(a)
    BY <1>6, <1>7
  <2>2. \A i \in 1..Len(<<u>>) : a[i] = u
    BY <1>6, <1>7 DEF IsJoin
  <2>3. \A i \in (Len(<<u>>) + 1)..Len(a) : Quiet(a[i])
    BY <1>1, <1>7 DEF IsJoin
  <2> QED
    BY <2>1, <2>2, <2>3, <1>3
<1>10. \A i \in DOMAIN m : Quiet(m[i])
  <2>1. ASSUME NEW i \in DOMAIN m PROVE i \in 1..Len(a) \/ i \in (Len(a) + 1)..Len(m)
    BY <1>7, <1>8
  <2>2. \A i \in 1..Len(a) : m[i] = a[i]
    BY <1>8 DEF IsJoin
  <2>3. \A i \in (Len(a) + 1)..Len(m) : m[i] = v
    BY <1>6, <1>8 DEF IsJoin
  <2> QED
    BY <2>1, <2>2, <2>3, <1>3, <1>9
<1>11. Shown(m) = {}
  <2>1. \A j \in DOMAIN m : ~ OutputSucceeded(m[j])
    BY <1>10 DEF OutputSucceeded, Quiet
  <2> QED
    BY <2>1 DEF Shown
<1> QED
  BY <1>8, <1>10, <1>11 DEF Quiet

(***************************************************************************)
(* Answers: what they issue, and what the conversation remembers of it.    *)
(***************************************************************************)
ParsedItem(item, tools) ==
  /\ item \in Items /\ item.cmd \in Commands \ {Unread}
  /\ item.type \in {"function_call", "custom_tool_call"}
  /\ item.type = "custom_tool_call" => item.name # "exec_command"
  /\ \E name \in Names :
       /\ item.id = DefaultId(name)
       /\ item.type = "function_call" => (IsExec(item) <=> ExecName(name, tools))

LEMMA ExecItem ==
  ASSUME NEW id \in Ids, NEW cmd \in Commands
  PROVE  /\ Exec(id, cmd) \in Items /\ Exec(id, cmd).type = "function_call" /\ Exec(id, cmd).id = id
         /\ Exec(id, cmd).name = "exec_command" /\ Exec(id, cmd).cmd = cmd /\ IsExec(Exec(id, cmd))
<1>1. "exec_command" \in Names
  BY DEF Names
<1> QED
  BY <1>1 DEF Exec, Item, Items, IsExec

LEMMA DefaultIds ==
  ASSUME NEW name \in Names
  PROVE  DefaultId(name) \in Ids
  BY DEF DefaultId, Ids

LEMMA ParseIs ==
  ASSUME NEW a, a.name \in Names, a.cmd \in Commands \ {Unread}, NEW tools
  PROVE  LET parsed == ParseFallbackToolCall(a, tools)
         IN  parsed.kind = "call" => ParsedItem(parsed.item, tools)
<1> DEFINE allowed(name) == ToolNameAllowed(name, tools)
           custom == a.name = "apply_patch" /\ tools # {}
           parsed == ParseFallbackToolCall(a, tools)
<1>1. NotACall.kind # "call" /\ ParseError.kind # "call"
  BY DEF NotACall, ParseError
<1>2. \A item : Parsed(item).item = item
  BY DEF Parsed
<1>3. \A n \in {"exec_command", "write_file", "tool_search_code_exec", "tool_search_code", "apply_patch"} :
        n \in Names
  BY DEF Names
<1>4. ASSUME NEW name \in Names, ExecName(name, tools)
      PROVE  ParsedItem(Exec(DefaultId(name), a.cmd), tools)
  <2>1. DefaultId(name) \in Ids
    BY DefaultIds
  <2>2. PICK item : item = Exec(DefaultId(name), a.cmd)
    OBVIOUS
  <2>3. /\ item \in Items /\ item.type = "function_call" /\ item.id = DefaultId(name)
        /\ item.cmd = a.cmd /\ IsExec(item)
    BY <2>1, <2>2, ExecItem
  <2>4. ParsedItem(item, tools)
    BY <2>3, <1>4 DEF ParsedItem
  <2> QED
    BY <2>2, <2>4
<1>5. ASSUME NEW type \in {"function_call", "custom_tool_call"}, NEW name \in Names, NEW tool \in Names,
             type = "function_call" => ((tool = "exec_command") <=> ExecName(name, tools)),
             type = "custom_tool_call" => tool # "exec_command"
      PROVE  ParsedItem(Item(type, DefaultId(name), tool, a.cmd), tools)
  <2>1. DefaultId(name) \in Ids
    BY DefaultIds
  <2>2. PICK item : item = Item(type, DefaultId(name), tool, a.cmd)
    OBVIOUS
  <2>3. /\ item \in Items /\ item.type = type /\ item.id = DefaultId(name)
        /\ item.name = tool /\ item.cmd = a.cmd
    <3>1. /\ type \in {"function_call", "custom_tool_call", "message", "repeated"}
          /\ a.cmd \in Commands \cup {""}
      OBVIOUS
    <3> QED
      BY <3>1, <2>1, <2>2 DEF Item, Items
  <2>4. IsExec(item) <=> type = "function_call" /\ tool = "exec_command"
    BY <2>3 DEF IsExec
  <2>5. ParsedItem(item, tools)
    BY <2>3, <2>4, <1>5 DEF ParsedItem
  <2> QED
    BY <2>2, <2>5
<1>6. \/ parsed \in {NotACall, ParseError}
      \/ parsed = Parsed(Exec(DefaultId("exec_command"), a.cmd))
      \/ parsed = Parsed(Item("function_call", DefaultId("tool_search_code_exec"), "tool_search_code", a.cmd))
      \/ allowed("exec_command") /\ parsed = Parsed(Exec(DefaultId("write_file"), a.cmd))
      \/ custom /\ parsed = Parsed(Exec(DefaultId(a.name), a.cmd))
      \/ /\ ~ (a.name = "write_file" /\ allowed("exec_command"))
         /\ parsed = Parsed(Item(IF custom THEN "custom_tool_call" ELSE "function_call",
                                 DefaultId(a.name), a.name, a.cmd))
  BY Zenon DEF ParseFallbackToolCall
<1> HIDE DEF parsed
<1>7. CASE parsed \in {NotACall, ParseError}
  BY <1>7, <1>1 DEF parsed
<1>8. CASE parsed = Parsed(Exec(DefaultId("exec_command"), a.cmd))
  <2>1. "exec_command" \in Names /\ ExecName("exec_command", tools)
    BY <1>3 DEF ExecName
  <2>2. ParsedItem(Exec(DefaultId("exec_command"), a.cmd), tools)
    BY <2>1, <1>4
  <2> QED
    BY <2>2, <1>2, <1>8 DEF parsed
<1>9. CASE parsed = Parsed(Item("function_call", DefaultId("tool_search_code_exec"), "tool_search_code", a.cmd))
  <2>1. /\ "tool_search_code_exec" \in Names /\ "tool_search_code" \in Names
        /\ ~ ExecName("tool_search_code_exec", tools) /\ "tool_search_code" # "exec_command"
        /\ "function_call" # "custom_tool_call"
    BY <1>3 DEF ExecName
  <2>2. ParsedItem(Item("function_call", DefaultId("tool_search_code_exec"), "tool_search_code", a.cmd), tools)
    BY <2>1, <1>5
  <2> QED
    BY <2>2, <1>2, <1>9 DEF parsed
<1>10. CASE allowed("exec_command") /\ parsed = Parsed(Exec(DefaultId("write_file"), a.cmd))
  <2>1. "write_file" \in Names /\ ExecName("write_file", tools)
    BY <1>3, <1>10 DEF ExecName
  <2>2. ParsedItem(Exec(DefaultId("write_file"), a.cmd), tools)
    BY <2>1, <1>4
  <2> QED
    BY <2>2, <1>2, <1>10 DEF parsed
<1>11. CASE custom /\ parsed = Parsed(Exec(DefaultId(a.name), a.cmd))
  <2>1. ExecName(a.name, tools)
    BY <1>11 DEF ExecName
  <2>2. ParsedItem(Exec(DefaultId(a.name), a.cmd), tools)
    BY <2>1, <1>4
  <2> QED
    BY <2>2, <1>2, <1>11 DEF parsed
<1>12. CASE /\ ~ (a.name = "write_file" /\ allowed("exec_command"))
            /\ parsed = Parsed(Item(IF custom THEN "custom_tool_call" ELSE "function_call",
                                    DefaultId(a.name), a.name, a.cmd))
  <2>1. PICK type : type = IF custom THEN "custom_tool_call" ELSE "function_call"
    OBVIOUS
  <2>2. /\ type \in {"function_call", "custom_tool_call"}
        /\ type = "custom_tool_call" => a.name # "exec_command"
        /\ type = "function_call" => ~ custom
    BY <2>1
  <2>3. type = "function_call" => ((a.name = "exec_command") <=> ExecName(a.name, tools))
    BY <2>2, <1>12 DEF ExecName
  <2>4. ParsedItem(Item(type, DefaultId(a.name), a.name, a.cmd), tools)
    BY <2>2, <2>3, <1>5
  <2>5. parsed.item = Item(type, DefaultId(a.name), a.name, a.cmd)
    BY <2>1, <1>2, <1>12
  <2> QED
    BY <2>4, <2>5 DEF parsed
<1> QED
  BY <1>6, <1>7, <1>8, <1>9, <1>10, <1>11, <1>12

LEMMA IssueIs ==
  ASSUME NEW r \in Nat \ {0}, NEW tools, NEW item, ParsedItem(item, tools)
  PROVE  Answered(r, tools, <<item>>, Says(<<CallOf(item)>>))
<1>1. PICK name \in Names :
        /\ item.id = DefaultId(name)
        /\ item.type = "function_call" => (IsExec(item) <=> ExecName(name, tools))
  BY DEF ParsedItem
<1>2. item \in Items /\ item.cmd \in Commands \ {Unread} /\ item.id \in Ids /\ item.name \in Names
  BY DEF ParsedItem, Items
<1>3. PICK call : call = CallOf(item)
  OBVIOUS
<1>4. call \in Calls /\ call.id = item.id /\ call.name = item.name
      /\ call.cmd = (IF item.type = "function_call" THEN item.cmd ELSE Unread)
  BY <1>2, <1>3 DEF CallOf, Calls
<1>5. PICK says : says = Says(<<call>>)
  OBVIOUS
<1>6. says \in Messages /\ says.calls = <<call>> /\ says.role = "assistant"
  <2>1. <<call>> \in Seq(Calls)
    BY <1>4
  <2> QED
    BY <2>1, <1>5, MessageTypes
<1>7. DOMAIN says.calls = {1} /\ says.calls[1] = call
  BY <1>6
<1>8. KnownCalls(says, r, tools)
  <2> SUFFICES ASSUME Noted(call, call.id) PROVE KnownId(call.id, r, tools)
    BY <1>7 DEF KnownCalls
  <2>1. item.name = "exec_command" /\ item.type = "function_call"
    BY <1>4 DEF Noted
  <2>2. ExecName(name, tools)
    BY <2>1, <1>1 DEF IsExec
  <2> QED
    BY <2>2, <1>1, <1>4 DEF KnownId
<1>9. ASSUME item.type = "function_call" PROVE FunctionCall(r, tools, says, item)
  <2>1. Remembers(says, item)
    BY <1>4, <1>7, <1>9 DEF Remembers
  <2>2. IsExec(item) => Noted(says.calls[1], item.id)
    BY <1>2, <1>4, <1>7, <1>9 DEF IsExec, Noted
  <2>3. IsExec(item) => \E k \in DOMAIN says.calls : Noted(says.calls[k], item.id)
    BY <2>2, <1>7
  <2> QED
    BY <2>1, <2>3, <1>1, <1>2, <1>9 DEF FunctionCall
<1>10. <<item>> \in Seq(Items) /\ DOMAIN <<item>> = {1} /\ <<item>>[1] = item /\ Len(<<item>>) = 1
  BY <1>2
<1>11. Answered(r, tools, <<item>>, says)
  BY <1>6, <1>7, <1>8, <1>9, <1>10 DEF Answered
<1> QED
  BY <1>3, <1>5, <1>11

\* A response without calls.
LEMMA NoCalls ==
  ASSUME NEW r \in Nat \ {0}, NEW tools
  PROVE  /\ Answered(r, tools, <<>>, Says(<<>>))
         /\ \A item \in Items : item.type # "function_call" => Answered(r, tools, <<item>>, Says(<<>>))
<1>1. PICK says : says = Says(<<>>)
  OBVIOUS
<1>2. says \in Messages /\ says.calls = <<>> /\ says.role = "assistant"
  <2>1. <<>> \in Seq(Calls)
    OBVIOUS
  <2> QED
    BY <2>1, <1>1, MessageTypes
<1>3. DOMAIN says.calls = {}
  BY <1>2
<1>4. KnownCalls(says, r, tools)
  BY <1>3 DEF KnownCalls
<1>5. Answered(r, tools, <<>>, says)
  <2>1. <<>> \in Seq(Items) /\ DOMAIN <<>> = {}
    OBVIOUS
  <2> QED
    BY <2>1, <1>2, <1>3, <1>4 DEF Answered
<1>6. ASSUME NEW item \in Items, item.type # "function_call" PROVE Answered(r, tools, <<item>>, says)
  <2>1. <<item>> \in Seq(Items) /\ DOMAIN <<item>> = {1} /\ <<item>>[1] = item /\ Len(<<item>>) = 1
    OBVIOUS
  <2> QED
    BY <2>1, <1>2, <1>3, <1>4, <1>6 DEF Answered
<1> QED
  BY <1>1, <1>5, <1>6

\* What is issued is new, and what is refused was shown to be done.
IssuesOnce(msgs, out) ==
  /\ \A i, j \in DOMAIN out : IsExec(out[i]) /\ IsExec(out[j]) /\ i # j => ~ Equivalent(out[i].cmd, out[j].cmd)
  /\ \A i \in DOMAIN out : IsExec(out[i]) => \A c \in Shown(msgs) : ~ Equivalent(c, out[i].cmd)

RefusesDone(msgs, out) ==
  \A i \in DOMAIN out : out[i].type = "repeated" => \E c \in Shown(msgs) : Equivalent(c, out[i].cmd)

(***************************************************************************)
(* The loop of chatToResponses over native calls.                          *)
(***************************************************************************)
IsTaken(f, r, msgs, a, N) ==
  f = [n \in 0..N |-> IF n = 0 THEN <<>> ELSE TakeNative(msgs, f[n - 1], NativeItem(r, a, n))]

LEMMA TakenExists ==
  ASSUME NEW r, NEW msgs, NEW a, NEW N \in Nat
  PROVE  \E f : IsTaken(f, r, msgs, a, N)
<1> DEFINE Step(f, n) == IF n = 0 THEN <<>> ELSE TakeNative(msgs, f[n - 1], NativeItem(r, a, n))
           Has(n) == \E f : f = [i \in 0..n |-> Step(f, i)]
           Bad == {n \in Nat : ~ Has(n)}
<1>1. ASSUME Bad # {} PROVE FALSE
  <2>1. PICK n \in Bad : \A y \in Bad : n <= y
    <3>1. Bad \subseteq Nat
      OBVIOUS
    <3> HIDE DEF Bad
    <3> QED
      BY <3>1, <1>1, LeastPlace
  <2>2. n \in Nat /\ ~ Has(n)
    OBVIOUS
  <2>3. CASE n = 0
    <3>1. PICK f : f = [i \in 0..0 |-> <<>>]
      OBVIOUS
    <3>2. \A i \in 0..0 : Step(f, i) = <<>>
      OBVIOUS
    <3>3. f = [i \in 0..n |-> Step(f, i)]
      <4> HIDE DEF Step
      <4> QED
        BY <3>1, <3>2, <2>3
    <3> HIDE DEF Step
    <3> QED
      BY <3>3, <2>2
  <2>4. CASE n # 0
    <3>1. n - 1 \in Nat /\ n - 1 \notin Bad
      <4> HIDE DEF Bad, Has
      <4> QED
        BY <2>1, <2>2, <2>4
    <3>2. PICK f : f = [i \in 0..(n - 1) |-> Step(f, i)]
      BY <3>1
    <3>3. PICK g : g = [i \in 0..n |-> IF i < n THEN f[i] ELSE Step(f, n)]
      OBVIOUS
    <3>4. ASSUME NEW i \in 0..n PROVE g[i] = Step(g, i)
      <4>1. CASE i = 0
        <5>1. g[i] = f[0] /\ f[0] = <<>>
          BY <4>1, <3>1, <3>2, <3>3, <2>4
        <5> QED
          BY <5>1, <4>1
      <4>2. CASE i # 0 /\ i < n
        <5>1. g[i] = f[i] /\ g[i - 1] = f[i - 1] /\ i \in 0..(n - 1)
          BY <4>2, <3>3, <2>2
        <5>2. f[i] = Step(f, i)
          <6> HIDE DEF Step
          <6> QED
            BY <5>1, <3>2
        <5> QED
          BY <5>1, <5>2, <4>2
      <4>3. CASE i = n
        <5>1. g[i] = Step(f, n) /\ g[i - 1] = f[n - 1]
          <6> HIDE DEF Step
          <6> QED
            BY <4>3, <3>3, <2>2, <2>4
        <5> QED
          BY <5>1, <4>3, <2>4
      <4> QED
        BY <4>1, <4>2, <4>3, <2>2
    <3> HIDE DEF Step
    <3>5. g = [i \in 0..n |-> Step(g, i)]
      BY <3>3, <3>4
    <3> QED
      BY <3>5, <2>2
  <2> QED
    BY <2>3, <2>4
<1>2. Has(N)
  BY <1>1
<1> QED
  BY <1>2 DEF IsTaken

LEMMA EquivalentSymmetric ==
  ASSUME NEW c, NEW d
  PROVE  Equivalent(c, d) <=> Equivalent(d, c)
  BY DEF Equivalent

\* What has been taken of the first n native calls.
TakenOf(r, msgs, a, n, out) ==
  /\ out \in Seq(Items)
  /\ \A i \in DOMAIN out : \/ i = Len(out) /\ out[i].type = "repeated"
                           \/ \E x \in 1..n : out[i] = NativeItem(r, a, x)
  /\ IssuesOnce(msgs, out) /\ RefusesDone(msgs, out)

LEMMA NativeItems ==
  ASSUME NEW r \in Nat, NEW a \in Answers, NEW x \in DOMAIN a.calls
  PROVE  /\ NativeItem(r, a, x) \in Items /\ NativeItem(r, a, x).type = "function_call"
         /\ NativeItem(r, a, x).id = NativeId(r, x) /\ NativeItem(r, a, x).name = "exec_command"
         /\ NativeItem(r, a, x).cmd = a.calls[x].cmd /\ IsExec(NativeItem(r, a, x))
         /\ a.calls[x].cmd \in Commands \ {Unread} /\ NativeId(r, x) \in Ids
         /\ NativeCall(r, a, x) \in Calls /\ NativeCall(r, a, x).id = NativeId(r, x)
         /\ NativeCall(r, a, x).name = "exec_command"
         /\ NativeCall(r, a, x).cmd \in {a.calls[x].cmd, Unread}
<1>1. a.calls \in Seq([cmd : Commands \ {Unread}, plain : BOOLEAN])
  BY AnswerAssumption
<1>2. a.calls[x] \in [cmd : Commands \ {Unread}, plain : BOOLEAN] /\ x \in Nat
  <2>1. PICK R, calls : R = [cmd : Commands \ {Unread}, plain : BOOLEAN] /\ calls = a.calls
    OBVIOUS
  <2>2. calls \in Seq(R) /\ x \in DOMAIN calls
    BY <1>1, <2>1
  <2>3. calls[x] \in R /\ x \in Nat
    BY <2>2
  <2> QED
    BY <2>1, <2>3
<1>3. a.calls[x].cmd \in Commands \ {Unread}
  BY <1>2
<1>4. "" \in Names /\ "exec_command" \in Names
  BY DEF Names
<1>5. NativeId(r, x) \in Ids
  BY <1>2, <1>4 DEF Ids, NativeId
<1>6. PICK id \in Ids, cmd \in Commands : id = NativeId(r, x) /\ cmd = a.calls[x].cmd
  BY <1>3, <1>5
<1>7. NativeItem(r, a, x) = Exec(id, cmd)
  BY <1>6 DEF NativeItem
<1>8. /\ NativeItem(r, a, x) \in Items /\ NativeItem(r, a, x).type = "function_call"
      /\ NativeItem(r, a, x).id = id /\ NativeItem(r, a, x).name = "exec_command"
      /\ NativeItem(r, a, x).cmd = cmd /\ IsExec(NativeItem(r, a, x))
  BY <1>7, ExecItem
<1>9. PICK c : c = IF a.calls[x].plain THEN a.calls[x].cmd ELSE Unread
  OBVIOUS
<1>10. c \in {cmd, Unread}
  BY <1>6, <1>9
<1>11. NativeCall(r, a, x) = [id |-> id, name |-> "exec_command", cmd |-> c]
  BY <1>6, <1>9 DEF NativeCall
<1>12. NativeCall(r, a, x) \in Calls /\ NativeCall(r, a, x).id = id
       /\ NativeCall(r, a, x).name = "exec_command" /\ NativeCall(r, a, x).cmd = c
  <2>1. c \in Commands \cup {Unread}
    BY <1>10
  <2>2. PICK call, name : call = NativeCall(r, a, x) /\ name = "exec_command"
    OBVIOUS
  <2>3. call = [id |-> id, name |-> name, cmd |-> c] /\ name \in Names
    BY <2>2, <1>4, <1>11
  <2>4. call \in Calls /\ call.id = id /\ call.name = name /\ call.cmd = c
    BY <2>1, <2>3 DEF Calls
  <2> QED
    BY <2>2, <2>4
<1> QED
  BY <1>3, <1>5, <1>6, <1>8, <1>10, <1>12

LEMMA TakeNativeKeeps ==
  ASSUME NEW r \in Nat, NEW msgs \in Seq(Messages), NEW a \in Answers, NEW n \in DOMAIN a.calls,
         NEW acc, TakenOf(r, msgs, a, n - 1, acc)
  PROVE  TakenOf(r, msgs, a, n, TakeNative(msgs, acc, NativeItem(r, a, n)))
<1>0. n \in Nat /\ n \in 1..n /\ \A x \in 1..(n - 1) : x \in 1..n
  <2>1. a.calls \in Seq([cmd : Commands \ {Unread}, plain : BOOLEAN])
    BY AnswerAssumption
  <2>2. n \in Nat /\ n >= 1
    BY <2>1
  <2> QED
    BY <2>2
<1>1. PICK item : item = NativeItem(r, a, n)
  OBVIOUS
<1>2. item \in Items /\ IsExec(item) /\ item.type = "function_call" /\ item.cmd \in Commands
  BY <1>1, NativeItems
<1>3. /\ acc \in Seq(Items) /\ Len(acc) \in Nat /\ DOMAIN acc = 1..Len(acc)
      /\ \A i \in DOMAIN acc : \/ i = Len(acc) /\ acc[i].type = "repeated"
                               \/ \E x \in 1..n : acc[i] = NativeItem(r, a, x)
      /\ IssuesOnce(msgs, acc) /\ RefusesDone(msgs, acc)
  <2>1. acc \in Seq(Items) /\ IssuesOnce(msgs, acc) /\ RefusesDone(msgs, acc)
    BY DEF TakenOf
  <2>2. ASSUME NEW i \in DOMAIN acc
        PROVE  \/ i = Len(acc) /\ acc[i].type = "repeated"
               \/ \E x \in 1..n : acc[i] = NativeItem(r, a, x)
    BY <1>0 DEF TakenOf
  <2> QED
    BY <2>1, <2>2
<1>4. TakenOf(r, msgs, a, n, acc)
  BY <1>3 DEF TakenOf
<1>5. ASSUME NEW e \in Items, ~ (acc # <<>> /\ acc[Len(acc)].type = "repeated"),
             e.type = "repeated" \/ e = item,
             e.type = "repeated" => \E c \in Shown(msgs) : Equivalent(c, e.cmd),
             IsExec(e) => /\ \A i \in DOMAIN acc : IsExec(acc[i]) => ~ Equivalent(acc[i].cmd, e.cmd)
                          /\ \A c \in Shown(msgs) : ~ Equivalent(c, e.cmd)
      PROVE  TakenOf(r, msgs, a, n, Append(acc, e))
  <2>1. PICK out : out = Append(acc, e)
    OBVIOUS
  <2>2. PICK L \in Nat : L = Len(acc)
    BY <1>3
  <2>3. /\ out \in Seq(Items) /\ Len(out) = L + 1 /\ DOMAIN out = 1..(L + 1)
        /\ out[L + 1] = e /\ \A i \in 1..L : out[i] = acc[i]
    BY <2>1, <2>2, <1>3
  <2>4. \A i \in DOMAIN out : i = L + 1 \/ i \in 1..L
    BY <2>3
  <2>5. \A i \in 1..L : \E x \in 1..n : acc[i] = NativeItem(r, a, x)
    <3>1. \A i \in 1..L : i = L => acc # <<>>
      BY <2>2, <1>3
    <3> QED
      BY <3>1, <2>2, <1>3, <1>5
  <2>6. ASSUME NEW i \in DOMAIN out
        PROVE  \/ i = Len(out) /\ out[i].type = "repeated"
               \/ \E x \in 1..n : out[i] = NativeItem(r, a, x)
    <3>1. CASE i = L + 1
      BY <3>1, <2>3, <1>0, <1>1, <1>5
    <3>2. CASE i \in 1..L
      BY <3>2, <2>3, <2>5
    <3> QED
      BY <3>1, <3>2, <2>4
  <2>7. ASSUME NEW i \in DOMAIN out, NEW j \in DOMAIN out, IsExec(out[i]), IsExec(out[j]), i # j
        PROVE  ~ Equivalent(out[i].cmd, out[j].cmd)
    <3>1. CASE i \in 1..L /\ j \in 1..L
      <4>1. i \in DOMAIN acc /\ j \in DOMAIN acc /\ out[i] = acc[i] /\ out[j] = acc[j]
        BY <3>1, <2>2, <2>3, <1>3
      <4> QED
        BY <4>1, <2>7, <1>3 DEF IssuesOnce
    <3>2. CASE i \in 1..L /\ j = L + 1
      <4>1. i \in DOMAIN acc /\ out[i] = acc[i] /\ out[j] = e
        BY <3>2, <2>2, <2>3, <1>3
      <4> QED
        BY <4>1, <2>7, <1>5
    <3>3. CASE i = L + 1 /\ j \in 1..L
      <4>1. j \in DOMAIN acc /\ out[j] = acc[j] /\ out[i] = e
        BY <3>3, <2>2, <2>3, <1>3
      <4>2. ~ Equivalent(out[j].cmd, out[i].cmd)
        BY <4>1, <2>7, <1>5
      <4> QED
        BY <4>2, EquivalentSymmetric
    <3> QED
      BY <3>1, <3>2, <3>3, <2>4, <2>7
  <2>8. ASSUME NEW i \in DOMAIN out, IsExec(out[i]), NEW c \in Shown(msgs)
        PROVE  ~ Equivalent(c, out[i].cmd)
    <3>1. CASE i \in 1..L
      BY <3>1, <2>2, <2>3, <2>8, <1>3 DEF IssuesOnce
    <3>2. CASE i = L + 1
      BY <3>2, <2>3, <2>8, <1>5
    <3> QED
      BY <3>1, <3>2, <2>4
  <2>9. ASSUME NEW i \in DOMAIN out, out[i].type = "repeated"
        PROVE  \E c \in Shown(msgs) : Equivalent(c, out[i].cmd)
    <3>1. CASE i \in 1..L
      BY <3>1, <2>2, <2>3, <2>9, <1>3 DEF RefusesDone
    <3>2. CASE i = L + 1
      BY <3>2, <2>3, <2>9, <1>5
    <3> QED
      BY <3>1, <3>2, <2>4
  <2>10. IssuesOnce(msgs, out) /\ RefusesDone(msgs, out)
    BY <2>7, <2>8, <2>9 DEF IssuesOnce, RefusesDone
  <2>11. TakenOf(r, msgs, a, n, out)
    BY <2>3, <2>6, <2>10 DEF TakenOf
  <2> QED
    BY <2>1, <2>11
<1>6. PICK res : res = TakeNative(msgs, acc, item)
  OBVIOUS
<1>7. CASE acc # <<>> /\ Last(acc).type = "repeated"
  <2>1. res = acc
    BY <1>6, <1>7 DEF TakeNative
  <2> QED
    BY <2>1, <1>1, <1>4, <1>6
<1>8. CASE ~ (acc # <<>> /\ Last(acc).type = "repeated")
  <2>0. ~ (acc # <<>> /\ acc[Len(acc)].type = "repeated")
    BY <1>8 DEF Last
  <2>1. CASE RepeatedSuccessfulExecCommand(msgs, item)
    <3>1. PICK e : e = AlreadyDone(item.cmd)
      OBVIOUS
    <3>2. e \in Items /\ e.type = "repeated" /\ e.cmd = item.cmd
      <4>1. "" \in Names /\ NoCall \in Ids
        BY MessageTypes DEF Names
      <4> QED
        BY <4>1, <3>1, <1>2 DEF AlreadyDone, Item, Items
    <3>3. \E c \in Shown(msgs) : Equivalent(c, e.cmd)
      BY <3>2, <2>1, RepeatedIsShown
    <3>4. ~ IsExec(e)
      BY <3>2 DEF IsExec
    <3>5. TakenOf(r, msgs, a, n, Append(acc, e))
      BY <3>2, <3>3, <3>4, <2>0, <1>5
    <3>6. res = Append(acc, e)
      BY <3>1, <2>1, <1>6, <1>8 DEF TakeNative
    <3> QED
      BY <3>5, <3>6, <1>1, <1>6
  <2>2. CASE ~ RepeatedSuccessfulExecCommand(msgs, item) /\ DuplicateExecCommandItem(acc, item)
    <3>1. res = acc
      BY <2>2, <1>6, <1>8 DEF TakeNative
    <3> QED
      BY <3>1, <1>1, <1>4, <1>6
  <2>3. CASE ~ RepeatedSuccessfulExecCommand(msgs, item) /\ ~ DuplicateExecCommandItem(acc, item)
    <3>1. \A c \in Shown(msgs) : ~ Equivalent(c, item.cmd)
      BY <2>3, <1>2, RepeatedIsShown
    <3>2. \A i \in DOMAIN acc : IsExec(acc[i]) => ~ Equivalent(acc[i].cmd, item.cmd)
      BY <2>3, <1>2 DEF DuplicateExecCommandItem
    <3>3. TakenOf(r, msgs, a, n, Append(acc, item))
      BY <3>1, <3>2, <2>0, <1>2, <1>5
    <3>4. res = Append(acc, item)
      BY <2>3, <1>6, <1>8 DEF TakeNative
    <3> QED
      BY <3>3, <3>4, <1>1, <1>6
  <2> QED
    BY <2>1, <2>2, <2>3
<1> QED
  BY <1>7, <1>8

LEMMA TakenAll ==
  ASSUME NEW r \in Nat, NEW msgs \in Seq(Messages), NEW a \in Answers, NEW f,
         IsTaken(f, r, msgs, a, Len(a.calls))
  PROVE  TakenOf(r, msgs, a, Len(a.calls), f[Len(a.calls)])
<1>1. PICK N \in Nat : N = Len(a.calls) /\ DOMAIN a.calls = 1..N
  <2>1. a.calls \in Seq([cmd : Commands \ {Unread}, plain : BOOLEAN])
    BY AnswerAssumption
  <2>2. PICK R, calls : R = [cmd : Commands \ {Unread}, plain : BOOLEAN] /\ calls = a.calls
    OBVIOUS
  <2>3. calls \in Seq(R)
    BY <2>1, <2>2
  <2>4. Len(calls) \in Nat /\ DOMAIN calls = 1..Len(calls)
    BY <2>3
  <2> QED
    BY <2>2, <2>4
<1> DEFINE Bad == {n \in 0..N : ~ TakenOf(r, msgs, a, n, f[n])}
<1>2. ASSUME Bad # {} PROVE FALSE
  <2>1. PICK n \in Bad : \A y \in Bad : n <= y
    <3>1. Bad \subseteq Nat
      OBVIOUS
    <3> HIDE DEF Bad
    <3> QED
      BY <3>1, <1>2, LeastPlace
  <2>2. n \in 0..N /\ ~ TakenOf(r, msgs, a, n, f[n])
    OBVIOUS
  <2>3. CASE n = 0
    <3>1. f[n] = <<>>
      BY <2>2, <2>3, <1>1 DEF IsTaken
    <3>2. <<>> \in Seq(Items) /\ DOMAIN <<>> = {}
      OBVIOUS
    <3>3. TakenOf(r, msgs, a, n, <<>>)
      BY <3>2 DEF TakenOf, IssuesOnce, RefusesDone
    <3> QED
      BY <3>1, <3>3, <2>2
  <2>4. CASE n # 0
    <3>1. n - 1 \in 0..N /\ n - 1 \notin Bad /\ n \in 1..N
      <4> HIDE DEF Bad
      <4> QED
        BY <2>1, <2>2, <2>4
    <3>2. TakenOf(r, msgs, a, n - 1, f[n - 1])
      BY <3>1
    <3>3. f[n] = TakeNative(msgs, f[n - 1], NativeItem(r, a, n))
      BY <2>2, <2>4, <1>1 DEF IsTaken
    <3>4. TakenOf(r, msgs, a, n, f[n])
      BY <3>1, <3>2, <3>3, <1>1, TakeNativeKeeps
    <3> QED
      BY <3>4, <2>2
  <2> QED
    BY <2>3, <2>4
<1>3. N \in 0..N
  OBVIOUS
<1> QED
  BY <1>1, <1>2, <1>3

LEMMA NativeIs ==
  ASSUME NEW r \in Nat \ {0}, NEW tools, NEW msgs \in Seq(Messages), NEW a \in Answers
  PROVE  LET result == NativeResponse(r, msgs, a)
         IN  /\ result.end = "completed" /\ Answered(r, tools, result.out, result.says)
             /\ IssuesOnce(msgs, result.out) /\ RefusesDone(msgs, result.out)
<1>1. PICK N \in Nat : N = Len(a.calls) /\ DOMAIN a.calls = 1..N
  <2>1. a.calls \in Seq([cmd : Commands \ {Unread}, plain : BOOLEAN])
    BY AnswerAssumption
  <2>2. PICK R, calls : R = [cmd : Commands \ {Unread}, plain : BOOLEAN] /\ calls = a.calls
    OBVIOUS
  <2>3. calls \in Seq(R)
    BY <2>1, <2>2
  <2>4. Len(calls) \in Nat /\ DOMAIN calls = 1..Len(calls)
    BY <2>3
  <2> QED
    BY <2>2, <2>4
<1>2. PICK f : f = CHOOSE taken : IsTaken(taken, r, msgs, a, Len(a.calls))
  OBVIOUS
<1>3. IsTaken(f, r, msgs, a, Len(a.calls))
  BY <1>1, <1>2, TakenExists
<1>4. PICK out, calls, says : /\ out = f[Len(a.calls)] /\ calls = [i \in DOMAIN a.calls |-> NativeCall(r, a, i)]
                        /\ says = Says(IF Last(out).type = "repeated" THEN <<>> ELSE calls)
  OBVIOUS
<1>5. PICK result : result = NativeResponse(r, msgs, a)
  OBVIOUS
<1>6. result = Completed(out, says)
  BY <1>2, <1>4, <1>5, Zenon DEF NativeResponse, IsTaken
<1>7. result.end = "completed" /\ result.out = out /\ result.says = says
  BY <1>6 DEF Completed
<1>8. TakenOf(r, msgs, a, N, out)
  BY <1>1, <1>3, <1>4, TakenAll
<1>9. ASSUME NEW i \in 1..N
      PROVE  /\ calls[i] \in Calls /\ calls[i].id = NativeId(r, i) /\ calls[i].name = "exec_command"
             /\ calls[i].cmd \in {a.calls[i].cmd, Unread}
  <2>1. calls[i] = NativeCall(r, a, i) /\ i \in DOMAIN a.calls
    BY <1>1, <1>4
  <2> QED
    BY <2>1, NativeItems
<1>10. calls \in Seq(Calls) /\ DOMAIN calls = 1..N
  <2>1. calls \in [1..N -> Calls]
    BY <1>1, <1>4, <1>9
  <2> QED
    BY <2>1
<1>11. \A i, j \in 1..N : NativeId(r, i) = NativeId(r, j) => i = j
  BY DEF NativeId
<1>12. PICK kept : kept = (IF Last(out).type = "repeated" THEN <<>> ELSE calls)
  OBVIOUS
<1>13. kept \in Seq(Calls) /\ DOMAIN kept \subseteq 1..N /\ \A k \in DOMAIN kept : kept[k] = calls[k]
  BY <1>10, <1>12
<1>14. says \in Messages /\ says.calls = kept /\ says.role = "assistant"
  BY <1>4, <1>12, <1>13, MessageTypes
<1>15. KnownCalls(says, r, tools)
  <2>1. \A k \in DOMAIN kept : k \in Nat /\ kept[k].id = NativeId(r, k)
    BY <1>9, <1>13
  <2>2. \A k \in DOMAIN kept : OwnId(kept[k].id, r)
    BY <2>1 DEF OwnId
  <2>3. r \in 1..r
    OBVIOUS
  <2> QED
    BY <2>2, <2>3, <1>14 DEF KnownCalls, KnownId
<1>16. \A k, l \in DOMAIN says.calls : says.calls[k].id = says.calls[l].id => k = l
  BY <1>9, <1>11, <1>13, <1>14
<1>17. ASSUME NEW x \in 1..N PROVE FunctionCall(r, tools, says, NativeItem(r, a, x))
  <2>1. PICK item : item = NativeItem(r, a, x)
    OBVIOUS
  <2>2. /\ item.id = NativeId(r, x) /\ item.name = "exec_command" /\ item.cmd = a.calls[x].cmd
        /\ IsExec(item) /\ a.calls[x].cmd \in Commands \ {Unread}
    BY <2>1, <1>1, NativeItems
  <2>3. Remembers(says, item)
    <3> SUFFICES ASSUME NEW k \in DOMAIN kept, kept[k].id = item.id
                 PROVE  kept[k].name = item.name /\ kept[k].cmd \in {item.cmd, Unread}
      BY <1>14 DEF Remembers
    <3>1. k \in 1..N /\ kept[k] = calls[k]
      BY <1>13
    <3>2. NativeId(r, k) = NativeId(r, x)
      BY <3>1, <2>2, <1>9
    <3>3. k = x
      BY <3>1, <3>2, <1>11
    <3> QED
      BY <3>1, <3>3, <2>2, <1>9
  <2>4. OwnId(item.id, r)
    BY <2>2 DEF OwnId
  <2> QED
    BY <2>1, <2>2, <2>3, <2>4 DEF FunctionCall
<1>18. ASSUME NEW i \in DOMAIN out
       PROVE  /\ i < Len(out) => out[i].type = "function_call"
              /\ out[i].type = "function_call" => FunctionCall(r, tools, says, out[i])
  <2>1. \/ i = Len(out) /\ out[i].type = "repeated"
        \/ \E x \in 1..N : out[i] = NativeItem(r, a, x)
    BY <1>8 DEF TakenOf
  <2>2. CASE i = Len(out) /\ out[i].type = "repeated"
    <3>1. Len(out) \in Nat
      BY <1>8 DEF TakenOf
    <3> QED
      BY <3>1, <2>2
  <2>3. CASE \E x \in 1..N : out[i] = NativeItem(r, a, x)
    <3>1. PICK x \in 1..N : out[i] = NativeItem(r, a, x)
      BY <2>3
    <3>2. NativeItem(r, a, x).type = "function_call"
      BY <1>1, NativeItems
    <3> QED
      BY <3>1, <3>2, <1>17
  <2> QED
    BY <2>1, <2>2, <2>3
<1>19. Answered(r, tools, out, says)
  <2>1. out \in Seq(Items)
    BY <1>8 DEF TakenOf
  <2> QED
    BY <2>1, <1>14, <1>15, <1>16, <1>18 DEF Answered
<1>20. IssuesOnce(msgs, out) /\ RefusesDone(msgs, out)
  BY <1>8 DEF TakenOf
<1> QED
  BY <1>5, <1>7, <1>19, <1>20

\* What an answer gives: the calls it issues and refuses are accounted for.
GoodAnswer(r, q, result) ==
  /\ result.end # "repair" /\ Answered(r, q.ask.tools, result.out, result.says)
  /\ RefusesDone(q.chat, result.out)
  /\ q.ask.text # "immediate" => IssuesOnce(q.chat, result.out)

LEMMA SilentAnswer ==
  ASSUME NEW r \in Nat \ {0}, NEW q
  PROVE  /\ \A why : why # "repair" => GoodAnswer(r, q, Fails(why))
         /\ \A item \in Items :
              /\ item.type \notin {"function_call", "repeated"}
                   => GoodAnswer(r, q, Completed(<<item>>, Says(<<>>)))
              /\ item.type = "repeated" /\ (\E c \in Shown(q.chat) : Equivalent(c, item.cmd))
                   => GoodAnswer(r, q, Completed(<<item>>, Says(<<>>)))
<1>1. ASSUME NEW why, why # "repair" PROVE GoodAnswer(r, q, Fails(why))
  <2>1. PICK result : result = Fails(why)
    OBVIOUS
  <2>2. result.end = why /\ result.out = <<>> /\ result.says = Says(<<>>)
    BY <2>1 DEF Fails
  <2>3. DOMAIN result.out = {}
    BY <2>2
  <2>4. Answered(r, q.ask.tools, result.out, result.says)
    BY <2>2, NoCalls
  <2> QED
    BY <2>1, <2>2, <2>3, <2>4, <1>1 DEF GoodAnswer, RefusesDone, IssuesOnce
<1>2. ASSUME NEW item \in Items, item.type # "function_call",
             item.type = "repeated" => \E c \in Shown(q.chat) : Equivalent(c, item.cmd)
      PROVE  GoodAnswer(r, q, Completed(<<item>>, Says(<<>>)))
  <2>1. PICK result : result = Completed(<<item>>, Says(<<>>))
    OBVIOUS
  <2>2. result.end = "completed" /\ result.out = <<item>> /\ result.says = Says(<<>>)
    BY <2>1 DEF Completed
  <2>3. DOMAIN result.out = {1} /\ result.out[1] = item
    BY <2>2
  <2>4. Answered(r, q.ask.tools, result.out, result.says)
    BY <2>2, <1>2, NoCalls
  <2>5. RefusesDone(q.chat, result.out)
    BY <2>3, <1>2 DEF RefusesDone
  <2>6. IssuesOnce(q.chat, result.out)
    BY <2>3, <1>2 DEF IssuesOnce, IsExec
  <2> QED
    BY <2>1, <2>2, <2>4, <2>5, <2>6 DEF GoodAnswer
<1> QED
  BY <1>1, <1>2

LEMMA IssuingAnswer ==
  ASSUME NEW r \in Nat \ {0}, NEW q, NEW item, ParsedItem(item, q.ask.tools),
         q.ask.text # "immediate" /\ IsExec(item) => \A c \in Shown(q.chat) : ~ Equivalent(c, item.cmd)
  PROVE  GoodAnswer(r, q, Issue(item))
<1>1. PICK result : result = Issue(item)
  OBVIOUS
<1>2. result.end = "completed" /\ result.out = <<item>> /\ result.says = Says(<<CallOf(item)>>)
  BY <1>1 DEF Issue, Completed
<1>3. DOMAIN result.out = {1} /\ result.out[1] = item
  BY <1>2
<1>4. Answered(r, q.ask.tools, result.out, result.says)
  BY <1>2, IssueIs
<1>5. RefusesDone(q.chat, result.out)
  BY <1>3 DEF RefusesDone, ParsedItem
<1>6. q.ask.text # "immediate" => IssuesOnce(q.chat, result.out)
  BY <1>3 DEF IssuesOnce
<1> QED
  BY <1>1, <1>2, <1>4, <1>5, <1>6 DEF GoodAnswer

LEMMA TextItem == Text \in Items /\ Text.type = "message"
<1>1. "" \in Names /\ NoCall \in Ids /\ "message" \in {"function_call", "custom_tool_call", "message", "repeated"}
  BY MessageTypes DEF Names
<1> QED
  BY <1>1 DEF Text, Item, Items

LEMMA TextIs ==
  ASSUME NEW r \in Nat \ {0}, NEW q, q.ask.cmd \in Commands \ {Unread}, q.chat \in Seq(Messages),
         NEW a, a.name \in Names, a.cmd \in Commands \ {Unread}
  PROVE  GoodAnswer(r, q, TextResponse(q, a))
<1>1. PICK parsed, result : parsed = ParseFallbackToolCall(a, q.ask.tools) /\ result = TextResponse(q, a)
  OBVIOUS
<1>2. \/ result \in {Fails("tool_call_parse_error"), Fails("execution_not_started")}
      \/ /\ parsed.kind = "call" /\ RepeatedSuccessfulExecCommand(q.chat, parsed.item)
         /\ result = Completed(<<AlreadyDone(parsed.item.cmd)>>, Says(<<>>))
      \/ /\ parsed.kind = "call" /\ ~ RepeatedSuccessfulExecCommand(q.chat, parsed.item)
         /\ result = Issue(parsed.item)
      \/ q.ask.text = "immediate" /\ result = Issue(Exec(DefaultId("exec_command"), q.ask.cmd))
      \/ result = Completed(<<Text>>, Says(<<>>))
  <2>1. CASE parsed.kind = "error"
    BY <2>1, <1>1 DEF TextResponse
  <2>2. CASE parsed.kind = "call"
    BY <2>2, <1>1 DEF TextResponse
  <2>3. CASE parsed.kind \notin {"error", "call"} /\ parsed.kind = "none" /\ ImmediateExecCommand(q)
    BY <2>3, <1>1 DEF TextResponse, ImmediateExecCommand
  <2>4. CASE parsed.kind \notin {"error", "call"} /\ ~ (parsed.kind = "none" /\ ImmediateExecCommand(q))
    BY <2>4, <1>1 DEF TextResponse
  <2> QED
    BY <2>1, <2>2, <2>3, <2>4
<1>3. parsed.kind = "call" => ParsedItem(parsed.item, q.ask.tools)
  BY <1>1, ParseIs
<1>4. CASE result \in {Fails("tool_call_parse_error"), Fails("execution_not_started")}
  <2>1. "tool_call_parse_error" # "repair" /\ "execution_not_started" # "repair"
    OBVIOUS
  <2> QED
    BY <2>1, <1>1, <1>4, SilentAnswer
<1>5. CASE /\ parsed.kind = "call" /\ RepeatedSuccessfulExecCommand(q.chat, parsed.item)
           /\ result = Completed(<<AlreadyDone(parsed.item.cmd)>>, Says(<<>>))
  <2>1. \E c \in Shown(q.chat) : Equivalent(c, parsed.item.cmd)
    BY <1>5, RepeatedIsShown
  <2>2. PICK e : e = AlreadyDone(parsed.item.cmd)
    OBVIOUS
  <2>3. e \in Items /\ e.type = "repeated" /\ e.cmd = parsed.item.cmd
    <3>1. "" \in Names /\ NoCall \in Ids /\ parsed.item.cmd \in Commands
      BY <1>3, <1>5, MessageTypes DEF Names, ParsedItem
    <3> QED
      BY <3>1, <2>2 DEF AlreadyDone, Item, Items
  <2>4. GoodAnswer(r, q, Completed(<<e>>, Says(<<>>)))
    BY <2>1, <2>3, SilentAnswer
  <2> QED
    BY <2>2, <2>4, <1>1, <1>5
<1>6. CASE /\ parsed.kind = "call" /\ ~ RepeatedSuccessfulExecCommand(q.chat, parsed.item)
           /\ result = Issue(parsed.item)
  <2>1. PICK item : item = parsed.item
    OBVIOUS
  <2>2. IsExec(item) => \A c \in Shown(q.chat) : ~ Equivalent(c, item.cmd)
    BY <2>1, <1>6, RepeatedIsShown
  <2>3. ParsedItem(item, q.ask.tools)
    BY <2>1, <1>3, <1>6
  <2>4. GoodAnswer(r, q, Issue(item))
    BY <2>2, <2>3, IssuingAnswer
  <2> QED
    BY <2>1, <2>4, <1>1, <1>6
<1>7. CASE q.ask.text = "immediate" /\ result = Issue(Exec(DefaultId("exec_command"), q.ask.cmd))
  <2>1. "exec_command" \in Names /\ ExecName("exec_command", q.ask.tools)
    BY DEF Names, ExecName
  <2>2. PICK id \in Ids : id = DefaultId("exec_command")
    BY <2>1, DefaultIds
  <2>3. PICK item : item = Exec(id, q.ask.cmd)
    OBVIOUS
  <2>4. item \in Items /\ item.type = "function_call" /\ item.id = id /\ item.cmd = q.ask.cmd /\ IsExec(item)
    BY <2>3, ExecItem
  <2>5. ParsedItem(item, q.ask.tools)
    BY <2>1, <2>2, <2>4 DEF ParsedItem
  <2>6. GoodAnswer(r, q, Issue(item))
    BY <2>5, <1>7, IssuingAnswer
  <2> QED
    BY <2>2, <2>3, <2>6, <1>1, <1>7
<1>8. CASE result = Completed(<<Text>>, Says(<<>>))
  <2>1. Text \in Items /\ Text.type \notin {"function_call", "repeated"}
    BY TextItem
  <2> QED
    BY <2>1, <1>1, <1>8, SilentAnswer
<1> QED
  BY <1>2, <1>4, <1>5, <1>6, <1>7, <1>8

\* chatToResponses, whatever the model answers.
LEMMA ResponseIs ==
  ASSUME NEW r \in Nat \ {0}, NEW q, q.ask \in Asks, q.chat \in Seq(Messages), NEW a \in Answers
  PROVE  GoodAnswer(r, q, ChatToResponses(r, q, a))
<1>1. q.ask.cmd \in Commands \ {Unread} /\ a.name \in Names /\ a.cmd \in Commands \ {Unread}
  BY AskAssumption, AnswerAssumption DEF Names
<1>2. PICK result : result = ChatToResponses(r, q, a)
  OBVIOUS
<1>3. CASE a.form \in {"down", "broken"} \/ (a.form = "malformed" /\ ~ q.ask.stream)
  <2>1. result = Fails(UpstreamFailure(q, a))
    BY <1>2, <1>3 DEF ChatToResponses
  <2>2. UpstreamFailure(q, a) # "repair"
    BY DEF UpstreamFailure
  <2> QED
    BY <2>1, <2>2, <1>2, SilentAnswer
<1>4. CASE a.form = "calls" /\ ~ q.ask.stream
  <2>1. result = NativeResponse(r, q.chat, a)
    BY <1>2, <1>4 DEF ChatToResponses
  <2>2. PICK msgs, tools : msgs \in Seq(Messages) /\ msgs = q.chat /\ tools = q.ask.tools
    OBVIOUS
  <2>3. LET res == NativeResponse(r, msgs, a)
        IN  /\ res.end = "completed" /\ Answered(r, tools, res.out, res.says)
            /\ IssuesOnce(msgs, res.out) /\ RefusesDone(msgs, res.out)
    BY <2>2, NativeIs
  <2>4. /\ result.end = "completed" /\ Answered(r, tools, result.out, result.says)
        /\ IssuesOnce(msgs, result.out) /\ RefusesDone(msgs, result.out)
    BY <2>1, <2>2, <2>3
  <2> QED
    BY <2>2, <2>4, <1>2 DEF GoodAnswer
<1>5. CASE q.ask.stream /\ q.ask.tools = {} /\ a.form \notin {"down", "broken"}
  <2>1. result = Completed(<<Text>>, Says(<<>>))
    BY <1>2, <1>5 DEF ChatToResponses
  <2>2. Text \in Items /\ Text.type \notin {"function_call", "repeated"}
    BY TextItem
  <2> QED
    BY <2>1, <2>2, <1>2, SilentAnswer
<1>6. CASE /\ ~ (a.form \in {"down", "broken"} \/ (a.form = "malformed" /\ ~ q.ask.stream))
           /\ ~ (a.form = "calls" /\ ~ q.ask.stream)
           /\ ~ (q.ask.stream /\ q.ask.tools = {} /\ a.form \notin {"down", "broken"})
  <2>1. PICK b : b = IF a.form \in {"calls", "malformed"} THEN [a EXCEPT !.form = "text"] ELSE a
    OBVIOUS
  <2>2. result = TextResponse(q, b)
    BY <2>1, <1>2, <1>6 DEF ChatToResponses
  <2>3. b.name = a.name /\ b.cmd = a.cmd
    <3>1. {"name", "cmd"} \subseteq DOMAIN a
      BY AnswerAssumption
    <3> QED
      BY <3>1, <2>1
  <2>4. GoodAnswer(r, q, TextResponse(q, b))
    BY <2>3, <1>1, TextIs
  <2> QED
    BY <2>2, <2>4, <1>2
<1> QED
  BY <1>3, <1>4, <1>5, <1>6

\* Chat completions refuse nothing.
NothingRefused(result) == \A i \in DOMAIN result.out : result.out[i].type # "repeated"

LEMMA NormalIs ==
  ASSUME NEW q, NEW a \in Answers
  PROVE  LET parsed == NormalizeChat(q, a)
         IN  parsed.kind = "call" => parsed.item.type # "repeated"
<1>1. PICK parsed, tools : parsed = ParseFallbackToolCall(a, tools) /\ tools = q.ask.tools
  OBVIOUS
<1>2. a.name \in Names /\ a.cmd \in Commands \ {Unread}
  BY AnswerAssumption DEF Names
<1>3. parsed.kind = "call" => ParsedItem(parsed.item, tools)
  BY <1>1, <1>2, ParseIs
<1>4. parsed.kind = "call" => parsed.item.type # "repeated"
  BY <1>3 DEF ParsedItem
<1>5. NotACall.kind # "call"
  BY DEF NotACall
<1>6. PICK normal : normal = NormalizeChat(q, a)
  OBVIOUS
<1>7. normal \in {NotACall, parsed}
  BY <1>1, <1>6 DEF NormalizeChat
<1>8. normal.kind = "call" => normal.item.type # "repeated"
  BY <1>4, <1>5, <1>7
<1> QED
  BY <1>6, <1>8

LEMMA OneItem ==
  ASSUME NEW item, item.type # "repeated"
  PROVE  NothingRefused(Completed(<<item>>, Says(<<>>)))
<1>0. PICK out : out = <<item>>
  OBVIOUS
<1>1. out = <<item>> /\ DOMAIN out = {1} /\ out[1] = item
  BY <1>0
<1>2. Completed(out, Says(<<>>)).out = out
  BY DEF Completed
<1> QED
  BY <1>1, <1>2 DEF NothingRefused

LEMMA ChatRefusesNothing ==
  ASSUME NEW q, NEW a \in Answers
  PROVE  NothingRefused(ChatAnswer(q, a)) /\ NothingRefused(RepairAnswer(q, a))
<1>1. \A why : NothingRefused(Fails(why))
  <2>1. \A why : Fails(why).out = <<>>
    BY DEF Fails
  <2> QED
    BY <2>1 DEF NothingRefused
<1>2. NothingRefused(Passed)
  BY OneItem, TextItem DEF Passed
<1>3. NothingRefused([Passed EXCEPT !.end = "repair"])
  <2>1. [Passed EXCEPT !.end = "repair"].out = Passed.out
    BY DEF Passed, Completed
  <2> QED
    BY <2>1, <1>2 DEF NothingRefused
<1>4. NothingRefused(Completed(<<Exec(DefaultId("exec_command"), a.cmd)>>, Says(<<>>)))
  <2>1. Exec(DefaultId("exec_command"), a.cmd).type = "function_call"
    BY DEF Exec, Item
  <2> QED
    BY <2>1, OneItem
<1>5. NothingRefused(ChatAnswer(q, a))
  <2>1. PICK parsed : parsed = NormalizeChat(q, a)
    OBVIOUS
  <2>2. parsed.kind = "call" => NothingRefused(Completed(<<parsed.item>>, Says(<<>>)))
    BY <2>1, NormalIs, OneItem
  <2> QED
    BY <2>1, <2>2, <1>1, <1>2, <1>3, <1>4 DEF ChatAnswer
<1>6. NothingRefused(RepairAnswer(q, a))
  <2>1. PICK parsed : parsed = NormalizeChat(q, a)
    OBVIOUS
  <2>2. parsed.kind = "call" => NothingRefused(Completed(<<parsed.item>>, Says(<<>>)))
    BY <2>1, NormalIs, OneItem
  <2> QED
    BY <2>1, <2>2, <1>1, <1>2 DEF RepairAnswer
<1> QED
  BY <1>5, <1>6

(***************************************************************************)
(* The conversation of a request: what it shows to have succeeded did      *)
(* succeed, and as long as it is kept whole it shows everything that did.  *)
(***************************************************************************)
Conversation(r, q) ==
  /\ q.chat \in Seq(Messages)
  /\ \A i \in DOMAIN q.chat : KnownCalls(q.chat[i], r - 1, q.ask.tools)
  /\ Shown(q.chat) \subseteq q.done
  /\ q.kept => q.done \subseteq Shown(q.chat)

RefusesFairly(q) ==
  \A i \in DOMAIN q.out : q.out[i].type = "repeated" => \E c \in q.done : Equivalent(c, q.out[i].cmd)

GivesOnce(q) ==
  ~ q.ask.chat /\ q.kept /\ q.ask.text # "immediate" =>
    /\ \A i, j \in DOMAIN q.out :
         IsExec(q.out[i]) /\ IsExec(q.out[j]) /\ i # j => ~ Equivalent(q.out[i].cmd, q.out[j].cmd)
    /\ \A i \in DOMAIN q.out : IsExec(q.out[i]) => \A c \in q.done : ~ Equivalent(c, q.out[i].cmd)

Talk(r, q) ==
  /\ q.ask \in Asks /\ (q.pc = "repair" => q.ask.chat)
  /\ ~ q.ask.chat => Answered(r, q.ask.tools, q.out, q.says)
  /\ q.pc # "end" \/ q.end = "completed" => Conversation(r, q)
  /\ RefusesFairly(q) /\ GivesOnce(q)

TalkInv ==
  /\ \A id \in DOMAIN store : store[id] = Append(req[id].chat, req[id].says)
  /\ \A r \in DOMAIN req : Talk(r, req[r])

LEMMA NewTalk ==
  ASSUME NEW r \in Nat \ {0}, NEW q, q.ask \in Asks, q.out = <<>>, q.says = Says(<<>>), q.pc # "repair",
         q.pc # "end" \/ q.end = "completed" => Conversation(r, q)
  PROVE  Talk(r, q)
<1>1. DOMAIN q.out = {}
  OBVIOUS
<1>2. Answered(r, q.ask.tools, q.out, q.says)
  BY NoCalls
<1> QED
  BY <1>1, <1>2 DEF Talk, RefusesFairly, GivesOnce

LEMMA KnownLater ==
  ASSUME NEW p \in Nat, NEW r \in Nat, p <= r, NEW m, NEW tools, KnownCalls(m, p, tools)
  PROVE  KnownCalls(m, r, tools)
<1>1. \A x \in 1..p : x \in 1..r
  OBVIOUS
<1> QED
  BY <1>1 DEF KnownCalls, KnownId

LEMMA CompactKeeps ==
  ASSUME NEW r, NEW tools, NEW msgs \in Seq(Messages),
         \A i \in DOMAIN msgs : KnownCalls(msgs[i], r, tools)
  PROVE  LET chat == CompactChatPrompt(msgs)
         IN  /\ chat \in Seq(Messages) /\ Shown(chat) \subseteq Shown(msgs)
             /\ \A i \in DOMAIN chat : KnownCalls(chat[i], r, tools)
<1>1. PICK chat, h, d : chat = CompactChatPrompt(msgs) /\ CutAt(chat, msgs, h, d)
  BY CompactShowsLess
<1>2. Shown(chat) \subseteq Shown(msgs)
  BY <1>1, CutShowsLess
<1>3. chat \in Seq(Messages) /\ DOMAIN chat = 1..Len(chat) /\ Len(chat) \in Nat /\ h \in Nat
  BY <1>1 DEF CutAt
<1>4. ASSUME NEW i \in DOMAIN chat PROVE KnownCalls(chat[i], r, tools)
  <2>1. i \in 1..h \/ i \in (h + 1)..Len(chat)
    BY <1>3
  <2>2. CASE i \in 1..h
    <3>1. DOMAIN chat[i].calls = {}
      BY <2>2, <1>1 DEF CutAt, Quiet
    <3> QED
      BY <3>1 DEF KnownCalls
  <2>3. CASE i \in (h + 1)..Len(chat)
    BY <2>3, <1>1 DEF CutAt
  <2> QED
    BY <2>1, <2>2, <2>3
<1> QED
  BY <1>1, <1>2, <1>3, <1>4

LEMMA OpenedIs ==
  ASSUME NEW ask, NEW prev, NEW results, NEW q, q = Opened(ask, prev, results)
  PROVE  /\ q.ask = ask /\ q.prev = prev /\ q.results = results /\ q.pc = "upstream" /\ q.end = "none"
         /\ q.out = <<>> /\ q.says = Says(<<>>) /\ q.done = DoneBefore(prev, results)
         /\ q.kept = (prev = None \/ (req[prev].kept /\ Remembered(req[prev].says, req[prev].out)))
         /\ DOMAIN q = Fields
  BY DEF Opened, Fields

\* What goes to the model, before it is compacted.
IsPrompt(ask, prev, results, q, msgs) ==
  /\ ask \in Asks /\ prev \in {None} \cup MayContinue /\ results \in Replies(prev)
  /\ prev # None => ask.tools = req[prev].ask.tools /\ prev \in DOMAIN store
  /\ q = Opened(ask, prev, results)
  /\ msgs = ResponsesToChat(q, IF prev = None THEN <<>> ELSE store[prev])

LEMMA PromptIs ==
  ASSUME GatewayInv, TalkInv, NEW ask, NEW prev, NEW results, NEW q, NEW msgs,
         IsPrompt(ask, prev, results, q, msgs)
  PROVE  /\ msgs \in Seq(Messages) /\ \A i \in DOMAIN msgs : KnownCalls(msgs[i], Len(req), ask.tools)
         /\ Shown(msgs) \subseteq q.done /\ (q.kept => q.done \subseteq Shown(msgs))
<1> USE DEF IsPrompt
<1>0. /\ q.prev = prev /\ q.results = results /\ q.done = DoneBefore(prev, results)
      /\ q.kept = (prev = None \/ (req[prev].kept /\ Remembered(req[prev].says, req[prev].out)))
  BY OpenedIs
<1>1. Len(req) \in Nat /\ DOMAIN req = 1..Len(req)
  BY RequestsAreFinite DEF GatewayInv
<1>2. CASE prev = None
  <2>1. results = <<>> /\ q.done = {}
    BY <1>0, <1>2 DEF Replies, DoneBefore
  <2>2. msgs = ResponsesToChat(q, <<>>)
    BY <1>2
  <2>3. msgs \in Seq(Messages) /\ Shown(msgs) = {} /\ \A i \in DOMAIN msgs : msgs[i].calls = <<>>
    BY <2>1, <2>2, <1>0, <1>2, Opening
  <2>4. \A i \in DOMAIN msgs : DOMAIN msgs[i].calls = {}
    BY <2>3
  <2>5. \A i \in DOMAIN msgs : KnownCalls(msgs[i], Len(req), ask.tools)
    BY <2>4 DEF KnownCalls
  <2> QED
    BY <2>1, <2>3, <2>5
<1>3. CASE prev # None
  <2>1. /\ prev \in DOMAIN req /\ req[prev].end = "completed" /\ ~ req[prev].ask.chat
        /\ prev \in Nat \ {0} /\ prev <= Len(req)
    BY <1>1, <1>3 DEF MayContinue
  <2>2. Talk(prev, req[prev]) /\ store[prev] = Append(req[prev].chat, req[prev].says)
    BY <2>1, <1>3 DEF TalkInv
  <2>3. PICK tools : tools = req[prev].ask.tools /\ tools = ask.tools
    BY <1>3
  <2>4. Answered(prev, tools, req[prev].out, req[prev].says) /\ Conversation(prev, req[prev])
    BY <2>1, <2>2, <2>3 DEF Talk
  <2>5. /\ req[prev].chat \in Seq(Messages)
        /\ \A i \in DOMAIN req[prev].chat : KnownCalls(req[prev].chat[i], prev - 1, tools)
        /\ Shown(req[prev].chat) \subseteq req[prev].done
        /\ req[prev].kept => req[prev].done \subseteq Shown(req[prev].chat)
    BY <2>3, <2>4 DEF Conversation
  <2>6. msgs = ResponsesToChat(q, Append(req[prev].chat, req[prev].says))
    BY <2>2, <1>3
  <2>7. /\ msgs \in Seq(Messages) /\ \A i \in DOMAIN msgs : KnownCalls(msgs[i], prev, tools)
        /\ Shown(msgs) \subseteq DoneBefore(prev, q.results)
        /\ req[prev].done \subseteq Shown(req[prev].chat) /\ Remembered(req[prev].says, req[prev].out)
              => DoneBefore(prev, q.results) \subseteq Shown(msgs)
    BY <2>1, <2>4, <2>5, <2>6, <1>0, Continued
  <2>8. \A i \in DOMAIN msgs : KnownCalls(msgs[i], Len(req), tools)
    BY <2>1, <2>7, <1>1, KnownLater
  <2> QED
    BY <2>3, <2>5, <2>7, <2>8, <1>0, <1>3
<1> QED
  BY <1>2, <1>3

LEMMA ArriveTalks ==
  ASSUME GatewayInv, TalkInv, NEW ask \in Asks, NEW prev \in {None} \cup MayContinue,
         NEW results \in Replies(prev), Arrive(ask, prev, results)
  PROVE  TalkInv'
<1>0. PICK n \in Nat \ {0} : n = Len(req) + 1 /\ n - 1 = Len(req)
  <2>1. Len(req) \in Nat
    BY RequestsAreFinite DEF GatewayInv
  <2> QED
    BY <2>1
<1>1. PICK q : q = Opened(ask, prev, results)
  OBVIOUS
<1>2. /\ q.ask = ask /\ q.prev = prev /\ q.results = results /\ q.pc = "upstream" /\ q.end = "none"
      /\ q.out = <<>> /\ q.says = Says(<<>>) /\ DOMAIN q = Fields
  BY <1>1, OpenedIs
<1>3. \A x, why : DOMAIN x = Fields =>
        /\ Ended(x, why).ask = x.ask /\ Ended(x, why).out = x.out /\ Ended(x, why).says = x.says
        /\ Ended(x, why).pc = "end" /\ Ended(x, why).end = why
  BY DEF Ended, Fields
<1>4. PICK x : req' = Append(req, x) /\ Talk(n, x)
  <2>1. CASE req' = Append(req, Ended(q, "previous_not_found"))
    <3>1. PICK x : x = Ended(q, "previous_not_found")
      OBVIOUS
    <3>2. /\ x.ask \in Asks /\ x.out = <<>> /\ x.says = Says(<<>>) /\ x.pc = "end"
          /\ x.end = "previous_not_found"
      BY <3>1, <1>2, <1>3
    <3>3. Talk(n, x)
      BY <3>2, NewTalk
    <3> QED
      BY <3>1, <3>3, <2>1
  <2>2. ASSUME NEW msgs, NEW chat, NEW asked,
               msgs = ResponsesToChat(q, IF prev = None THEN <<>> ELSE store[prev]),
               chat = (IF ask.chat THEN msgs ELSE CompactChatPrompt(msgs)),
               asked = [q EXCEPT !.chat = chat, !.kept = @ /\ chat = msgs],
               IF prev = None THEN store' = store ELSE Get(prev, TRUE),
               req' = Append(req, IF TooLarge(chat) THEN Ended(asked, "context_window_exceeded")
                                                     ELSE asked)
        PROVE  \E x : req' = Append(req, x) /\ Talk(n, x)
    <3>1. prev # None => ask.tools = req[prev].ask.tools /\ prev \in DOMAIN store
      BY <2>2 DEF Arrive, Get, Fresh
    <3>2. /\ msgs \in Seq(Messages) /\ \A i \in DOMAIN msgs : KnownCalls(msgs[i], n - 1, ask.tools)
          /\ Shown(msgs) \subseteq q.done /\ (q.kept => q.done \subseteq Shown(msgs))
      <4>1. IsPrompt(ask, prev, results, q, msgs)
        BY <3>1, <2>2, <1>1 DEF IsPrompt
      <4>2. /\ msgs \in Seq(Messages) /\ \A i \in DOMAIN msgs : KnownCalls(msgs[i], Len(req), ask.tools)
            /\ Shown(msgs) \subseteq q.done /\ (q.kept => q.done \subseteq Shown(msgs))
        BY <4>1, PromptIs
      <4> QED
        BY <4>2, <1>0
    <3>3. /\ chat \in Seq(Messages) /\ Shown(chat) \subseteq Shown(msgs)
          /\ \A i \in DOMAIN chat : KnownCalls(chat[i], n - 1, ask.tools)
      <4>1. CASE ask.chat
        BY <4>1, <3>2, <2>2
      <4>2. CASE ~ ask.chat
        BY <4>2, <3>2, <2>2, CompactKeeps
      <4> QED
        BY <4>1, <4>2
    <3>4. /\ asked.ask = ask /\ asked.out = <<>> /\ asked.says = Says(<<>>) /\ asked.pc = "upstream"
          /\ asked.chat = chat /\ asked.done = q.done /\ asked.kept = (q.kept /\ chat = msgs)
          /\ DOMAIN asked = Fields
      BY <2>2, <1>2 DEF Fields
    <3>5. Conversation(n, asked)
      BY <3>2, <3>3, <3>4 DEF Conversation
    <3>6. Talk(n, asked)
      BY <3>4, <3>5, NewTalk
    <3>7. PICK e : e = Ended(asked, "context_window_exceeded")
      OBVIOUS
    <3>8. Talk(n, e)
      <4>1. /\ e.ask \in Asks /\ e.out = <<>> /\ e.says = Says(<<>>) /\ e.pc = "end"
            /\ e.end = "context_window_exceeded"
        BY <3>4, <3>7, <1>3
      <4> QED
        BY <4>1, NewTalk
    <3> QED
      BY <3>6, <3>7, <3>8, <2>2
  <2> QED
    BY <2>1, <2>2, <1>1 DEF Arrive
<1>5. DOMAIN req' = DOMAIN req \cup {n} /\ req'[n] = x /\ \A p \in DOMAIN req : req'[p] = req[p]
  <2>1. PICK S : req \in Seq(S)
    BY DEF GatewayInv, ReqInv
  <2>2. /\ Len(req) \in Nat /\ DOMAIN req = 1..Len(req)
        /\ DOMAIN Append(req, x) = 1..(Len(req) + 1) /\ Append(req, x)[Len(req) + 1] = x
        /\ \A i \in 1..Len(req) : Append(req, x)[i] = req[i]
    BY <2>1, SeqGrows
  <2> QED
    BY <2>2, <1>0, <1>4
<1>6. \A id \in DOMAIN store' : id \in DOMAIN store /\ id \in DOMAIN req /\ store'[id] = store[id]
  BY DEF Arrive, Get, GatewayInv, StoredInv, MayContinue
<1>7. \A r \in DOMAIN req' : Talk(r, req'[r])
  BY <1>4, <1>5 DEF TalkInv
<1>8. \A id \in DOMAIN store' : store'[id] = Append(req'[id].chat, req'[id].says)
  BY <1>5, <1>6 DEF TalkInv
<1> QED
  BY <1>7, <1>8 DEF TalkInv

LEMMA FinishTalks ==
  ASSUME GatewayInv, TalkInv, NEW r \in DOMAIN req, req[r].pc # "end", NEW result, Finish(r, result),
         UNCHANGED <<store, stored, expired>>,
         ~ req[r].ask.chat => GoodAnswer(r, req[r], result),
         req[r].ask.chat => NothingRefused(result)
  PROVE  TalkInv'
<1>0. Talk(r, req[r]) /\ Conversation(r, req[r]) /\ Fields \subseteq DOMAIN req[r]
  BY DEF TalkInv, Talk, GatewayInv, ReqInv
<1>1. PICK pc : pc = (CASE result.end = "repair" -> "repair"
                        [] result.end = "completed" /\ ~ req[r].ask.chat -> "store"
                        [] OTHER -> "end")
  OBVIOUS
<1>2. PICK end : end = (IF pc = "repair" THEN "none" ELSE result.end)
  OBVIOUS
<1>3. req' = [req EXCEPT ![r].pc = pc, ![r].out = result.out, ![r].says = result.says,
                         ![r].end = end]
  BY <1>1, <1>2, Zenon DEF Finish
<1>4. pc = "repair" => req[r].ask.chat
  <2>1. CASE result.end = "repair"
    BY <2>1 DEF GoodAnswer
  <2>2. CASE result.end # "repair"
    BY <2>2, <1>1
  <2> QED
    BY <2>1, <2>2
<1>5. PICK S : req \in Seq(S)
  BY DEF GatewayInv, ReqInv
<1>6. /\ DOMAIN req' = DOMAIN req /\ \A p \in DOMAIN req \ {r} : req'[p] = req[p]
      /\ req'[r].pc = pc /\ req'[r].end = end /\ req'[r].ask = req[r].ask /\ req'[r].chat = req[r].chat
      /\ req'[r].done = req[r].done /\ req'[r].kept = req[r].kept
      /\ req'[r].out = result.out /\ req'[r].says = result.says
  BY <1>0, <1>3, <1>5 DEF Fields
<1>7. PICK q : q = req'[r]
  OBVIOUS
<1>8. Conversation(r, q)
  BY <1>0, <1>6, <1>7 DEF Conversation
<1>9. CASE ~ req[r].ask.chat
  <2>1. /\ Answered(r, q.ask.tools, q.out, q.says) /\ RefusesDone(q.chat, q.out)
        /\ q.ask.text # "immediate" => IssuesOnce(q.chat, q.out)
    BY <1>6, <1>7, <1>9 DEF GoodAnswer
  <2>2. RefusesFairly(q)
    BY <2>1, <1>8 DEF RefusesDone, RefusesFairly, Conversation
  <2>3. GivesOnce(q)
    BY <2>1, <1>8 DEF IssuesOnce, GivesOnce, Conversation
  <2>4. Talk(r, q)
    BY <2>1, <2>2, <2>3, <1>0, <1>4, <1>6, <1>7, <1>8 DEF Talk
  <2> QED
    BY <2>4, <1>6, <1>7 DEF TalkInv, GatewayInv, StoredInv, MayContinue
<1>10. CASE req[r].ask.chat
  <2>1. RefusesFairly(q) /\ GivesOnce(q)
    BY <1>6, <1>7, <1>10 DEF NothingRefused, RefusesFairly, GivesOnce
  <2>2. Talk(r, q)
    BY <2>1, <1>0, <1>6, <1>7, <1>8, <1>10 DEF Talk
  <2> QED
    BY <2>2, <1>6, <1>7 DEF TalkInv, GatewayInv, StoredInv, MayContinue
<1> QED
  BY <1>9, <1>10

LEMMA StoreTalks ==
  ASSUME GatewayInv, TalkInv, NEW r \in DOMAIN req, StoreResponse(r)
  PROVE  TalkInv'
<1>0. /\ Talk(r, req[r]) /\ Fields \subseteq DOMAIN req[r] /\ req[r].pc = "store"
      /\ req[r].end = "completed" /\ req' = [req EXCEPT ![r].pc = "end"]
  BY DEF TalkInv, GatewayInv, ReqInv, StoreResponse
<1>1. /\ DOMAIN req' = DOMAIN req /\ \A p \in DOMAIN req \ {r} : req'[p] = req[p]
      /\ req'[r].pc = "end" /\ req'[r].end = "completed" /\ req'[r].ask = req[r].ask
      /\ req'[r].chat = req[r].chat /\ req'[r].done = req[r].done /\ req'[r].kept = req[r].kept
      /\ req'[r].out = req[r].out /\ req'[r].says = req[r].says
  <2>1. PICK S : req \in Seq(S)
    BY DEF GatewayInv, ReqInv
  <2> QED
    BY <2>1, <1>0 DEF Fields
<1>2. Talk(r, req'[r])
  BY <1>0, <1>1 DEF Talk, Conversation, RefusesFairly, GivesOnce
<1>3. \A p \in DOMAIN req' : Talk(p, req'[p])
  BY <1>1, <1>2 DEF TalkInv
<1>4. PICK kept, left :
        /\ kept = (IF Cardinality(DOMAIN store) >= MaxEntries THEN Fresh ELSE DOMAIN store)
        /\ left = (IF Cardinality(kept) >= MaxEntries THEN kept \ {Victim(kept)} ELSE kept)
        /\ store' = [o \in left \cup {r} |-> IF o = r THEN Append(req[r].chat, req[r].says) ELSE store[o]]
  BY DEF StoreResponse, Set
<1>5. left \subseteq DOMAIN store /\ DOMAIN store \subseteq DOMAIN req
  BY <1>4 DEF Fresh, GatewayInv, StoredInv, MayContinue
<1>6. ASSUME NEW id \in DOMAIN store' PROVE store'[id] = Append(req'[id].chat, req'[id].says)
  <2>1. CASE id = r
    BY <2>1, <1>1, <1>4
  <2>2. CASE id # r
    <3>1. store'[id] = store[id] /\ id \in DOMAIN store /\ id \in DOMAIN req
      BY <2>2, <1>4, <1>5
    <3>2. store[id] = Append(req[id].chat, req[id].says)
      BY <3>1 DEF TalkInv
    <3> QED
      BY <3>1, <3>2, <2>2, <1>1
  <2> QED
    BY <2>1, <2>2
<1> QED
  BY <1>3, <1>6 DEF TalkInv

LEMMA NextTalks ==
  ASSUME GatewayInv, TalkInv, [Next]_vars
  PROVE  TalkInv'
<1>0. DOMAIN req \subseteq Nat \ {0}
  BY RequestsAreFinite DEF GatewayInv
<1>1. CASE UNCHANGED vars
  BY <1>1 DEF vars, TalkInv
<1>2. ASSUME NEW ask \in Asks, NEW prev \in {None} \cup MayContinue,
             NEW results \in Replies(prev), Arrive(ask, prev, results)
      PROVE  TalkInv'
  BY <1>2, ArriveTalks
<1>3. ASSUME NEW r \in DOMAIN req, NEW a \in Answers, Answer(r, a)
      PROVE  TalkInv'
  <2>1. req[r].pc = "upstream" /\ UNCHANGED <<store, stored, expired>>
    BY <1>3 DEF Answer
  <2>2. req[r].ask \in Asks /\ req[r].chat \in Seq(Messages)
    BY <2>1 DEF TalkInv, Talk, Conversation
  <2>3. PICK result :
          result = IF req[r].ask.chat THEN ChatAnswer(req[r], a) ELSE ChatToResponses(r, req[r], a)
    OBVIOUS
  <2>4. Finish(r, result)
    BY <2>3, <1>3 DEF Answer
  <2>5. ~ req[r].ask.chat => GoodAnswer(r, req[r], result)
    BY <2>2, <2>3, <1>0, ResponseIs
  <2>6. req[r].ask.chat => NothingRefused(result)
    BY <2>3, ChatRefusesNothing
  <2> QED
    BY <2>1, <2>4, <2>5, <2>6, FinishTalks
<1>4. ASSUME NEW r \in DOMAIN req, NEW a \in Answers, Repair(r, a)
      PROVE  TalkInv'
  <2>1. req[r].pc = "repair" /\ UNCHANGED <<store, stored, expired>>
    BY <1>4 DEF Repair
  <2>2. req[r].ask.chat
    BY <2>1 DEF TalkInv, Talk
  <2>3. PICK result : result = RepairAnswer(req[r], a)
    OBVIOUS
  <2>4. Finish(r, result) /\ NothingRefused(result)
    BY <2>3, <1>4, ChatRefusesNothing DEF Repair
  <2> QED
    BY <2>1, <2>2, <2>4, FinishTalks
<1>5. ASSUME NEW r \in DOMAIN req, StoreResponse(r)
      PROVE  TalkInv'
  BY <1>5, StoreTalks
<1>6. CASE Expire
  BY <1>6 DEF Expire, TalkInv
<1> QED
  BY <1>1, <1>2, <1>3, <1>4, <1>5, <1>6 DEF Next

LEMMA InitTalks ==
  ASSUME Init
  PROVE  TalkInv
<1>1. DOMAIN store = {} /\ DOMAIN req = {}
  BY DEF Init
<1> QED
  BY <1>1 DEF TalkInv

\* A command is refused as already completed only if it, or one that writes
\* the same content to a file of the same name, did succeed in this
\* conversation (repeatedSuccessfulExecCommand): the last call with an
\* output's identifier is the call the output answers, because identifiers of
\* native calls are new and one found in text tells whether it was executed,
\* and compaction never leaves an output with a call it does not belong to.
THEOREM RefusedSafe == Spec => []RefusedOnlyIfDone
<1>1. TalkInv => RefusedOnlyIfDone
  BY DEF TalkInv, Talk, RefusesFairly, RefusedOnlyIfDone
<1> QED
  BY <1>1, InitSafe, NextSafe, InitTalks, NextTalks, PTL DEF Spec

\* While the kept conversation shows every call that was issued, no response
\* gives a command twice or one that has already succeeded, unless the user
\* dictated it (chatToResponses, duplicateExecCommandItem): such a
\* conversation shows every success, and every item issued is compared with
\* all of them and with the items before it.
THEOREM OnceSafe == Spec => []NoCommandTwice
<1>1. TalkInv => NoCommandTwice
  BY DEF TalkInv, Talk, GivesOnce, NoCommandTwice
<1> QED
  BY <1>1, InitSafe, NextSafe, InitTalks, NextTalks, PTL DEF Spec
=============================================================================
