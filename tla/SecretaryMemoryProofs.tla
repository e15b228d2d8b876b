----------------------- MODULE SecretaryMemoryProofs -----------------------
(***************************************************************************)
(* Proofs about SecretaryMemory for any set of questions, any retention    *)
(* and any number of conversations, exchanges and faults.                  *)
(***************************************************************************)
EXTENDS SecretaryMemory, FiniteSetTheorems, WellFoundedInduction, TLAPS

(***************************************************************************)
(* The operators.                                                          *)
(***************************************************************************)
\* A non-empty set of numbers has a least element.
LEMMA LeastExists ==
  ASSUME NEW S, S \subseteq Nat, S # {}
  PROVE  \E x \in S : \A y \in S : x <= y
<1>1. PICK x \in S : \A y \in S : ~ (<<y, x>> \in OpToRel(<, Nat))
  BY NatLessThanWellFounded, WFMin
<1>2. \A y \in S : x <= y
  <2> SUFFICES ASSUME NEW y \in S, y < x PROVE FALSE
    OBVIOUS
  <2>1. <<y, x>> \in OpToRel(<, Nat)
    BY DEF OpToRel
  <2> QED
    BY <1>1, <2>1
<1> QED
  BY <1>2

\* The last record of a file whose numbers are bounded is one of its records.
LEMMA LatestIsIn ==
  ASSUME NEW S, S # {}, \A r \in S : r.id \in Nat, NEW n \in Nat, \A r \in S : r.id <= n
  PROVE  Latest(S) \in S /\ \A s \in S : s.id <= Latest(S).id
<1> DEFINE D == {n - r.id : r \in S}
<1>1. D \subseteq Nat /\ D # {}
  OBVIOUS
<1>2. PICK d \in D : \A e \in D : d <= e
  BY <1>1, LeastExists
<1>3. PICK r \in S : d = n - r.id
  OBVIOUS
<1>4. \A s \in S : s.id <= r.id
  <2> SUFFICES ASSUME NEW s \in S PROVE s.id <= r.id
    OBVIOUS
  <2>1. n - r.id <= n - s.id
    BY <1>2, <1>3
  <2> QED
    BY <2>1
<1> QED
  BY <1>4 DEF Latest

\* The characters of a finite history are finitely many, and fewer turns have
\* fewer characters.
LEMMA CharactersFinite ==
  ASSUME NEW S, IsFiniteSet(S), \A t \in S : t.q.size \in Nat
  PROVE  IsFiniteSet(Characters(S))
<1> DEFINE F == {{<<t.id, n>> : n \in 1 .. t.q.size} : t \in S}
<1>1. IsFiniteSet(F)
  <2> DEFINE f == [t \in S |-> {<<t.id, n>> : n \in 1 .. t.q.size}]
  <2>1. f \in Surjection(S, F)
    BY DEF Surjection
  <2> HIDE DEF F, f
  <2> QED
    BY <2>1, FS_Surjection
<1>2. ASSUME NEW t \in S PROVE IsFiniteSet({<<t.id, n>> : n \in 1 .. t.q.size})
  <2>1. IsFiniteSet(1 .. t.q.size)
    BY FS_Interval
  <2> DEFINE T == {<<t.id, n>> : n \in 1 .. t.q.size}
             f == [n \in 1 .. t.q.size |-> <<t.id, n>>]
  <2>2. f \in Surjection(1 .. t.q.size, T)
    BY DEF Surjection
  <2>3. IsFiniteSet(T)
    <3> HIDE DEF T, f
    <3> QED
      BY <2>1, <2>2, FS_Surjection
  <2> QED
    BY <2>3
<1>3. \A T \in F : IsFiniteSet(T)
  BY <1>2
<1> QED
  BY <1>1, <1>3, FS_UNION DEF Characters

\* What fits still fits when turns are left out.
LEMMA FitsSubset ==
  ASSUME NEW S, IsFiniteSet(S), \A t \in S : t.q.size \in Nat, Fits(S), NEW T \in SUBSET S
  PROVE  Fits(T) /\ IsFiniteSet(T)
<1>1. IsFiniteSet(T) /\ Cardinality(T) <= Cardinality(S)
  BY FS_Subset
<1>2. Characters(T) \subseteq Characters(S)
  BY DEF Characters
<1>3. Cardinality(Characters(T)) <= Cardinality(Characters(S))
  BY <1>2, CharactersFinite, FS_Subset
<1>4. /\ Cardinality(T) \in Nat /\ Cardinality(S) \in Nat
      /\ Cardinality(Characters(T)) \in Nat /\ Cardinality(Characters(S)) \in Nat
  BY <1>1, CharactersFinite, FS_CardinalityType
<1>5. MaxPairs \in Nat /\ MaxChars \in Nat
  BY MemoryAssumption
<1> QED
  BY <1>1, <1>3, <1>4, <1>5 DEF Fits

\* boundedAt returns turns it was given, and they fit.
LEMMA BoundedFits ==
  ASSUME NEW S, S \subseteq ExchangeType, IsFiniteSet(S)
  PROVE  BoundedAt(S) \subseteq S /\ IsFiniteSet(BoundedAt(S)) /\ Fits(BoundedAt(S))
<1> DEFINE B == BoundedAt(S)
<1>1. B \subseteq Young(S) /\ Young(S) \subseteq S
  BY DEF BoundedAt, Young
<1>2. IsFiniteSet(B) /\ IsFiniteSet(Young(S))
  BY <1>1, FS_Subset
<1>3. \A t \in S : t.q.size \in Nat /\ t.id \in Nat
  BY DEF ExchangeType, QuestionType
<1>4. CASE B = {}
  <2>1. Characters({}) = {}
    BY DEF Characters
  <2>2. Cardinality({}) = 0
    BY FS_EmptySet
  <2>3. MaxPairs \in Nat /\ MaxChars \in Nat
    BY MemoryAssumption
  <2> QED
    BY <1>1, <1>2, <1>4, <2>1, <2>2, <2>3 DEF Fits
<1>5. CASE B # {}
  <2>1. Ids(B) \subseteq Nat /\ Ids(B) # {}
    BY <1>1, <1>3, <1>5 DEF Ids
  <2>2. PICK x \in Ids(B) : \A y \in Ids(B) : x <= y
    BY <2>1, LeastExists
  <2>3. PICK t \in B : t.id = x
    BY DEF Ids
  <2>4. Fits(Since(t, Young(S)))
    BY DEF BoundedAt
  <2>5. B \subseteq Since(t, Young(S))
    BY <1>1, <2>2, <2>3 DEF Since, Ids
  <2>6. Since(t, Young(S)) \subseteq Young(S)
    BY DEF Since
  <2>7. IsFiniteSet(Since(t, Young(S))) /\ \A u \in Since(t, Young(S)) : u.q.size \in Nat
    BY <1>1, <1>2, <1>3, <2>6, FS_Subset
  <2> QED
    BY <1>1, <1>2, <2>4, <2>5, <2>7, FitsSubset
<1> QED
  BY <1>4, <1>5

\* Of a history that fits, boundedAt drops only what has expired.
LEMMA BoundedKeeps ==
  ASSUME NEW S, S \subseteq ExchangeType, IsFiniteSet(S), Fits(S)
  PROVE  \A t \in S \ BoundedAt(S) : Expired(t)
<1> SUFFICES ASSUME NEW t \in Young(S) PROVE t \in BoundedAt(S)
  BY DEF Young
<1>1. Since(t, Young(S)) \subseteq S
  BY DEF Since, Young
<1>2. \A u \in S : u.q.size \in Nat
  BY DEF ExchangeType, QuestionType
<1>3. Fits(Since(t, Young(S)))
  BY <1>1, <1>2, FitsSubset
<1> QED
  BY <1>3 DEF BoundedAt

\* Sources come from those registered; with more than one connected, the
\* question's wishes decide (capabilitiesFor and the fallbacks of reply).
LEMMA RouteSources ==
  ASSUME NEW q \in QuestionType, NEW turns, NEW verdict
  PROVE  LET sources == Route(q, turns, verdict).sources IN
           /\ sources \subseteq Registered
           /\ Cardinality(Registered \ {"web"}) > 1 =>
                /\ sources \cap q.excluded \subseteq {q.only}
                /\ q.only # "" => sources \subseteq {q.only, "web"}
<1> DEFINE others == Registered \ {"web"}
           chosen == CapabilitiesFor(q, turns)
           url == q.url /\ LocalIntent(q) # "memory" /\ "web" \in Registered
           Good(S) == /\ S \subseteq Registered
                      /\ Cardinality(others) > 1 =>
                           S \cap q.excluded \subseteq {q.only} /\ (q.only # "" => S \subseteq {q.only, "web"})
<1>1. q.excluded \subseteq {"Granola", "Jira"}
  BY DEF QuestionType
<1>2. Good({}) /\ (Cardinality(others) = 1 => Good(others))
  <2>1. ASSUME Cardinality(others) = 1 PROVE ~(Cardinality(others) > 1)
    <3> HIDE DEF others
    <3> QED
      BY <2>1
  <2>2. others \subseteq Registered
    OBVIOUS
  <2> QED
    BY <2>1, <2>2
<1>3. Good(chosen)
  <2>1. CASE url
    <3>1. chosen = {"web"}
      BY <2>1 DEF CapabilitiesFor
    <3> QED
      BY <1>1, <2>1, <3>1
  <2>2. CASE ~url /\ q.only # ""
    <3>1. chosen = {n \in {q.only} \cap Registered : Matches(n, q)}
      BY <2>2 DEF CapabilitiesFor
    <3> QED
      BY <3>1
  <2>3. CASE ~url /\ q.only = ""
    <3>1. \/ chosen = {}
          \/ chosen = others /\ Cardinality(others) = 1
          \/ \E earlier : chosen = Matched(q, earlier)
      BY <2>3 DEF CapabilitiesFor
    <3>2. \A earlier : Good(Matched(q, earlier))
      BY <2>3 DEF Matched
    <3> QED
      BY <1>2, <3>1, <3>2
  <2> QED
    BY <2>1, <2>2, <2>3
<1>4. \/ Route(q, turns, verdict).sources = chosen
      \/ Route(q, turns, verdict).sources = {}
      \/ Route(q, turns, verdict).sources = others /\ Cardinality(others) = 1
  BY DEF Route
<1> QED
  BY <1>2, <1>3, <1>4

\* What a question does in its first step, whatever its route: it loads the
\* history, chooses its sources and may call the model; a reply that ends there
\* has been blocked or has failed.
LEMMA AskFacts ==
  ASSUME NEW c \in Conversations, NEW q \in Questions, Ask(c, q)
  PROVE  /\ job = Idle /\ asked < MaxExchanges /\ asked' = asked + 1
         /\ cache' = [cache EXCEPT ![c] = Holding(Loaded(c))]
         /\ UNCHANGED <<clock, file, memory, learning, items, ghosts, faults>>
         /\ \E verdict \in Verdicts, at \in {"memory", "end"}, event \in {"none", "blocked"}, error \in BOOLEAN :
              /\ job' = Answering(c, q, at, Route(q, Loaded(c), verdict).sources, event, error)
              /\ at = "end" => event = "blocked" \/ error
         /\ \/ UNCHANGED prompt
            \/ \E turns \in {{}, Loaded(c)}, recall \in BOOLEAN :
                 \E mem \in {{}, RelevantMemories(q, recall)} :
                   prompt' = Prompt(turns, mem, RelevantKnowledge(q))
<1>1. /\ job = Idle /\ asked < MaxExchanges /\ asked' = asked + 1
      /\ cache' = [cache EXCEPT ![c] = Holding(Loaded(c))]
      /\ UNCHANGED <<clock, file, memory, learning, items, ghosts, faults>>
  BY DEF Ask
<1> DEFINE Begins(verdict) ==
             \E at \in {"memory", "end"}, event \in {"none", "blocked"}, error \in BOOLEAN :
               /\ job' = Answering(c, q, at, Route(q, Loaded(c), verdict).sources, event, error)
               /\ at = "end" => event = "blocked" \/ error
           Prompts == \/ UNCHANGED prompt
                      \/ \E turns \in {{}, Loaded(c)}, recall \in BOOLEAN :
                           \E mem \in {{}, RelevantMemories(q, recall)} :
                             prompt' = Prompt(turns, mem, RelevantKnowledge(q))
<1>2. \E verdict \in Verdicts : Begins(verdict) /\ Prompts
  BY DEF Ask
<1> QED
  BY <1>1, <1>2

(***************************************************************************)
(* Types.                                                                  *)
(***************************************************************************)
\* The records of the learning store and the exchanges are numbered, so that
\* a last record and a last trace exist.
LogInv ==
  /\ \E n \in Nat : \A r \in knowledge : r.id <= n
  /\ \A t \in traces : t.id <= asked
  /\ job # Idle => job.x.id <= asked

\* The last record of an item is one of its records.
LEMMA LastRecord ==
  ASSUME TypeOK, LogInv, NEW k \in Items
  PROVE  /\ Latest(Records(k)) \in knowledge /\ Latest(Records(k)).item = k
         /\ \A r \in Records(k) : r.id <= Latest(Records(k)).id
<1>1. PICK n \in Nat : \A r \in knowledge : r.id <= n
  BY DEF LogInv
<1>2. /\ Records(k) # {} /\ Records(k) \subseteq knowledge
      /\ \A r \in Records(k) : r.id \in Nat /\ r.id <= n
  BY <1>1 DEF Items, Records, TypeOK
<1>3. Latest(Records(k)) \in Records(k) /\ \A r \in Records(k) : r.id <= Latest(Records(k)).id
  BY <1>2, LatestIsIn
<1> QED
  BY <1>3 DEF Records

\* A record is written behind all others.
LEMMA NextIsNew ==
  ASSUME TypeOK, LogInv
  PROVE  NextRecord \in Nat /\ \A r \in knowledge : r.id < NextRecord
<1>1. PICK n \in Nat : \A r \in knowledge : r.id <= n
  BY DEF LogInv
<1>2. CASE knowledge = {}
  BY <1>2 DEF NextRecord
<1>3. CASE knowledge # {}
  <2>1. \A r \in knowledge : r.id \in Nat
    BY DEF TypeOK
  <2>2. Latest(knowledge) \in knowledge /\ \A r \in knowledge : r.id <= Latest(knowledge).id
    BY <1>1, <1>3, <2>1, LatestIsIn
  <2> QED
    BY <1>3, <2>1, <2>2 DEF NextRecord
<1> QED
  BY <1>2, <1>3

\* A reply uses stored exchanges and approved items.
LEMMA UsedIsStored ==
  ASSUME TypeOK, LogInv, NEW q, NEW recall
  PROVE  /\ RelevantMemories(q, recall) \subseteq Ids(memory)
         /\ RelevantKnowledge(q) \subseteq ListKnowledge("approved")
<1>1. RelevantMemories(q, recall) \subseteq Ids(memory)
  BY DEF RelevantMemories, Newest, Ids
<1>2. ASSUME NEW k \in RelevantKnowledge(q) PROVE k \in ListKnowledge("approved")
  <2>1. PICK j \in ListKnowledge("approved") : k = Latest(Records(j)).item
    BY <1>2 DEF RelevantKnowledge, Newest
  <2>2. j \in Items
    BY DEF ListKnowledge
  <2> QED
    BY <2>1, <2>2, LastRecord
<1> QED
  BY <1>1, <1>2

\* Loading a history adds nothing to it.
LEMMA LoadedIsStored ==
  ASSUME NEW c \in Conversations
  PROVE  Loaded(c) \subseteq file[c] \cup cache[c].turns
  BY DEF Loaded, BoundedAt, Young

\* The initial state is well typed.
LEMMA TypeInit == Init => TypeOK /\ LogInv
<1> SUFFICES ASSUME Init PROVE TypeOK /\ LogInv
  OBVIOUS
<1>1. prompt = NoPrompt /\ NoPrompt \in [id : Nat, history : SUBSET Nat, memories : SUBSET Nat,
                                         knowledge : SUBSET Nat, expired : BOOLEAN]
  BY DEF Init, NoPrompt
<1>2. /\ cache \in [Conversations -> [loaded : BOOLEAN, turns : SUBSET ExchangeType]]
      /\ file \in [Conversations -> SUBSET ExchangeType]
      /\ \A c \in Conversations : \A t \in file[c] \cup cache[c].turns : t.conv = c
  BY DEF Init, NotLoaded
<1>3. clock \in 0 .. MaxClock /\ asked \in 0 .. MaxExchanges /\ items \in 0 .. MaxItems /\ faults \in 0 .. MaxFaults
  BY MemoryAssumption DEF Init
<1>4. forgotten \in [exchange : 0 .. asked, item : 0 .. items]
  BY DEF Init
<1>5. LogInv
  BY DEF Init, LogInv
<1> QED
  BY <1>1, <1>2, <1>3, <1>4, <1>5 DEF Init, TypeOK

\* Every reply, command, maintenance pass and restart keeps the types.
LEMMA TypeStep == TypeOK /\ LogInv /\ [Next]_vars => TypeOK' /\ LogInv'
<1> SUFFICES ASSUME TypeOK, LogInv, [Next]_vars PROVE TypeOK' /\ LogInv'
  OBVIOUS
<1> DEFINE CacheType == [Conversations -> [loaded : BOOLEAN, turns : SUBSET ExchangeType]]
           PromptType == [id : Nat, history : SUBSET Nat, memories : SUBSET Nat, knowledge : SUBSET Nat,
                          expired : BOOLEAN]
           RecordType == [id : Nat, item : Nat, status : {"candidate", "approved", "rejected"},
                          topic : Topics, at : Nat]
<1> USE DEF learning, ghosts
<1>a. /\ MaxClock \in Nat /\ MaxExchanges \in Nat /\ MaxItems \in Nat /\ MaxFaults \in Nat
      /\ Questions \subseteq QuestionType /\ CommandText \in QuestionType
  BY MemoryAssumption
<1>n. clock \in Nat /\ asked \in Nat /\ items \in Nat
  BY <1>a DEF TypeOK
<1>f. ASSUME Fault \/ UNCHANGED faults PROVE faults' \in 0 .. MaxFaults
  BY <1>a, <1>f DEF Fault, TypeOK
<1>p. NoPrompt \in PromptType
  BY DEF NoPrompt
<1>l. ASSUME NEW c \in Conversations, cache' = [cache EXCEPT ![c] = Holding(Loaded(c))]
      PROVE  cache' \in CacheType /\ \A d \in Conversations : \A t \in cache'[d].turns : t.conv = d
  <2>1. Holding(Loaded(c)) \in [loaded : BOOLEAN, turns : SUBSET ExchangeType]
    BY LoadedIsStored DEF Holding, TypeOK
  <2>2. \A d \in Conversations : cache'[d].turns \subseteq file[d] \cup cache[d].turns
    BY <1>l, LoadedIsStored DEF Holding, TypeOK
  <2> QED
    BY <1>l, <2>1, <2>2 DEF TypeOK
<1>x. ASSUME NEW c \in Conversations, NEW q \in QuestionType PROVE Exchange(c, q) \in ExchangeType
  BY <1>n DEF Exchange, ExchangeType
<1>o. ASSUME asked' = asked + 1 /\ asked < MaxExchanges /\ UNCHANGED <<forgotten, items>>
      PROVE  asked' \in 0 .. MaxExchanges /\ forgotten' \in [exchange : 0 .. asked', item : 0 .. items']
  <2>1. forgotten.exchange \in 0 .. asked + 1 /\ forgotten.item \in 0 .. items
    BY <1>n DEF TypeOK
  <2>2. forgotten = [exchange |-> forgotten.exchange, item |-> forgotten.item]
    BY DEF TypeOK
  <2> QED
    BY <1>n, <1>a, <1>o, <2>1, <2>2
<1>1. CASE UNCHANGED vars
  BY <1>1 DEF vars, TypeOK, LogInv
<1>2. ASSUME NEW c \in Conversations, NEW q \in Questions, Ask(c, q) PROVE TypeOK' /\ LogInv'
  <2>1. /\ job = Idle /\ asked < MaxExchanges /\ asked' = asked + 1
        /\ cache' = [cache EXCEPT ![c] = Holding(Loaded(c))]
        /\ UNCHANGED <<clock, file, memory, learning, items, ghosts, faults>>
    BY <1>2, AskFacts
  <2>2. job' \in JobType
    <3>1. PICK verdict \in Verdicts, at \in {"memory", "end"}, event \in {"none", "blocked"}, error \in BOOLEAN :
            job' = Answering(c, q, at, Route(q, Loaded(c), verdict).sources, event, error)
      BY <1>2, AskFacts
    <3>2. Route(q, Loaded(c), verdict).sources \subseteq Registered
      BY <1>a, RouteSources
    <3>3. Exchange(c, q) \in ExchangeType
      BY <1>a, <1>x
    <3> QED
      BY <3>1, <3>2, <3>3 DEF Answering, JobType
  <2>5. job'.x.id <= asked'
    BY <1>2, <1>n, <2>1, AskFacts DEF Answering, Exchange
  <2>6. LogInv'
    <3>1. \A t \in traces : t.id \in Nat /\ t.id <= asked
      BY DEF TypeOK, LogInv
    <3> QED
      BY <1>n, <2>1, <2>5, <3>1 DEF LogInv
  <2>3. prompt' \in PromptType
    <3>1. CASE UNCHANGED prompt
      BY <3>1 DEF TypeOK
    <3>2. ASSUME NEW turns \in {{}, Loaded(c)}, NEW recall \in BOOLEAN, NEW mem \in {{}, RelevantMemories(q, recall)},
                 prompt' = Prompt(turns, mem, RelevantKnowledge(q))
          PROVE  prompt' \in PromptType
      <4>1. turns \subseteq ExchangeType
        BY LoadedIsStored DEF TypeOK
      <4>2. Ids(turns) \subseteq Nat
        BY <4>1 DEF Ids, ExchangeType
      <4>3. mem \subseteq Nat
        BY UsedIsStored DEF Ids, TypeOK, ExchangeType
      <4>4. RelevantKnowledge(q) \subseteq Nat
        BY UsedIsStored DEF ListKnowledge, Items, TypeOK
      <4> QED
        BY <3>2, <4>2, <4>3, <4>4, <1>n DEF Prompt
    <3> QED
      BY <1>2, <3>1, <3>2, AskFacts
  <2>4. job' # Idle
    BY <2>2 DEF JobType, Idle
  <2> QED
    BY <1>l, <1>o, <2>1, <2>2, <2>3, <2>4, <2>6 DEF TypeOK
<1>3. ASSUME NEW c \in Conversations, NEW q \in Questions, AskFails(c, q) PROVE TypeOK' /\ LogInv'
  <2>1. /\ asked < MaxExchanges /\ asked' = asked + 1 /\ Fault
        /\ job' = Answering(c, q, "end", {}, "none", TRUE)
        /\ UNCHANGED <<clock, file, memory, learning, prompt, items, ghosts>>
    BY <1>3 DEF AskFails
  <2>2. cache' \in CacheType /\ \A d \in Conversations : \A t \in cache'[d].turns : t.conv = d
    <3>1. CASE UNCHANGED cache
      BY <3>1 DEF TypeOK
    <3> QED
      BY <1>3, <1>l, <3>1 DEF AskFails
  <2>3. job' \in JobType
    BY <1>a, <1>x, <2>1 DEF Answering, JobType
  <2>4. job' # Idle
    BY <2>3 DEF JobType, Idle
  <2>5. LogInv'
    BY <1>n, <2>1 DEF TypeOK, LogInv, Answering, Exchange
  <2> QED
    BY <1>f, <1>o, <2>1, <2>2, <2>3, <2>4, <2>5 DEF TypeOK
<1>4. ASSUME NEW c \in Conversations, ReadCommand(c) PROVE TypeOK' /\ LogInv'
  <2>1. /\ asked < MaxExchanges /\ asked' = asked + 1 /\ (Fault \/ UNCHANGED faults)
        /\ UNCHANGED <<clock, file, memory, learning, prompt, items, ghosts>>
    BY <1>4 DEF ReadCommand
  <2>2. job' \in JobType
    <3>1. PICK failed \in BOOLEAN : job' = Reading(c, failed)
      BY <1>4 DEF ReadCommand
    <3> QED
      BY <1>a, <1>x, <3>1 DEF Reading, JobType
  <2>3. job' # Idle
    BY <2>2 DEF JobType, Idle
  <2>4. job'.x.id <= asked'
    BY <1>4, <1>n DEF ReadCommand, Reading, Exchange
  <2>5. LogInv'
    BY <1>n, <2>1, <2>4 DEF TypeOK, LogInv
  <2>6. cache' \in CacheType /\ \A d \in Conversations : \A t \in cache'[d].turns : t.conv = d
    <3>1. CASE UNCHANGED cache
      BY <3>1 DEF TypeOK
    <3> QED
      BY <1>4, <1>l, <3>1 DEF ReadCommand
  <2> QED
    BY <1>f, <1>o, <2>1, <2>2, <2>3, <2>5, <2>6 DEF TypeOK
\* A reply that goes on.
<1>j. ASSUME NEW at \in {"history", "end"}, NEW error \in BOOLEAN, job \in JobType,
             job' = [job EXCEPT !.at = at] \/ job' = [job EXCEPT !.at = at, !.error = error]
      PROVE  job' \in JobType /\ job' # Idle /\ job # Idle /\ job'.x = job.x
  <2>1. job' \in JobType
    BY <1>j DEF JobType
  <2>2. job'.x = job.x
    BY <1>j DEF JobType
  <2>3. DOMAIN job # DOMAIN Idle
    BY <1>j DEF JobType, Idle
  <2>4. job' # Idle
    BY <2>1 DEF JobType, Idle
  <2> QED
    BY <2>1, <2>2, <2>3, <2>4
<1>5. CASE AppendMemory
  <2>1. job \in JobType /\ UNCHANGED <<clock, file, cache, learning, prompt, asked, items, ghosts>> /\ (Fault \/ UNCHANGED faults)
    BY <1>5 DEF AppendMemory, TypeOK, Idle
  <2>2. job' \in JobType /\ job' # Idle /\ job # Idle /\ job'.x = job.x
    BY <1>5, <1>j, <2>1 DEF AppendMemory
  <2>3. memory' \subseteq ExchangeType
    BY <1>5, <2>1 DEF AppendMemory, TypeOK, JobType
  <2> QED
    BY <1>f, <2>1, <2>2, <2>3 DEF TypeOK, LogInv
<1>6. CASE WriteHistory
  <2>1. job \in JobType /\ UNCHANGED <<clock, memory, learning, prompt, asked, items, ghosts>> /\ (Fault \/ UNCHANGED faults)
    BY <1>6 DEF WriteHistory, TypeOK, Idle
  <2>2. job' \in JobType /\ job' # Idle /\ job # Idle /\ job'.x = job.x
    BY <1>6, <1>j, <2>1 DEF WriteHistory
  <2>3. CASE UNCHANGED <<file, cache>>
    BY <1>f, <2>1, <2>2, <2>3 DEF TypeOK, LogInv
  <2>4. CASE ~UNCHANGED <<file, cache>>
    <3> DEFINE c == job.x.conv
               new == [job.x EXCEPT !.at = clock]
               turns == BoundedAt(cache[c].turns \cup {new})
    <3>1. file' = [file EXCEPT ![c] = turns] /\ cache' = [cache EXCEPT ![c] = Holding(turns)]
      BY <1>6, <2>4 DEF WriteHistory
    <3>2. c \in Conversations /\ new \in ExchangeType /\ new.conv = c
      BY <2>1, <1>n DEF JobType, ExchangeType
    <3>3. turns \subseteq cache[c].turns \cup {new}
      BY DEF BoundedAt, Young
    <3>4. turns \subseteq ExchangeType /\ \A t \in turns : t.conv = c
      BY <3>2, <3>3 DEF TypeOK
    <3> HIDE DEF c, new, turns
    <3>5. Holding(turns) \in [loaded : BOOLEAN, turns : SUBSET ExchangeType] /\ Holding(turns).turns = turns
      BY <3>4 DEF Holding
    <3>6. file' \in [Conversations -> SUBSET ExchangeType] /\ cache' \in CacheType
      BY <3>1, <3>2, <3>4, <3>5 DEF TypeOK
    <3>7. \A d \in Conversations : \A t \in file'[d] \cup cache'[d].turns : t.conv = d
      BY <3>1, <3>2, <3>4, <3>5 DEF TypeOK
    <3> QED
      BY <1>f, <2>1, <2>2, <3>6, <3>7 DEF TypeOK, LogInv
  <2> QED
    BY <2>3, <2>4
<1>7. CASE EndReply
  <2>1. /\ job \in JobType /\ UNCHANGED <<clock, file, cache, memory, feedback, knowledge, asked, items, ghosts>>
        /\ (Fault \/ UNCHANGED faults) /\ job' = Idle /\ prompt' = NoPrompt
    BY <1>7 DEF EndReply, TypeOK, Idle
  <2>2. traces' \subseteq [id : Nat, conv : Conversations, at : Nat]
    BY <1>7, <2>1 DEF EndReply, TypeOK, JobType, ExchangeType
  <2>3. LogInv'
    BY <1>7, <2>1 DEF EndReply, LogInv, JobType, Idle
  <2> QED
    BY <1>f, <1>p, <2>1, <2>2, <2>3 DEF TypeOK
<1>8. ASSUME NEW c \in Conversations, NewConversation(c) PROVE TypeOK' /\ LogInv'
  <2>1. /\ file' = [file EXCEPT ![c] = {}] /\ cache' = [cache EXCEPT ![c] = NotLoaded]
        /\ UNCHANGED <<clock, memory, learning, job, prompt, asked, items, ghosts, faults>>
    BY <1>8 DEF NewConversation
  <2>2. NotLoaded \in [loaded : BOOLEAN, turns : SUBSET ExchangeType] /\ NotLoaded.turns = {}
    BY DEF NotLoaded
  <2>3. /\ file' \in [Conversations -> SUBSET ExchangeType] /\ cache' \in CacheType
        /\ \A d \in Conversations : \A t \in file'[d] \cup cache'[d].turns : t.conv = d
    BY <2>1, <2>2 DEF TypeOK
  <2> QED
    BY <2>1, <2>3 DEF TypeOK, LogInv
<1>9. ASSUME NEW c \in Conversations, Forget(c) PROVE TypeOK' /\ LogInv'
  <2>1. /\ UNCHANGED <<clock, job, prompt, asked, items>> /\ (Fault \/ UNCHANGED faults) /\ torn' \in BOOLEAN
        /\ memory' \subseteq memory
    BY <1>9 DEF Forget, OfDays, TypeOK
  <2>2. NotLoaded \in [loaded : BOOLEAN, turns : SUBSET ExchangeType] /\ NotLoaded.turns = {}
    BY DEF NotLoaded
  <2>3. /\ file' \in [Conversations -> SUBSET ExchangeType] /\ cache' \in CacheType
        /\ \A d \in Conversations : \A t \in file'[d] \cup cache'[d].turns : t.conv = d
    <3>1. CASE file' = [d \in Conversations |-> {}] /\ cache' = ClearCache(c)
      BY <2>2, <3>1 DEF ClearCache
    <3>2. ASSUME NEW gone, UNCHANGED cache, file' = [d \in Conversations |-> IF d \in gone THEN {} ELSE file[d]]
          PROVE  /\ file' \in [Conversations -> SUBSET ExchangeType] /\ cache' \in CacheType
                 /\ \A d \in Conversations : \A t \in file'[d] \cup cache'[d].turns : t.conv = d
      BY <3>2 DEF TypeOK
    <3>3. CASE UNCHANGED <<file, cache>>
      BY <3>3 DEF TypeOK
    <3> QED
      BY <1>9, <3>1, <3>2, <3>3 DEF Forget
  <2>4. traces' \subseteq traces /\ feedback' \subseteq feedback /\ knowledge' \subseteq knowledge /\ reviews' \subseteq reviews
    BY <1>9 DEF Forget, ForgetLearningFails, OfDays
  <2>5. forgotten' \in [exchange : 0 .. asked, item : 0 .. items]
    <3>1. CASE UNCHANGED forgotten
      BY <3>1 DEF TypeOK
    <3>2. CASE forgotten' = [exchange |-> asked, item |-> items]
      BY <1>n, <3>2
    <3> QED
      BY <1>9, <3>1, <3>2 DEF Forget
  <2> QED
    BY <1>f, <2>1, <2>3, <2>4, <2>5 DEF TypeOK, LogInv
<1>10. ASSUME NEW c \in Conversations, NEW topic \in Topics, SubmitFeedback(c, topic) PROVE TypeOK' /\ LogInv'
  <2>1. /\ UNCHANGED <<clock, file, cache, memory, traces, job, prompt, asked, ghosts, faults>>
        /\ feedback' = feedback \cup {Latest(TracesOf(c)).id}
    BY <1>10 DEF SubmitFeedback
  <2>2. feedback' \subseteq Nat
    <3>1. TracesOf(c) # {} /\ \A t \in TracesOf(c) : t.id \in Nat /\ t.id <= asked
      BY <1>10 DEF SubmitFeedback, TracesOf, TypeOK, LogInv
    <3>2. Latest(TracesOf(c)).id \in Nat
      BY <1>n, <3>1, LatestIsIn
    <3> QED
      BY <2>1, <3>2 DEF TypeOK
  <2>3. CASE UNCHANGED <<knowledge, items>>
    BY <2>1, <2>2, <2>3 DEF TypeOK, LogInv
  <2>4. CASE ~UNCHANGED <<knowledge, items>>
    <3> DEFINE new == [id |-> NextRecord, item |-> items + 1, status |-> "candidate", topic |-> topic, at |-> clock]
    <3>1. items < MaxItems /\ items' = items + 1 /\ knowledge' = knowledge \cup {new}
      BY <1>10, <2>4 DEF SubmitFeedback
    <3>2. new \in RecordType
      BY <1>n, NextIsNew
    <3>3. knowledge' \subseteq RecordType
      BY <3>1, <3>2 DEF TypeOK
    <3>4. \A r \in knowledge' : r.id <= NextRecord
      <4>1. \A r \in knowledge : r.id < NextRecord /\ r.id \in Nat /\ NextRecord \in Nat
        BY NextIsNew DEF TypeOK
      <4> QED
        BY <3>1, <4>1, NextIsNew
    <3>5. LogInv'
      BY <2>1, <3>4, NextIsNew DEF LogInv
    <3>6. items' \in 0 .. MaxItems /\ forgotten' \in [exchange : 0 .. asked', item : 0 .. items']
      <4>1. forgotten.exchange \in 0 .. asked /\ forgotten.item \in 0 .. items + 1
        BY <1>n DEF TypeOK
      <4>2. forgotten = [exchange |-> forgotten.exchange, item |-> forgotten.item]
        BY DEF TypeOK
      <4> QED
        BY <1>n, <1>a, <2>1, <3>1, <4>1, <4>2
    <3> QED
      BY <2>1, <2>2, <3>3, <3>5, <3>6 DEF TypeOK
  <2> QED
    BY <2>3, <2>4
<1>11. ASSUME NEW k, NEW status \in {"approved", "rejected"}, ReviewKnowledge(k, status) PROVE TypeOK' /\ LogInv'
  <2> DEFINE new == [Latest(Records(k)) EXCEPT !.id = NextRecord, !.status = status]
  <2>1. /\ knowledge' = knowledge \cup {new} /\ reviews' = reviews \cup {[item |-> k, status |-> status]}
        /\ UNCHANGED <<clock, file, cache, memory, traces, feedback, job, prompt, asked, items, forgotten, torn, faults>>
    BY <1>11 DEF ReviewKnowledge
  <2>2. k \in Items
    BY <1>11 DEF ReviewKnowledge, ListKnowledge
  <2>3. Latest(Records(k)) \in RecordType /\ Latest(Records(k)).item = k
    BY <2>2, LastRecord DEF TypeOK
  <2>4. new \in RecordType /\ new.id = NextRecord /\ k \in Nat
    BY <2>3, NextIsNew
  <2>5. \A r \in knowledge' : r.id <= NextRecord
    <3>1. \A r \in knowledge : r.id < NextRecord /\ r.id \in Nat /\ NextRecord \in Nat
      BY NextIsNew DEF TypeOK
    <3> HIDE DEF new
    <3> QED
      BY <2>1, <2>4, <3>1, NextIsNew
  <2> HIDE DEF new
  <2>6. LogInv'
    BY <2>1, <2>5, NextIsNew DEF LogInv
  <2> QED
    BY <2>1, <2>4, <2>6 DEF TypeOK
<1>12. CASE Prune
  <2>1. UNCHANGED <<clock, file, cache, memory, job, prompt, asked, items, ghosts>> /\ (Fault \/ UNCHANGED faults)
    BY <1>12 DEF Prune
  <2>2. traces' \subseteq traces /\ feedback' \subseteq feedback /\ knowledge' \subseteq knowledge
    BY <1>12 DEF Prune, YoungTraces
  <2> QED
    BY <1>f, <2>1, <2>2 DEF TypeOK, LogInv
<1>13. CASE Tick
  BY <1>13, <1>a DEF Tick, TypeOK, LogInv
<1>14. CASE Restart
  <2>1. NotLoaded \in [loaded : BOOLEAN, turns : SUBSET ExchangeType] /\ NotLoaded.turns = {}
    BY DEF NotLoaded
  <2>2. cache' \in CacheType /\ \A d \in Conversations : cache'[d].turns = {}
    BY <1>14, <2>1 DEF Restart
  <2> QED
    BY <1>14, <1>f, <1>p, <2>2 DEF Restart, TypeOK, LogInv
<1> QED
  BY <1>1, <1>2, <1>3, <1>4, <1>5, <1>6, <1>7, <1>8, <1>9, <1>10, <1>11, <1>12, <1>13, <1>14
     DEF Next, LearningCommand

\* Exchanges, records and traces keep their shape and their numbers their
\* bounds, whatever is asked, forgotten, reviewed or lost.
THEOREM TypeCorrect == Spec => []TypeOK
<1>1. Spec => [](TypeOK /\ LogInv)
  BY TypeInit, TypeStep, PTL DEF Spec
<1> QED
  BY <1>1, PTL
(***************************************************************************)
(* Sources.                                                                *)
(***************************************************************************)
\* A reply keeps the sources it began with, and begins with those its question
\* allows.
LEMMA SourcesStep == TypeOK /\ SourceWishesAreKept /\ [Next]_vars => SourceWishesAreKept'
<1> SUFFICES ASSUME TypeOK, SourceWishesAreKept, [Next]_vars PROVE SourceWishesAreKept'
  OBVIOUS
<1> USE DEF learning, ghosts
<1>a. Questions \subseteq QuestionType
  BY MemoryAssumption
<1>1. CASE UNCHANGED job
  BY <1>1 DEF SourceWishesAreKept
<1>2. ASSUME NEW c \in Conversations, NEW q \in Questions, Ask(c, q) PROVE SourceWishesAreKept'
  <2>1. PICK verdict \in Verdicts, at \in {"memory", "end"}, event \in {"none", "blocked"}, error \in BOOLEAN :
          job' = Answering(c, q, at, Route(q, Loaded(c), verdict).sources, event, error)
    BY <1>2, AskFacts
  <2>2. job'.sources = Route(q, Loaded(c), verdict).sources /\ job'.x.q = q
    BY <2>1 DEF Answering, Exchange
  <2>3. Cardinality(Registered \ {"web"}) > 1 =>
          /\ Route(q, Loaded(c), verdict).sources \cap q.excluded \subseteq {q.only}
          /\ q.only # "" => Route(q, Loaded(c), verdict).sources \subseteq {q.only, "web"}
    BY <1>a, RouteSources
  <2>4. Cardinality(Registered \ {"web"}) > 1 =>
          /\ job'.sources \cap job'.x.q.excluded \subseteq {job'.x.q.only}
          /\ job'.x.q.only # "" => job'.sources \subseteq {job'.x.q.only, "web"}
    BY <2>2, <2>3
  <2> QED
    BY <2>4 DEF SourceWishesAreKept
<1>3. CASE job' = Idle
  BY <1>3 DEF SourceWishesAreKept
<1>4. ASSUME job'.sources = {} PROVE SourceWishesAreKept'
  BY <1>4 DEF SourceWishesAreKept
<1>5. ASSUME AppendMemory \/ WriteHistory PROVE SourceWishesAreKept'
  <2>1. job \in JobType /\ job # Idle
    BY <1>5 DEF AppendMemory, WriteHistory, TypeOK, Idle
  <2>2. job'.sources = job.sources /\ job'.x = job.x
    BY <1>5, <2>1 DEF AppendMemory, WriteHistory, JobType
  <2> QED
    BY <2>1, <2>2 DEF SourceWishesAreKept
<1>6. ASSUME NEW c \in Conversations, NEW q \in Questions, AskFails(c, q) PROVE job'.sources = {}
  BY <1>6 DEF AskFails, Answering
<1>7. ASSUME NEW c \in Conversations, ReadCommand(c) PROVE job'.sources = {}
  BY <1>7 DEF ReadCommand, Reading
<1>8. ASSUME NEW c \in Conversations, NewConversation(c) \/ Forget(c) \/ LearningCommand(c) PROVE UNCHANGED job
  BY <1>8 DEF NewConversation, Forget, LearningCommand, SubmitFeedback, ReviewKnowledge
<1>9. ASSUME UNCHANGED vars \/ Prune \/ Tick PROVE UNCHANGED job
  BY <1>9 DEF vars, Prune, Tick
<1>10. EndReply \/ Restart => job' = Idle
  BY DEF EndReply, Restart
<1> QED
  BY <1>1, <1>2, <1>3, <1>4, <1>5, <1>6, <1>7, <1>8, <1>9, <1>10 DEF Next

\* A question's wishes about its sources are kept, whatever was said before it
\* and whatever the model's classification answers.
THEOREM SourcesSafe == Spec => []SourceWishesAreKept
<1>1. Init => SourceWishesAreKept
  BY DEF Init, SourceWishesAreKept
<1>2. Spec => [](TypeOK /\ LogInv)
  BY TypeInit, TypeStep, PTL DEF Spec
<1> QED
  BY <1>1, <1>2, SourcesStep, PTL DEF Spec

(***************************************************************************)
(* The cached history.                                                     *)
(***************************************************************************)
\* Every history is finite, and a file holds what fits.
HistoryInv ==
  \A c \in Conversations : IsFiniteSet(file[c]) /\ Fits(file[c]) /\ IsFiniteSet(cache[c].turns)

\* An empty history fits.
LEMMA EmptyFits == Fits({}) /\ IsFiniteSet({})
<1>1. Characters({}) = {}
  BY DEF Characters
<1> QED
  BY <1>1, FS_EmptySet, MemoryAssumption DEF Fits

\* Loading a history keeps it finite and durable.
LEMMA LoadStep ==
  ASSUME TypeOK, HistoryInv, CacheIsDurable, NEW c \in Conversations, UNCHANGED <<file, clock, torn>>,
         UNCHANGED cache \/ cache' = [cache EXCEPT ![c] = Holding(Loaded(c))]
  PROVE  HistoryInv' /\ CacheIsDurable'
<1>1. CASE UNCHANGED cache
  BY <1>1 DEF HistoryInv, CacheIsDurable, Fits, Characters, Expired
<1>2. CASE cache' = [cache EXCEPT ![c] = Holding(Loaded(c))]
  <2>1. file[c] \subseteq ExchangeType /\ IsFiniteSet(file[c]) /\ Fits(file[c])
    BY DEF TypeOK, HistoryInv
  <2>2. /\ IsFiniteSet(Loaded(c))
        /\ ~torn => Loaded(c) \subseteq file[c] /\ \A t \in file[c] \ Loaded(c) : Expired(t)
    <3>1. CASE cache[c].loaded
      BY <3>1 DEF Loaded, HistoryInv, CacheIsDurable
    <3>2. CASE ~cache[c].loaded
      <4>1. Loaded(c) = BoundedAt(file[c])
        BY <3>2 DEF Loaded
      <4> QED
        BY <2>1, <4>1, BoundedFits, BoundedKeeps
    <3> QED
      BY <3>1, <3>2
  <2>3. cache'[c] = Holding(Loaded(c)) /\ cache'[c].turns = Loaded(c)
    BY <1>2 DEF TypeOK, Holding
  <2>4. \A d \in Conversations \ {c} : cache'[d] = cache[d]
    BY <1>2 DEF TypeOK
  <2>5. HistoryInv'
    BY <2>2, <2>3, <2>4 DEF HistoryInv, Fits, Characters
  <2>6. \A t : Expired(t)' <=> Expired(t)
    BY DEF Expired
  <2>7. ASSUME NEW d \in Conversations, cache'[d].loaded, ~torn
        PROVE  cache'[d].turns \subseteq file[d] /\ \A t \in file[d] \ cache'[d].turns : Expired(t)
    <3>1. CASE d = c
      BY <2>2, <2>3, <2>7, <3>1
    <3>2. CASE d # c
      BY <2>4, <2>7, <3>2 DEF CacheIsDurable
    <3> QED
      BY <3>1, <3>2
  <2>8. CacheIsDurable'
    BY <2>6, <2>7 DEF CacheIsDurable, Expired
  <2> QED
    BY <2>5, <2>8
<1> QED
  BY <1>1, <1>2

\* Every write keeps the cache behind the file.
LEMMA CacheStep ==
  TypeOK /\ HistoryInv /\ CacheIsDurable /\ [Next]_vars => HistoryInv' /\ CacheIsDurable'
<1> SUFFICES ASSUME TypeOK, HistoryInv, CacheIsDurable, [Next]_vars PROVE HistoryInv' /\ CacheIsDurable'
  OBVIOUS
<1> USE DEF learning, ghosts
<1>0. \A c \in Conversations : /\ file[c] \subseteq ExchangeType /\ cache[c].turns \subseteq ExchangeType
                               /\ IsFiniteSet(file[c]) /\ Fits(file[c]) /\ IsFiniteSet(cache[c].turns)
  BY DEF TypeOK, HistoryInv
<1>1. CASE UNCHANGED <<file, cache, clock, torn>>
  BY <1>1 DEF HistoryInv, CacheIsDurable, Fits, Characters, Expired
<1>2. ASSUME NEW c \in Conversations, NEW q \in Questions, Ask(c, q) \/ AskFails(c, q)
      PROVE  HistoryInv' /\ CacheIsDurable'
  <2>1. /\ UNCHANGED <<file, clock, torn>>
        /\ UNCHANGED cache \/ cache' = [cache EXCEPT ![c] = Holding(Loaded(c))]
    BY <1>2, AskFacts DEF AskFails
  <2> QED
    BY <2>1, LoadStep
<1>3. ASSUME NEW c \in Conversations, ReadCommand(c) PROVE HistoryInv' /\ CacheIsDurable'
  <2>1. /\ UNCHANGED <<file, clock, torn>>
        /\ UNCHANGED cache \/ cache' = [cache EXCEPT ![c] = Holding(Loaded(c))]
    BY <1>3 DEF ReadCommand
  <2> QED
    BY <2>1, LoadStep
<1>4. CASE WriteHistory /\ ~UNCHANGED <<file, cache>>
  <2> DEFINE c == job.x.conv
             new == [job.x EXCEPT !.at = clock]
             turns == BoundedAt(cache[c].turns \cup {new})
  <2>1. /\ file' = [file EXCEPT ![c] = turns] /\ cache' = [cache EXCEPT ![c] = Holding(turns)]
        /\ UNCHANGED <<clock, torn>>
    BY <1>4 DEF WriteHistory
  <2>2. job \in JobType
    BY <1>4 DEF WriteHistory, TypeOK, Idle
  <2>3. c \in Conversations /\ new \in ExchangeType
    BY <2>2 DEF JobType, ExchangeType, TypeOK
  <2> DEFINE all == cache[c].turns \cup {new}
  <2>4. all \subseteq ExchangeType /\ IsFiniteSet(all)
    BY <1>0, <2>3, FS_AddElement
  <2>5. IsFiniteSet(turns) /\ Fits(turns)
    <3> HIDE DEF new
    <3> QED
      BY <2>4, BoundedFits
  <2> HIDE DEF c, new, turns, all
  <2>6. /\ file'[c] = turns /\ cache'[c].turns = turns
        /\ \A d \in Conversations \ {c} : file'[d] = file[d] /\ cache'[d] = cache[d]
    BY <2>1, <2>3 DEF TypeOK, Holding
  <2>7. HistoryInv'
    BY <1>0, <2>5, <2>6 DEF HistoryInv, Fits, Characters
  <2>8. CacheIsDurable'
    BY <2>1, <2>6 DEF CacheIsDurable, Expired
  <2> QED
    BY <2>7, <2>8
<1>5. ASSUME NEW c \in Conversations, NewConversation(c) PROVE HistoryInv' /\ CacheIsDurable'
  <2>1. /\ file'[c] = {} /\ cache'[c].turns = {} /\ ~cache'[c].loaded
        /\ \A d \in Conversations \ {c} : file'[d] = file[d] /\ cache'[d] = cache[d]
        /\ UNCHANGED <<clock, torn>>
    BY <1>5 DEF NewConversation, NotLoaded, TypeOK
  <2>2. HistoryInv'
    BY <1>0, <2>1, EmptyFits DEF HistoryInv, Fits, Characters
  <2>3. CacheIsDurable'
    BY <2>1 DEF CacheIsDurable, Expired
  <2> QED
    BY <2>2, <2>3
<1>6. ASSUME NEW c \in Conversations, Forget(c) PROVE HistoryInv' /\ CacheIsDurable'
  <2>1. \A d \in Conversations : file'[d] = {} \/ file'[d] = file[d]
    BY <1>6 DEF Forget, TypeOK
  <2>2. \A d \in Conversations : cache'[d] = cache[d] \/ cache'[d] = NotLoaded
    BY <1>6 DEF Forget, ClearCache, TypeOK
  <2>3. \/ UNCHANGED <<file, cache, clock, torn>>
        \/ torn' \/ \A d \in Conversations : cache'[d] = NotLoaded
    BY <1>6 DEF Forget, ClearCache
  <2>4. NotLoaded.turns = {} /\ ~NotLoaded.loaded
    BY DEF NotLoaded
  <2>5. HistoryInv'
    BY <1>0, <2>1, <2>2, <2>4, EmptyFits DEF HistoryInv, Fits, Characters
  <2>6. CacheIsDurable'
    BY <1>1, <2>3, <2>4 DEF CacheIsDurable
  <2> QED
    BY <2>5, <2>6
<1>7. CASE Tick
  <2>1. UNCHANGED <<file, cache, torn>> /\ clock' = clock + 1
    BY <1>7 DEF Tick
  <2>2. HistoryInv'
    BY <2>1 DEF HistoryInv, Fits, Characters
  <2>3. \A c \in Conversations : \A t \in file[c] : t.at \in Nat
    BY <1>0 DEF ExchangeType
  <2>4. clock \in Nat /\ HistoryWindow \in Nat
    BY MemoryAssumption DEF TypeOK
  <2>5. \A c \in Conversations : \A t \in file[c] : t.at < clock - HistoryWindow => t.at < clock' - HistoryWindow
    BY <2>1, <2>3, <2>4
  <2>6. CacheIsDurable'
    <3>1. ASSUME NEW c \in Conversations, cache[c].loaded, ~torn
          PROVE  /\ cache[c].turns \subseteq file[c]
                 /\ \A t \in file[c] \ cache[c].turns : t.at < clock' - HistoryWindow
      BY <2>5, <3>1 DEF CacheIsDurable, Expired
    <3>2. file' = file /\ cache' = cache /\ torn' = torn
      BY <2>1
    <3> QED
      BY <3>1, <3>2 DEF CacheIsDurable, Expired
  <2> QED
    BY <2>2, <2>6
<1>8. CASE Restart
  <2>1. UNCHANGED file /\ \A c \in Conversations : cache'[c].turns = {} /\ ~cache'[c].loaded
    BY <1>8 DEF Restart, NotLoaded
  <2>2. HistoryInv'
    BY <1>0, <2>1, EmptyFits DEF HistoryInv, Fits, Characters
  <2>3. CacheIsDurable'
    BY <2>1 DEF CacheIsDurable
  <2> QED
    BY <2>2, <2>3
<1>9. ASSUME NEW c \in Conversations, LearningCommand(c) PROVE UNCHANGED <<file, cache, clock, torn>>
  BY <1>9 DEF LearningCommand, SubmitFeedback, ReviewKnowledge
<1>10. ASSUME UNCHANGED vars \/ AppendMemory \/ EndReply \/ Prune \/ (WriteHistory /\ UNCHANGED <<file, cache>>)
       PROVE  UNCHANGED <<file, cache, clock, torn>>
  BY <1>10 DEF vars, AppendMemory, EndReply, Prune, WriteHistory
<1> QED
  BY <1>1, <1>2, <1>3, <1>4, <1>5, <1>6, <1>7, <1>8, <1>9, <1>10 DEF Next

\* Whatever write fails and whenever the process dies, the cache of a
\* conversation is what a restart would load, but for expired turns.
THEOREM CacheSafe == Spec => []CacheIsDurable
<1>1. Init => HistoryInv /\ CacheIsDurable
  <2> SUFFICES ASSUME Init PROVE HistoryInv /\ CacheIsDurable
    OBVIOUS
  <2>1. \A c \in Conversations : file[c] = {} /\ cache[c].turns = {} /\ ~cache[c].loaded
    BY DEF Init, NotLoaded
  <2> QED
    BY <2>1, EmptyFits DEF HistoryInv, CacheIsDurable
<1>2. Spec => [](TypeOK /\ LogInv)
  BY TypeInit, TypeStep, PTL DEF Spec
<1> QED
  BY <1>1, <1>2, CacheStep, PTL DEF Spec

(***************************************************************************)
(* The end of a reply.                                                     *)
(***************************************************************************)
\* A reply whose exchange is not archived has failed or was blocked.
EndInv ==
  job # Idle =>
    /\ job.at = "history" => job.x.id \in Ids(memory)
    /\ job.at = "end" /\ ~job.error /\ job.event # "blocked" => job.x.id \in Ids(memory)

\* Nothing leaves the archive while a reply is in progress.
LEMMA EndStep == TypeOK /\ EndInv /\ [Next]_vars => EndInv'
<1> SUFFICES ASSUME TypeOK, EndInv, [Next]_vars PROVE EndInv'
  OBVIOUS
<1> USE DEF learning, ghosts
<1>1. ASSUME UNCHANGED <<job, memory>> PROVE EndInv'
  BY <1>1 DEF EndInv, Ids
<1>2. ASSUME job' = Idle PROVE EndInv'
  BY <1>2 DEF EndInv
<1>3. ASSUME NEW c \in Conversations, NEW q \in Questions, Ask(c, q) PROVE EndInv'
  <2>1. PICK verdict \in Verdicts, at \in {"memory", "end"}, event \in {"none", "blocked"}, error \in BOOLEAN :
          /\ job' = Answering(c, q, at, Route(q, Loaded(c), verdict).sources, event, error)
          /\ at = "end" => event = "blocked" \/ error
    BY <1>3, AskFacts
  <2>2. job'.at = at /\ job'.event = event /\ job'.error = error
    BY <2>1 DEF Answering
  <2> QED
    BY <2>1, <2>2 DEF EndInv
<1>4. ASSUME NEW c \in Conversations, NEW q \in Questions, AskFails(c, q) PROVE EndInv'
  BY <1>4 DEF AskFails, Answering, EndInv
<1>5. ASSUME NEW c \in Conversations, ReadCommand(c) PROVE EndInv'
  BY <1>5 DEF ReadCommand, Reading, EndInv
<1>6. CASE AppendMemory
  <2>1. job \in JobType /\ job # Idle
    BY <1>6 DEF AppendMemory, TypeOK, Idle
  <2>2. CASE memory' = memory \cup {job.x} /\ job' = [job EXCEPT !.at = "history"]
    <3>1. job'.x = job.x /\ job'.at = "history" /\ job.x \in memory'
      BY <2>1, <2>2 DEF JobType
    <3> QED
      BY <3>1 DEF EndInv, Ids
  <2>3. CASE job' = [job EXCEPT !.at = "end", !.error = TRUE]
    <3>1. job'.at = "end" /\ job'.error = TRUE
      BY <2>1, <2>3 DEF JobType
    <3> QED
      BY <3>1 DEF EndInv
  <2> QED
    BY <1>6, <2>2, <2>3 DEF AppendMemory
<1>7. CASE WriteHistory
  <2>1. job \in JobType /\ job # Idle /\ UNCHANGED memory /\ job.at = "history"
    BY <1>7 DEF WriteHistory, TypeOK, Idle
  <2>2. job'.x = job.x /\ job'.at = "end"
    BY <1>7, <2>1 DEF WriteHistory, JobType
  <2> QED
    BY <2>1, <2>2 DEF EndInv, Ids
<1>8. ASSUME NEW c \in Conversations, Forget(c) PROVE job' = Idle
  BY <1>8 DEF Forget
<1>9. ASSUME NEW c \in Conversations, NewConversation(c) \/ LearningCommand(c) PROVE UNCHANGED <<job, memory>>
  BY <1>9 DEF NewConversation, LearningCommand, SubmitFeedback, ReviewKnowledge
<1>10. UNCHANGED vars \/ Prune \/ Tick => UNCHANGED <<job, memory>>
  BY DEF vars, Prune, Tick
<1>11. EndReply \/ Restart => job' = Idle
  BY DEF EndReply, Restart
<1> QED
  BY <1>1, <1>2, <1>3, <1>4, <1>5, <1>6, <1>7, <1>8, <1>9, <1>10, <1>11 DEF Next

\* The operator is never told that a reply completed when it failed or when its
\* exchange did not reach the archive.
THEOREM EndingSafe == Spec => EndingIsTruthful
<1>1. Init => EndInv
  BY DEF Init, EndInv
<1>2. Spec => [](TypeOK /\ LogInv)
  BY TypeInit, TypeStep, PTL DEF Spec
<1>3. TypeOK /\ EndInv =>
        [EndReply /\ job.traced /\ Terminal = "completed" => ~job.error /\ job.x.id \in Ids(memory)]_vars
  <2> SUFFICES ASSUME TypeOK, EndInv, EndReply, Terminal = "completed"
               PROVE  ~job.error /\ job.x.id \in Ids(memory)
    OBVIOUS
  <2>1. job.at = "end" /\ job # Idle
    BY DEF EndReply, TypeOK, Idle
  <2>2. job.event # "blocked" /\ ~job.error
    BY DEF Terminal
  <2> QED
    BY <2>1, <2>2 DEF EndInv
<1> QED
  BY <1>1, <1>2, <1>3, EndStep, PTL DEF Spec, EndingIsTruthful

(***************************************************************************)
(* /forget.                                                                *)
(***************************************************************************)
\* What is kept anywhere is newer than the last successful /forget.
ForgetInv ==
  /\ \A c \in Conversations : \A t \in file[c] \cup cache[c].turns : t.id > forgotten.exchange
  /\ \A m \in memory : m.id > forgotten.exchange
  /\ job # Idle => job.x.id > forgotten.exchange
  /\ \A r \in knowledge : r.item > forgotten.item

\* Nothing brings back what /forget removed.
LEMMA ForgetStep == TypeOK /\ LogInv /\ ForgetInv /\ [Next]_vars => ForgetInv'
<1> SUFFICES ASSUME TypeOK, LogInv, ForgetInv, [Next]_vars PROVE ForgetInv'
  OBVIOUS
<1> USE DEF learning, ghosts
<1>0. /\ asked \in Nat /\ items \in Nat /\ forgotten.exchange \in Nat /\ forgotten.item \in Nat
      /\ asked + 1 > forgotten.exchange /\ items + 1 > forgotten.item
  BY MemoryAssumption DEF TypeOK
<1>l. ASSUME NEW c \in Conversations,
             UNCHANGED cache \/ cache' = [cache EXCEPT ![c] = Holding(Loaded(c))]
      PROVE  \A d \in Conversations : cache'[d].turns \subseteq file[d] \cup cache[d].turns
  BY <1>l, LoadedIsStored DEF Holding, TypeOK
<1>1. ASSUME NEW c \in Conversations, UNCHANGED <<file, memory, forgotten, knowledge>>,
             UNCHANGED cache \/ cache' = [cache EXCEPT ![c] = Holding(Loaded(c))],
             job'.x.id = asked + 1
      PROVE  ForgetInv'
  BY <1>0, <1>l, <1>1 DEF ForgetInv
<1>2. ASSUME NEW c \in Conversations, NEW q \in Questions, Ask(c, q) PROVE ForgetInv'
  <2>1. job'.x.id = asked + 1
    BY <1>2, AskFacts DEF Answering, Exchange
  <2> QED
    BY <1>1, <1>2, <2>1, AskFacts
<1>3. ASSUME NEW c \in Conversations, NEW q \in Questions, AskFails(c, q) PROVE ForgetInv'
  BY <1>1, <1>3 DEF AskFails, Answering, Exchange
<1>4. ASSUME NEW c \in Conversations, ReadCommand(c) PROVE ForgetInv'
  BY <1>1, <1>4 DEF ReadCommand, Reading, Exchange
<1>5. CASE AppendMemory
  <2>1. job \in JobType /\ job # Idle /\ UNCHANGED <<file, cache, knowledge, forgotten>>
    BY <1>5 DEF AppendMemory, TypeOK, Idle
  <2>2. job'.x = job.x /\ memory' \subseteq memory \cup {job.x}
    BY <1>5, <2>1 DEF AppendMemory, JobType
  <2> QED
    BY <2>1, <2>2 DEF ForgetInv
<1>6. CASE WriteHistory
  <2> DEFINE c == job.x.conv
             new == [job.x EXCEPT !.at = clock]
             turns == BoundedAt(cache[c].turns \cup {new})
  <2>1. job \in JobType /\ job # Idle /\ UNCHANGED <<memory, knowledge, forgotten>>
    BY <1>6 DEF WriteHistory, TypeOK, Idle
  <2>2. job'.x = job.x
    BY <1>6, <2>1 DEF WriteHistory, JobType
  <2>3. new.id = job.x.id /\ turns \subseteq cache[c].turns \cup {new} /\ c \in Conversations
    BY <2>1 DEF JobType, ExchangeType, BoundedAt, Young
  <2>4. CASE UNCHANGED <<file, cache>>
    BY <2>1, <2>2, <2>4 DEF ForgetInv
  <2>5. CASE file' = [file EXCEPT ![c] = turns] /\ cache' = [cache EXCEPT ![c] = Holding(turns)]
    <3> HIDE DEF c, new, turns
    <3>1. \A d \in Conversations : \A t \in file'[d] \cup cache'[d].turns :
            t \in file[d] \cup cache[d].turns \/ t = new
      BY <2>3, <2>5 DEF TypeOK, Holding
    <3> QED
      BY <2>1, <2>2, <2>3, <3>1 DEF ForgetInv
  <2> QED
    BY <1>6, <2>4, <2>5 DEF WriteHistory
<1>7. ASSUME NEW c \in Conversations, NewConversation(c) PROVE ForgetInv'
  <2>1. \A d \in Conversations : file'[d] \subseteq file[d] /\ cache'[d].turns \subseteq cache[d].turns
    BY <1>7 DEF NewConversation, NotLoaded, TypeOK
  <2> QED
    BY <1>7, <2>1 DEF NewConversation, ForgetInv
<1>8. ASSUME NEW c \in Conversations, Forget(c) PROVE ForgetInv'
  <2>1. job' = Idle /\ memory' \subseteq memory
    BY <1>8 DEF Forget, OfDays
  <2>2. CASE UNCHANGED forgotten
    <3>1. \A d \in Conversations : file'[d] \subseteq file[d] /\ cache'[d].turns \subseteq cache[d].turns
      BY <1>8 DEF Forget, ClearCache, NotLoaded, TypeOK
    <3>2. knowledge' \subseteq knowledge
      BY <1>8 DEF Forget, ForgetLearningFails, OfDays
    <3> QED
      BY <2>1, <2>2, <3>1, <3>2 DEF ForgetInv
  <2>3. CASE ~UNCHANGED forgotten
    <3>1. \A d \in Conversations : file'[d] = {} /\ cache'[d].turns = {}
      BY <1>8, <2>3 DEF Forget, ClearCache, NotLoaded
    <3>2. knowledge' = {} /\ memory' = {}
      BY <1>8, <2>3 DEF Forget
    <3> QED
      BY <2>1, <3>1, <3>2 DEF ForgetInv
  <2> QED
    BY <2>2, <2>3
<1>9. ASSUME NEW c \in Conversations, NEW topic \in Topics, SubmitFeedback(c, topic) PROVE ForgetInv'
  <2>1. UNCHANGED <<file, cache, memory, job, forgotten>> /\ \A r \in knowledge' : r \in knowledge \/ r.item = items + 1
    BY <1>9 DEF SubmitFeedback
  <2> QED
    BY <1>0, <2>1 DEF ForgetInv
<1>10. ASSUME NEW k, NEW status, ReviewKnowledge(k, status) PROVE ForgetInv'
  <2>1. UNCHANGED <<file, cache, memory, job, forgotten>> /\ k \in Items
    BY <1>10 DEF ReviewKnowledge, ListKnowledge
  <2>2. Latest(Records(k)) \in knowledge
    BY <2>1, LastRecord
  <2>3. \A r \in knowledge' : r \in knowledge \/ r.item = Latest(Records(k)).item
    BY <1>10, <2>2 DEF ReviewKnowledge, TypeOK
  <2> QED
    BY <2>1, <2>2, <2>3 DEF ForgetInv
<1>11. CASE Prune
  BY <1>11 DEF Prune, ForgetInv
<1>12. ASSUME UNCHANGED vars \/ EndReply \/ Tick PROVE ForgetInv'
  BY <1>12 DEF vars, EndReply, Tick, ForgetInv
<1>13. CASE Restart
  BY <1>13 DEF Restart, NotLoaded, ForgetInv
<1> QED
  BY <1>2, <1>3, <1>4, <1>5, <1>6, <1>7, <1>8, <1>9, <1>10, <1>11, <1>12, <1>13 DEF Next, LearningCommand

\* Nothing that a successful /forget removed is given to the model again, in
\* any conversation, whatever failed half way before or since.
THEOREM ForgetSafe == Spec => ForgottenIsNeverUsed
<1>1. Init => ForgetInv
  BY DEF Init, ForgetInv, NotLoaded
<1>2. Spec => [](TypeOK /\ LogInv)
  BY TypeInit, TypeStep, PTL DEF Spec
<1>3. TypeOK /\ LogInv /\ ForgetInv /\ [Next]_vars =>
        [prompt' # prompt =>
           /\ \A x \in prompt'.history \cup prompt'.memories : x > forgotten.exchange
           /\ \A k \in prompt'.knowledge : k > forgotten.item]_vars
  <2> DEFINE Good(p) == /\ \A x \in p.history \cup p.memories : x > forgotten.exchange
                        /\ \A k \in p.knowledge : k > forgotten.item
  <2> SUFFICES ASSUME TypeOK, LogInv, ForgetInv, Next, prompt' # prompt PROVE Good(prompt')
    OBVIOUS
  <2>1. Good(NoPrompt)
    BY DEF NoPrompt
  <2>2. ASSUME NEW c \in Conversations, NEW q \in Questions, Ask(c, q) PROVE Good(prompt')
    <3>1. PICK turns \in {{}, Loaded(c)}, recall \in BOOLEAN :
            \E mem \in {{}, RelevantMemories(q, recall)} : prompt' = Prompt(turns, mem, RelevantKnowledge(q))
      BY <2>2, AskFacts
    <3>2. PICK mem \in {{}, RelevantMemories(q, recall)} : prompt' = Prompt(turns, mem, RelevantKnowledge(q))
      BY <3>1
    <3>3. \A x \in Ids(turns) : x > forgotten.exchange
      BY LoadedIsStored DEF Ids, ForgetInv
    <3>4. \A x \in mem : x > forgotten.exchange
      BY UsedIsStored DEF Ids, ForgetInv
    <3>5. \A k \in RelevantKnowledge(q) : k > forgotten.item
      BY UsedIsStored DEF ListKnowledge, Items, ForgetInv
    <3> QED
      BY <3>2, <3>3, <3>4, <3>5 DEF Prompt
  <2>3. ASSUME NEW c \in Conversations, NEW q \in Questions, AskFails(c, q) PROVE UNCHANGED prompt
    BY <2>3 DEF AskFails
  <2>4. ASSUME NEW c \in Conversations,
               ReadCommand(c) \/ NewConversation(c) \/ Forget(c) \/ LearningCommand(c)
        PROVE  UNCHANGED prompt
    BY <2>4 DEF ReadCommand, NewConversation, Forget, LearningCommand, SubmitFeedback, ReviewKnowledge
  <2>5. AppendMemory \/ WriteHistory \/ Prune \/ Tick => UNCHANGED prompt
    BY DEF AppendMemory, WriteHistory, Prune, Tick
  <2>6. EndReply \/ Restart => prompt' = NoPrompt
    BY DEF EndReply, Restart
  <2> QED
    BY <2>1, <2>2, <2>3, <2>4, <2>5, <2>6 DEF Next
<1> QED
  BY <1>1, <1>2, <1>3, ForgetStep, PTL DEF Spec, ForgottenIsNeverUsed

(***************************************************************************)
(* Reviews.                                                                *)
(***************************************************************************)
\* The last record of a reviewed item carries its review.
Decided(v) ==
  \E r \in knowledge : /\ r.item = v.item /\ r.status = v.status
                       /\ \A s \in knowledge : s.item = r.item => s.id <= r.id

\* An item is reviewed once, only a review makes a record more than a candidate,
\* the review stays its last record, and all records of an item are of one day.
ReviewInv ==
  /\ \A r, s \in knowledge : /\ r.id = s.id => r = s
                             /\ r.item = s.item => r.at = s.at
  /\ \A r \in knowledge : r.item <= items
  /\ \A r \in knowledge : r.status # "candidate" => [item |-> r.item, status |-> r.status] \in reviews
  /\ \A v \in reviews : v.item <= items
  /\ \A v \in reviews : v.item > forgotten.item => Decided(v)
  /\ \A v, w \in reviews : v.item = w.item => v = w
  /\ \A k \in prompt.knowledge : [item |-> k, status |-> "approved"] \in reviews

\* What is decided is what ListKnowledge finds.
LEMMA DecidedIsListed ==
  ASSUME TypeOK, LogInv, ReviewInv, NEW v, Decided(v)
  PROVE  v.item \in Items /\ Latest(Records(v.item)).status = v.status
<1>1. PICK r \in knowledge : /\ r.item = v.item /\ r.status = v.status
                             /\ \A s \in knowledge : s.item = r.item => s.id <= r.id
  BY DEF Decided
<1>2. v.item \in Items
  BY <1>1 DEF Items
<1> DEFINE l == Latest(Records(v.item))
<1>3. l \in knowledge /\ l.item = v.item /\ r.id <= l.id
  BY <1>1, <1>2, LastRecord DEF Records
<1>4. l.id <= r.id /\ l.id \in Nat /\ r.id \in Nat
  BY <1>1, <1>3 DEF TypeOK
<1>5. l = r
  <2> HIDE DEF l
  <2>1. l.id = r.id
    BY <1>3, <1>4
  <2> QED
    BY <1>3, <2>1 DEF ReviewInv
<1> QED
  BY <1>1, <1>2, <1>5

\* Feedback, reviews, pruning and /forget keep the books of the reviews.
LEMMA ReviewStep ==
  TypeOK /\ LogInv /\ ForgetInv /\ ReviewInv /\ [Next]_vars => ReviewInv'
<1> SUFFICES ASSUME TypeOK, LogInv, ForgetInv, ReviewInv, [Next]_vars PROVE ReviewInv'
  OBVIOUS
<1> USE DEF learning, ghosts
<1>0. items \in Nat /\ forgotten.item \in Nat /\ \A r \in knowledge : r.id \in Nat /\ r.item \in Nat
  BY MemoryAssumption DEF TypeOK
<1>p. ASSUME UNCHANGED prompt \/ prompt' = NoPrompt PROVE prompt'.knowledge \subseteq prompt.knowledge
  BY <1>p DEF NoPrompt
<1>1. ASSUME UNCHANGED <<knowledge, items, reviews, forgotten>>,
             \A k \in prompt'.knowledge : [item |-> k, status |-> "approved"] \in reviews
      PROVE  ReviewInv'
  BY <1>1 DEF ReviewInv, Decided
<1>2. ASSUME UNCHANGED <<knowledge, items, reviews, forgotten>>, UNCHANGED prompt \/ prompt' = NoPrompt
      PROVE  ReviewInv'
  BY <1>1, <1>2, <1>p DEF ReviewInv
<1>3. ASSUME NEW c \in Conversations, NEW q \in Questions, Ask(c, q) PROVE ReviewInv'
  <2>1. UNCHANGED <<knowledge, items, reviews, forgotten>>
    BY <1>3, AskFacts
  <2>2. CASE UNCHANGED prompt
    BY <1>2, <2>1, <2>2
  <2>3. CASE ~UNCHANGED prompt
    <3>1. PICK turns \in {{}, Loaded(c)}, recall \in BOOLEAN :
            \E mem \in {{}, RelevantMemories(q, recall)} : prompt' = Prompt(turns, mem, RelevantKnowledge(q))
      BY <1>3, <2>3, AskFacts
    <3>2. prompt'.knowledge = RelevantKnowledge(q)
      BY <3>1 DEF Prompt
    <3>3. ASSUME NEW k \in prompt'.knowledge PROVE [item |-> k, status |-> "approved"] \in reviews
      <4>1. k \in Items /\ Latest(Records(k)).status = "approved"
        BY <3>2, <3>3, UsedIsStored DEF ListKnowledge
      <4>2. Latest(Records(k)) \in knowledge /\ Latest(Records(k)).item = k
        BY <4>1, LastRecord
      <4> QED
        BY <4>1, <4>2 DEF ReviewInv
    <3> QED
      BY <1>1, <2>1, <3>3
  <2> QED
    BY <2>2, <2>3
<1>4. ASSUME NEW c \in Conversations, NEW topic \in Topics, SubmitFeedback(c, topic) PROVE ReviewInv'
  <2>1. UNCHANGED <<reviews, forgotten, prompt>>
    BY <1>4 DEF SubmitFeedback
  <2>2. CASE UNCHANGED <<knowledge, items>>
    BY <1>2, <2>1, <2>2
  <2>3. CASE ~UNCHANGED <<knowledge, items>>
    <3> DEFINE new == [id |-> NextRecord, item |-> items + 1, status |-> "candidate", topic |-> topic, at |-> clock]
    <3>1. items' = items + 1 /\ knowledge' = knowledge \cup {new}
      BY <1>4, <2>3 DEF SubmitFeedback
    <3>2. new.id = NextRecord /\ new.item = items + 1 /\ new.status = "candidate"
      OBVIOUS
    <3> HIDE DEF new
    <3>3. NextRecord \in Nat /\ \A r \in knowledge : r.id < NextRecord
      BY NextIsNew
    <3>4. \A r, s \in knowledge' : /\ r.id = s.id => r = s
                                   /\ r.item = s.item => r.at = s.at
      BY <1>0, <3>1, <3>2, <3>3 DEF ReviewInv
    <3>5. \A r \in knowledge' : r.item <= items'
      BY <1>0, <3>1, <3>2 DEF ReviewInv
    <3>6. \A r \in knowledge' : r.status # "candidate" => [item |-> r.item, status |-> r.status] \in reviews
      BY <3>1, <3>2 DEF ReviewInv
    <3>7. \A v \in reviews : v.item <= items /\ v.item \in Nat
      BY DEF ReviewInv, TypeOK
    <3>8. ASSUME NEW v \in reviews, v.item > forgotten.item PROVE Decided(v)'
      <4>1. PICK r \in knowledge : /\ r.item = v.item /\ r.status = v.status
                                   /\ \A s \in knowledge : s.item = r.item => s.id <= r.id
        BY <3>8 DEF ReviewInv, Decided
      <4>2. r.item # items + 1
        BY <1>0, <3>7, <4>1
      <4>3. \A s \in knowledge' : s.item = r.item => s.id <= r.id
        BY <3>1, <3>2, <4>1, <4>2
      <4>4. r \in knowledge'
        BY <3>1
      <4> QED
        BY <4>1, <4>3, <4>4 DEF Decided
    <3>9. \A v \in reviews : v.item <= items'
      BY <1>0, <3>1, <3>7
    <3> QED
      BY <2>1, <3>4, <3>5, <3>6, <3>8, <3>9 DEF ReviewInv
  <2> QED
    BY <2>2, <2>3
<1>5. ASSUME NEW k, NEW status \in {"approved", "rejected"}, ReviewKnowledge(k, status) PROVE ReviewInv'
  <2> DEFINE old == Latest(Records(k))
             new == [old EXCEPT !.id = NextRecord, !.status = status]
             review == [item |-> k, status |-> status]
  <2>1. /\ knowledge' = knowledge \cup {new} /\ reviews' = reviews \cup {review}
        /\ UNCHANGED <<items, forgotten, prompt>>
    BY <1>5 DEF ReviewKnowledge
  <2>2. k \in Items /\ old.status = "candidate"
    BY <1>5 DEF ReviewKnowledge, ListKnowledge
  <2>3. old \in knowledge /\ old.item = k
    BY <2>2, LastRecord
  <2>4. new.id = NextRecord /\ new.item = k /\ new.status = status /\ new.at = old.at
    BY <2>3 DEF TypeOK
  <2>5. review.item = k /\ review.status = status
    OBVIOUS
  <2> HIDE DEF old, new
  <2>6. NextRecord \in Nat /\ \A r \in knowledge : r.id < NextRecord
    BY NextIsNew
  <2>7. k > forgotten.item /\ k <= items /\ k \in Nat
    BY <1>0, <2>3 DEF ForgetInv, ReviewInv
  <2>8. \A v \in reviews : v.item # k
    <3> SUFFICES ASSUME NEW v \in reviews, v.item = k PROVE FALSE
      OBVIOUS
    <3>1. Decided(v)
      BY <2>7 DEF ReviewInv
    <3>2. old.status = v.status
      BY <3>1, DecidedIsListed DEF old
    <3>3. v.status # "candidate"
      BY DEF TypeOK
    <3> QED
      BY <2>2, <3>2, <3>3
  <2>9. \A r, s \in knowledge' : /\ r.id = s.id => r = s
                                 /\ r.item = s.item => r.at = s.at
    <3>1. \A r \in knowledge : r.item = k => r.at = old.at
      BY <2>3 DEF ReviewInv
    <3>2. \A r, s \in knowledge' : r.id = s.id => r = s
      BY <1>0, <2>1, <2>4, <2>6 DEF ReviewInv
    <3>3. \A r, s \in knowledge' : r.item = s.item => r.at = s.at
      BY <2>1, <2>4, <3>1 DEF ReviewInv
    <3> QED
      BY <3>2, <3>3
  <2>10. \A r \in knowledge' : r.item <= items
    BY <2>1, <2>4, <2>7 DEF ReviewInv
  <2>11. \A r \in knowledge' : r.status # "candidate" => [item |-> r.item, status |-> r.status] \in reviews'
    BY <2>1, <2>4 DEF ReviewInv
  <2>12. \A v \in reviews' : v.item <= items
    BY <2>1, <2>5, <2>7 DEF ReviewInv
  <2>13. ASSUME NEW v \in reviews', v.item > forgotten.item PROVE Decided(v)'
    <3>1. CASE v = review
      <4>1. new \in knowledge' /\ new.item = v.item /\ new.status = v.status
        BY <2>1, <2>4, <3>1
      <4>2. \A s \in knowledge' : s.item = new.item => s.id <= new.id
        BY <1>0, <2>1, <2>4, <2>6
      <4> QED
        BY <4>1, <4>2 DEF Decided
    <3>2. CASE v # review
      <4>1. v \in reviews /\ v.item # k
        BY <2>1, <2>8, <2>13, <3>2
      <4>2. PICK r \in knowledge : /\ r.item = v.item /\ r.status = v.status
                                   /\ \A s \in knowledge : s.item = r.item => s.id <= r.id
        BY <2>13, <4>1 DEF ReviewInv, Decided
      <4>3. r \in knowledge' /\ \A s \in knowledge' : s.item = r.item => s.id <= r.id
        BY <2>1, <2>4, <4>1, <4>2
      <4> QED
        BY <4>2, <4>3 DEF Decided
    <3> QED
      BY <3>1, <3>2
  <2>14. \A v, w \in reviews' : v.item = w.item => v = w
    BY <2>1, <2>5, <2>8 DEF ReviewInv
  <2>15. \A j \in prompt.knowledge : [item |-> j, status |-> "approved"] \in reviews'
    BY <2>1 DEF ReviewInv
  <2> QED
    BY <2>1, <2>9, <2>10, <2>11, <2>12, <2>13, <2>14, <2>15 DEF ReviewInv
\* Only candidates are dropped.
<1>6. ASSUME NEW kept, kept \subseteq knowledge, knowledge' = kept,
             \A r \in knowledge \ kept : r.status = "candidate",
             UNCHANGED <<items, reviews, forgotten, prompt>>
      PROVE  ReviewInv'
  <2>1. ASSUME NEW v \in reviews, v.item > forgotten.item PROVE Decided(v)'
    <3>1. PICK r \in knowledge : /\ r.item = v.item /\ r.status = v.status
                                 /\ \A s \in knowledge : s.item = r.item => s.id <= r.id
      BY <2>1 DEF ReviewInv, Decided
    <3>2. v.status # "candidate"
      BY DEF TypeOK
    <3> QED
      BY <1>6, <3>1, <3>2 DEF Decided
  <2> QED
    BY <1>6, <2>1 DEF ReviewInv
<1>7. CASE Prune
  <2>1. UNCHANGED <<items, reviews, forgotten, prompt>>
    BY <1>7 DEF Prune
  <2>2. CASE UNCHANGED knowledge
    BY <1>2, <2>1, <2>2
  <2>3. CASE knowledge' = {r \in knowledge : Keeps(r)}
    BY <1>6, <2>1, <2>3 DEF Keeps
  <2> QED
    BY <1>7, <2>2, <2>3 DEF Prune
<1>8. ASSUME NEW c \in Conversations, Forget(c) PROVE ReviewInv'
  <2>1. UNCHANGED <<items, prompt>> /\ prompt.knowledge = {}
    BY <1>8 DEF Forget, TypeOK, NoPrompt
  <2>2. CASE UNCHANGED <<forgotten, knowledge, reviews>>
    BY <1>2, <2>1, <2>2
  <2>3. CASE forgotten'.item = items /\ knowledge' = {} /\ UNCHANGED reviews
    <3>1. \A v \in reviews : ~(v.item > items)
      BY <1>0 DEF ReviewInv, TypeOK
    <3> QED
      BY <2>1, <2>3, <3>1 DEF ReviewInv
  \* The knowledge of some days is gone, and the reviews of its items with it.
  <2>4. ASSUME NEW days, UNCHANGED forgotten, knowledge' = OfDays(knowledge, days),
               reviews' = {v \in reviews : \E r \in knowledge' : r.item = v.item}
        PROVE  ReviewInv'
    <3>1. knowledge' \subseteq knowledge /\ reviews' \subseteq reviews
      BY <2>4 DEF OfDays
    <3>2. ASSUME NEW r \in knowledge', r.status # "candidate"
          PROVE  [item |-> r.item, status |-> r.status] \in reviews'
      BY <2>4, <3>1, <3>2 DEF ReviewInv
    <3>3. ASSUME NEW v \in reviews', v.item > forgotten.item PROVE Decided(v)'
      <4>1. PICK r \in knowledge : /\ r.item = v.item /\ r.status = v.status
                                   /\ \A s \in knowledge : s.item = r.item => s.id <= r.id
        BY <3>1, <3>3 DEF ReviewInv, Decided
      <4>2. PICK s \in knowledge' : s.item = v.item
        BY <2>4
      <4>3. r.at = s.at
        BY <3>1, <4>1, <4>2 DEF ReviewInv
      <4>4. r \in knowledge'
        BY <2>4, <4>2, <4>3 DEF OfDays
      <4> QED
        BY <3>1, <4>1, <4>4 DEF Decided
    <3> QED
      BY <2>1, <2>4, <3>1, <3>2, <3>3 DEF ReviewInv
  <2>5. \/ UNCHANGED <<forgotten, knowledge, reviews>>
        \/ forgotten'.item = items /\ knowledge' = {} /\ UNCHANGED reviews
        \/ /\ UNCHANGED forgotten
           /\ \E days : /\ knowledge' = OfDays(knowledge, days)
                         /\ reviews' = {v \in reviews : \E r \in knowledge' : r.item = v.item}
    BY <1>8 DEF Forget, ForgetLearningFails
  <2> QED
    BY <2>2, <2>3, <2>4, <2>5
<1>9. ASSUME NEW c \in Conversations, NEW q \in Questions, AskFails(c, q) PROVE ReviewInv'
  BY <1>2, <1>9 DEF AskFails
<1>10. ASSUME NEW c \in Conversations, ReadCommand(c) \/ NewConversation(c) PROVE ReviewInv'
  BY <1>2, <1>10 DEF ReadCommand, NewConversation
<1>11. ASSUME UNCHANGED vars \/ AppendMemory \/ WriteHistory \/ EndReply \/ Tick \/ Restart PROVE ReviewInv'
  BY <1>2, <1>11 DEF vars, AppendMemory, WriteHistory, EndReply, Tick, Restart
<1> QED
  BY <1>3, <1>4, <1>5, <1>7, <1>8, <1>9, <1>10, <1>11 DEF Next, LearningCommand

\* Only what the operator approved reaches the model, and what was approved
\* stays in use until a /forget removes its file, however often the store is pruned.
THEOREM ReviewSafe == Spec => []ReviewDecides
<1>1. Init => ForgetInv /\ ReviewInv
  BY DEF Init, ForgetInv, ReviewInv, NotLoaded, NoPrompt
<1>2. Spec => [](TypeOK /\ LogInv)
  BY TypeInit, TypeStep, PTL DEF Spec
<1>3. TypeOK /\ LogInv /\ ReviewInv => ReviewDecides
  <2> SUFFICES ASSUME TypeOK, LogInv, ReviewInv PROVE ReviewDecides
    OBVIOUS
  <2>1. ASSUME NEW k \in prompt.knowledge
        PROVE  [item |-> k, status |-> "approved"] \in reviews /\ [item |-> k, status |-> "rejected"] \notin reviews
    BY DEF ReviewInv
  <2>2. ASSUME NEW r \in reviews, r.status = "approved", r.item > forgotten.item
        PROVE  r.item \in ListKnowledge("approved")
    <3>1. Decided(r)
      BY <2>2 DEF ReviewInv
    <3> QED
      BY <2>2, <3>1, DecidedIsListed DEF ListKnowledge
  <2> QED
    BY <2>1, <2>2 DEF ReviewDecides
<1> QED
  BY <1>1, <1>2, <1>3, ForgetStep, ReviewStep, PTL DEF Spec
============================================================================
