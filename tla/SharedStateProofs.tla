------------------------- MODULE SharedStateProofs --------------------------
(***************************************************************************)
(* Theorems about services whose state the threads and tasks of one process *)
(* share: the escalation ladder, the case workflow, the graph analysis and *)
(* its caches, the experiments, alert routing, the canary and the event    *)
(* store.                                                                  *)
(***************************************************************************)
EXTENDS SharedState, FiniteSetTheorems, SequenceTheorems, TLAPS

-----------------------------------------------------------------------------
(***************************************************************************)
(* The escalation ladder                                                   *)
(***************************************************************************)
Escalations(a, name, n) == {f \in fired : f.alert = a /\ f.level = name /\ f.era = n}
Escalating(a) == {t \in Threads : step[t] # X!None /\ step[t].alert = a}

\* What was fired in the present era lies at or below the next level, and whoever fired
\* that one is still on the way to advance the position.
Climbed ==
  /\ index \in [Laddered -> Nat] /\ era \in [Laddered -> Nat]
  /\ step \in [Threads -> {X!None} \cup [alert : Laddered, at : Nat]]
  /\ IsFiniteSet(fired) /\ \A f \in fired : f.era <= era[f.alert]
  /\ \A f \in fired : f.alert \in Laddered /\ f.era \in Nat
  /\ \A f \in fired : f.era = era[f.alert] =>
       \E l \in 1..4 : f.level = X!Ladder[l] /\ l <= index[f.alert] + 1
  /\ \A a \in Laddered, l \in 1..4 :
       l = index[a] + 1 => Cardinality(Escalations(a, X!Ladder[l], era[a])) <= Cardinality(Escalating(a))
  /\ \A a \in Laddered, l \in 1..4, n \in Nat :
       Cardinality(Escalations(a, X!Ladder[l], n)) <= Cardinality(Threads)

LEMMA Levels == \A k, l \in 1..4 : X!Ladder[k] = X!Ladder[l] => k = l
  BY DEF X!Ladder

LEMMA LadderFinite ==
  ASSUME LadderThreads, IsFiniteSet(fired)
  PROVE  /\ \A a : IsFiniteSet(Escalating(a)) /\ Cardinality(Escalating(a)) \in Nat
                   /\ Cardinality(Escalating(a)) <= Cardinality(Threads)
         /\ \A a, name, n : IsFiniteSet(Escalations(a, name, n)) /\ Cardinality(Escalations(a, name, n)) \in Nat
         /\ Cardinality(Threads) \in Nat
  BY FS_Subset, FS_CardinalityType DEF LadderThreads, Escalating, Escalations

LEMMA LadderInit == ASSUME LadderThreads PROVE X!Init => Climbed
<1> SUFFICES ASSUME X!Init PROVE Climbed
  OBVIOUS
<1>1. fired = {} /\ IsFiniteSet(fired) /\ \A a, name, n : Escalations(a, name, n) = {}
  BY FS_EmptySet DEF X!Init, Escalations
<1> QED BY <1>1, FS_EmptySet, LadderFinite DEF X!Init, Climbed

LEMMA LadderStep == ASSUME LadderThreads PROVE Climbed /\ [X!Next]_(X!evars) => Climbed'
<1> SUFFICES ASSUME Climbed, [X!Next]_(X!evars) PROVE Climbed'
  OBVIOUS
<1>0. /\ index \in [Laddered -> Nat] /\ era \in [Laddered -> Nat]
      /\ step \in [Threads -> {X!None} \cup [alert : Laddered, at : Nat]] /\ IsFiniteSet(fired)
      /\ \A f \in fired : f.era <= era[f.alert] /\ f.alert \in Laddered /\ f.era \in Nat
  BY DEF Climbed
<1>1. ASSUME NEW t \in Threads, NEW a \in Laddered, X!Read(t, a) PROVE Climbed'
  <2> DEFINE new == [alert |-> a, level |-> X!Ladder[index[a] + 1], era |-> era[a], no |-> X!Cardinality(fired)]
             k == index[a] + 1
  <2>1. /\ step[t] = X!None /\ k \in 1..4 /\ step' = [step EXCEPT ![t] = [alert |-> a, at |-> index[a]]]
        /\ fired' = fired \cup {new} /\ UNCHANGED <<index, era>>
    BY <1>0, <1>1 DEF X!Read, X!Ladder
  <2>2. new.alert = a /\ new.level = X!Ladder[k] /\ new.era = era[a] /\ era[a] \in Nat
    BY <1>0
  <2> HIDE DEF new
  <2>3. IsFiniteSet(fired') /\ step' \in [Threads -> {X!None} \cup [alert : Laddered, at : Nat]]
    BY <1>0, <2>1, FS_AddElement
  <2>4. /\ \A f \in fired' : f.era <= era'[f.alert] /\ f.alert \in Laddered /\ f.era \in Nat
        /\ \A f \in fired' : f.era = era'[f.alert] =>
             \E l \in 1..4 : f.level = X!Ladder[l] /\ l <= index'[f.alert] + 1
    BY <1>0, <2>1, <2>2 DEF Climbed
  <2>5. Escalating(a)' = Escalating(a) \cup {t} /\ t \notin Escalating(a)
        /\ \A b \in Laddered : b # a => Escalating(b)' = Escalating(b)
    <3>1. [alert |-> a, at |-> index[a]] # X!None
      BY DEF X!None
    <3> QED BY <1>0, <2>1, <3>1 DEF Escalating
  <2>6. Cardinality(Escalating(a)') = Cardinality(Escalating(a)) + 1
    BY <1>0, <2>5, LadderFinite, FS_AddElement
  <2>7. /\ Escalations(a, X!Ladder[k], era[a])' \subseteq Escalations(a, X!Ladder[k], era[a]) \cup {new}
        /\ \A b \in Laddered, l \in 1..4, n \in Nat : (b # a \/ l # k \/ n # era[a]) =>
             Escalations(b, X!Ladder[l], n)' = Escalations(b, X!Ladder[l], n)
    BY <2>1, <2>2, Levels DEF Escalations
  <2>8. Cardinality(Escalations(a, X!Ladder[k], era[a])') <= Cardinality(Escalating(a)')
    <3> DEFINE s == Escalations(a, X!Ladder[k], era[a])
    <3>1. IsFiniteSet(s) /\ Cardinality(s) \in Nat /\ Cardinality(s) <= Cardinality(Escalating(a))
      BY <1>0, <2>1, LadderFinite DEF Climbed
    <3>2. IsFiniteSet(s \cup {new}) /\ Cardinality(s \cup {new}) <= Cardinality(s) + 1 /\ Cardinality(s \cup {new}) \in Nat
      <4>1. IsFiniteSet(s \cup {new})
        BY <3>1, FS_AddElement
      <4>2. Cardinality(s \cup {new}) = Cardinality(s) \/ Cardinality(s \cup {new}) = Cardinality(s) + 1
        BY <3>1, FS_AddElement
      <4> HIDE DEF s
      <4> QED BY <3>1, <4>1, <4>2
    <3>3. s' \subseteq s \cup {new}
      BY <2>7, <2>1
    <3>4. Cardinality(s') <= Cardinality(s \cup {new}) /\ Cardinality(s') \in Nat
      BY <3>2, <3>3, FS_Subset, FS_CardinalityType
    <3>5. Cardinality(Escalating(a)) \in Nat
      BY <1>0, LadderFinite
    <3> HIDE DEF s
    <3>6. Cardinality(s') <= Cardinality(Escalating(a)')
      BY <2>6, <3>1, <3>2, <3>4, <3>5
    <3> QED BY <2>1, <3>6 DEF s
  <2>9. \A b \in Laddered, l \in 1..4 : l = index'[b] + 1 =>
          Cardinality(Escalations(b, X!Ladder[l], era[b])') <= Cardinality(Escalating(b)')
    <3> SUFFICES ASSUME NEW b \in Laddered, NEW l \in 1..4, l = index'[b] + 1
                 PROVE  Cardinality(Escalations(b, X!Ladder[l], era[b])') <= Cardinality(Escalating(b)')
      OBVIOUS
    <3>1. CASE b = a
      BY <2>1, <2>8, <3>1
    <3>2. CASE b # a
      BY <1>0, <2>1, <2>5, <2>7, <3>2 DEF Climbed
    <3> QED BY <3>1, <3>2
  <2>10. \A b \in Laddered, l \in 1..4, n \in Nat :
           Cardinality(Escalations(b, X!Ladder[l], n)') <= Cardinality(Threads)
    <3> SUFFICES ASSUME NEW b \in Laddered, NEW l \in 1..4, NEW n \in Nat
                 PROVE  Cardinality(Escalations(b, X!Ladder[l], n)') <= Cardinality(Threads)
      OBVIOUS
    <3>1. CASE b # a \/ l # k \/ n # era[a]
      BY <2>7, <3>1 DEF Climbed
    <3>2. CASE b = a /\ l = k /\ n = era[a]
      <4>1. Cardinality(Escalating(a)') <= Cardinality(Threads) /\ Cardinality(Escalating(a)') \in Nat
        BY FS_Subset, FS_CardinalityType DEF LadderThreads, Escalating
      <4>2. Cardinality(Escalations(a, X!Ladder[k], era[a])') \in Nat /\ Cardinality(Threads) \in Nat
        BY <2>3, FS_Subset, FS_CardinalityType DEF LadderThreads, Escalations
      <4> QED BY <2>1, <2>8, <3>2, <4>1, <4>2
    <3> QED BY <3>1, <3>2
  <2>11. index' \in [Laddered -> Nat] /\ era' \in [Laddered -> Nat]
    BY <1>0, <2>1
  <2> HIDE DEF k
  <2> QED BY <2>3, <2>4, <2>9, <2>10, <2>11 DEF Climbed
<1>2. ASSUME NEW t \in Threads, X!Advance(t) PROVE Climbed'
  <2> DEFINE a == step[t].alert
             k == index[a] + 1
  <2>1. /\ step[t] # X!None /\ a \in Laddered /\ step[t] \in [alert : Laddered, at : Nat]
        /\ index' = [index EXCEPT ![a] = k] /\ step' = [step EXCEPT ![t] = X!None]
        /\ UNCHANGED <<era, fired>>
    BY <1>0, <1>2 DEF X!Advance, X!Advanced
  <2> HIDE DEF a
  <2>2. /\ index' \in [Laddered -> Nat] /\ era' \in [Laddered -> Nat] /\ IsFiniteSet(fired')
        /\ step' \in [Threads -> {X!None} \cup [alert : Laddered, at : Nat]] /\ k \in Nat
    BY <1>0, <2>1
  <2>3. \A f \in fired' : f.era <= era'[f.alert] /\ f.alert \in Laddered /\ f.era \in Nat
    BY <1>0, <2>1
  <2>4. \A f \in fired' : f.era = era'[f.alert] =>
             \E l \in 1..4 : f.level = X!Ladder[l] /\ l <= index'[f.alert] + 1
    <3> SUFFICES ASSUME NEW f \in fired, f.era = era[f.alert]
                 PROVE  \E l \in 1..4 : f.level = X!Ladder[l] /\ l <= index'[f.alert] + 1
      BY <2>1
    <3>1. PICK l \in 1..4 : f.level = X!Ladder[l] /\ l <= index[f.alert] + 1
      BY DEF Climbed
    <3>2. index[f.alert] <= index'[f.alert] /\ index[f.alert] \in Nat /\ index'[f.alert] \in Nat
      BY <1>0, <2>1
    <3> QED BY <3>1, <3>2
  <2>5. /\ \A b, name, n : Escalations(b, name, n)' = Escalations(b, name, n)
        /\ \A b \in Laddered : b # a => Escalating(b)' = Escalating(b)
    <3>1. \A t2 \in Threads : t2 # t => step'[t2] = step[t2]
      BY <1>0, <2>1
    <3>2. step[t].alert = a /\ step'[t] = X!None
      BY <1>0, <2>1 DEF a
    <3> QED BY <2>1, <3>1, <3>2 DEF Escalations, Escalating
  <2>6. \A l \in 1..4 : l = k + 1 => Escalations(a, X!Ladder[l], era[a]) = {}
    <3> SUFFICES ASSUME NEW l \in 1..4, l = k + 1, NEW f \in fired, f.alert = a, f.level = X!Ladder[l],
                        f.era = era[a]
                 PROVE  FALSE
      BY DEF Escalations
    <3>1. PICK m \in 1..4 : f.level = X!Ladder[m] /\ m <= index[f.alert] + 1
      BY DEF Climbed
    <3>2. m = l
      BY <3>1, Levels
    <3> QED BY <1>0, <2>1, <3>1, <3>2
  <2>7. \A b \in Laddered, l \in 1..4 : l = index'[b] + 1 =>
          Cardinality(Escalations(b, X!Ladder[l], era[b])') <= Cardinality(Escalating(b)')
    <3> SUFFICES ASSUME NEW b \in Laddered, NEW l \in 1..4, l = index'[b] + 1
                 PROVE  Cardinality(Escalations(b, X!Ladder[l], era[b])) <= Cardinality(Escalating(b)')
      BY <2>1, <2>5
    <3>1. CASE b = a
      <4>1. Cardinality(Escalations(b, X!Ladder[l], era[b])) = 0
        BY <1>0, <2>1, <2>6, <3>1, FS_EmptySet
      <4>2. Cardinality(Escalating(b)') \in Nat
        BY FS_Subset, FS_CardinalityType DEF LadderThreads, Escalating
      <4> QED BY <4>1, <4>2
    <3>2. CASE b # a
      <4>1. index'[b] = index[b] /\ Escalating(b)' = Escalating(b)
        BY <1>0, <2>1, <2>5, <3>2
      <4> QED BY <4>1 DEF Climbed
    <3> QED BY <3>1, <3>2
  <2>8. \A b \in Laddered, l \in 1..4, n \in Nat :
           Cardinality(Escalations(b, X!Ladder[l], n)') <= Cardinality(Threads)
    BY <2>5 DEF Climbed
  <2> HIDE DEF k
  <2> QED BY <2>2, <2>3, <2>4, <2>7, <2>8 DEF Climbed
<1>3. ASSUME NEW a \in Laddered, X!Acknowledge(a) PROVE Climbed'
  <2>1. /\ index' = [index EXCEPT ![a] = 0] /\ era' = [era EXCEPT ![a] = era[a] + 1]
        /\ UNCHANGED <<step, fired>>
    BY <1>0, <1>3 DEF X!Acknowledge
  <2>2. /\ index' \in [Laddered -> Nat] /\ era' \in [Laddered -> Nat] /\ IsFiniteSet(fired')
        /\ step' \in [Threads -> {X!None} \cup [alert : Laddered, at : Nat]]
        /\ era'[a] \in Nat /\ era'[a] = era[a] + 1 /\ \A b \in Laddered : era[b] <= era'[b]
    BY <1>0, <2>1
  <2>3. \A f \in fired' : f.era <= era'[f.alert] /\ f.alert \in Laddered /\ f.era \in Nat
    BY <1>0, <2>1
  <2>4. \A f \in fired' : f.era = era'[f.alert] =>
             \E l \in 1..4 : f.level = X!Ladder[l] /\ l <= index'[f.alert] + 1
    BY <1>0, <2>1 DEF Climbed
  <2>5. /\ \A b, name, n : Escalations(b, name, n)' = Escalations(b, name, n)
        /\ \A b : Escalating(b)' = Escalating(b)
    BY <2>1 DEF Escalations, Escalating
  <2>6. \A name : Escalations(a, name, era'[a]) = {}
    BY <1>0, <2>1 DEF Escalations
  <2>7. \A b \in Laddered, l \in 1..4 : l = index'[b] + 1 =>
          Cardinality(Escalations(b, X!Ladder[l], era[b])') <= Cardinality(Escalating(b)')
    <3> SUFFICES ASSUME NEW b \in Laddered, NEW l \in 1..4, l = index'[b] + 1
                 PROVE  Cardinality(Escalations(b, X!Ladder[l], era'[b])) <= Cardinality(Escalating(b))
      BY <2>5
    <3>1. CASE b = a
      <4>1. Cardinality(Escalations(b, X!Ladder[l], era'[b])) = 0
        BY <2>6, <3>1, FS_EmptySet
      <4> QED BY <1>0, <4>1, LadderFinite
    <3>2. CASE b # a
      <4>1. index'[b] = index[b] /\ era'[b] = era[b]
        BY <1>0, <2>1, <3>2
      <4> QED BY <4>1 DEF Climbed
    <3> QED BY <3>1, <3>2
  <2>8. \A b \in Laddered, l \in 1..4, n \in Nat :
           Cardinality(Escalations(b, X!Ladder[l], n)') <= Cardinality(Threads)
    BY <2>5 DEF Climbed
  <2> QED BY <2>2, <2>3, <2>4, <2>7, <2>8 DEF Climbed
<1>4. CASE UNCHANGED X!evars
  <2>1. index' = index /\ step' = step /\ era' = era /\ fired' = fired
    BY <1>4 DEF X!evars
  <2>2. /\ \A b, name, n : Escalations(b, name, n)' = Escalations(b, name, n)
        /\ \A b : Escalating(b)' = Escalating(b)
    BY <2>1 DEF Escalations, Escalating
  <2> QED BY <2>1, <2>2 DEF Climbed
<1> QED BY <1>1, <1>2, <1>3, <1>4 DEF X!Next

LEMMA CardinalityIsLibrary == \A set : X!Cardinality(set) = Cardinality(set)
  BY DEF X!Cardinality, Cardinality

\* The highest level fired since the acknowledgement, or 0, and what the calls under way
\* will add to the position.
Reached(a, top) ==
  /\ top > 0 => \E f \in fired : f.alert = a /\ f.era = era[a] /\ f.level = X!Ladder[top]
  /\ index[a] + Cardinality(Escalating(a)) <= top + Cardinality(Threads)
NotFarAhead == \A a \in Laddered : \E top \in 0..4 : Reached(a, top)

LEMMA SkipsInit == ASSUME LadderThreads PROVE X!Init => NotFarAhead
<1> SUFFICES ASSUME X!Init, NEW a \in Laddered PROVE Reached(a, 0)
  BY DEF NotFarAhead
<1>1. index[a] = 0 /\ IsFiniteSet(fired)
  BY FS_EmptySet DEF X!Init
<1> QED BY <1>1, LadderFinite DEF Reached

LEMMA SkipsStep == ASSUME LadderThreads PROVE Climbed /\ NotFarAhead /\ [X!Next]_(X!evars) => NotFarAhead'
<1> SUFFICES ASSUME Climbed, NotFarAhead, [X!Next]_(X!evars) PROVE NotFarAhead'
  OBVIOUS
<1>0. /\ index \in [Laddered -> Nat] /\ era \in [Laddered -> Nat]
      /\ step \in [Threads -> {X!None} \cup [alert : Laddered, at : Nat]] /\ IsFiniteSet(fired)
      /\ \A f \in fired : f.era <= era[f.alert] /\ f.alert \in Laddered /\ f.era \in Nat
  BY DEF Climbed
<1>f. \A a : Cardinality(Escalating(a)) \in Nat /\ IsFiniteSet(Escalating(a))
  BY <1>0, LadderFinite
<1>t. Cardinality(Threads) \in Nat
  BY <1>0, LadderFinite
\* A call that begins fires the level above the position.
<1>1. ASSUME NEW t \in Threads, NEW a \in Laddered, X!Read(t, a) PROVE NotFarAhead'
  <2> DEFINE new == [alert |-> a, level |-> X!Ladder[index[a] + 1], era |-> era[a], no |-> X!Cardinality(fired)]
             k == index[a] + 1
  <2>1. /\ step[t] = X!None /\ k \in 1..4 /\ step' = [step EXCEPT ![t] = [alert |-> a, at |-> index[a]]]
        /\ fired' = fired \cup {new} /\ UNCHANGED <<index, era>>
    BY <1>0, <1>1 DEF X!Read, X!Ladder
  <2>2. new.alert = a /\ new.level = X!Ladder[k] /\ new.era = era[a] /\ index[a] \in Nat
    BY <1>0
  <2>3. \A b \in Laddered : b # a => Escalating(b)' = Escalating(b)
    <3>1. [alert |-> a, at |-> index[a]] # X!None
      BY DEF X!None
    <3> QED BY <1>0, <2>1, <3>1 DEF Escalating
  <2> HIDE DEF new
  <2>4. Cardinality(Escalating(a)') \in Nat /\ Cardinality(Escalating(a)') <= Cardinality(Threads)
    BY FS_Subset, FS_CardinalityType DEF LadderThreads, Escalating
  <2> SUFFICES ASSUME NEW b \in Laddered PROVE \E top \in 0..4 : Reached(b, top)'
    BY DEF NotFarAhead
  <2>5. CASE b = a
    <3>1. \E f \in fired' : f.alert = a /\ f.era = era'[a] /\ f.level = X!Ladder[k]
      BY <2>1, <2>2
    <3>2. index'[a] + Cardinality(Escalating(a)') <= k + Cardinality(Threads)
      BY <1>t, <2>1, <2>2, <2>4
    <3>3. \E top \in 0..4 : /\ top > 0 => \E f \in fired' : f.alert = a /\ f.era = era'[a] /\ f.level = X!Ladder[top]
                           /\ index'[a] + Cardinality(Escalating(a)') <= top + Cardinality(Threads)
      <4> HIDE DEF k
      <4> QED BY <2>1, <3>1, <3>2
    <3> QED BY <2>5, <3>3 DEF Reached
  <2>6. CASE b # a
    BY <2>1, <2>3, <2>6 DEF NotFarAhead, Reached
  <2> QED BY <2>5, <2>6
\* A call that ends moves the position up by the one it counted for.
<1>2. ASSUME NEW t \in Threads, X!Advance(t) PROVE NotFarAhead'
  <2>0. PICK a \in Laddered : a = step[t].alert /\ step[t] # X!None
    BY <1>0, <1>2 DEF X!Advance
  <2>1. /\ step[t] # X!None /\ step[t].alert = a
        /\ index' = [index EXCEPT ![a] = index[a] + 1] /\ step' = [step EXCEPT ![t] = X!None]
        /\ UNCHANGED <<era, fired>>
    BY <1>2, <2>0 DEF X!Advance, X!Advanced
  <2>2. /\ t \in Escalating(a) /\ Escalating(a)' = Escalating(a) \ {t}
        /\ \A b \in Laddered : b # a => Escalating(b)' = Escalating(b)
    <3>1. \A t2 \in Threads : t2 # t => step'[t2] = step[t2]
      BY <1>0, <2>1
    <3>2. step'[t] = X!None
      BY <1>0, <2>1
    <3> QED BY <2>1, <3>1, <3>2 DEF Escalating
  <2>3. Cardinality(Escalating(a)') = Cardinality(Escalating(a)) - 1
    BY <1>f, <2>2, FS_RemoveElement
  <2> SUFFICES ASSUME NEW b \in Laddered, NEW top \in 0..4, Reached(b, top) PROVE Reached(b, top)'
    BY DEF NotFarAhead
  <2>4. CASE b = a
    <3>1. index'[b] = index[b] + 1 /\ index[b] \in Nat
      BY <1>0, <2>1, <2>4
    <3>2. index'[b] + Cardinality(Escalating(b)') <= top + Cardinality(Threads)
      BY <1>f, <1>t, <2>3, <2>4, <3>1 DEF Reached
    <3> QED BY <2>1, <3>2 DEF Reached
  <2>5. CASE b # a
    BY <1>0, <2>1, <2>2, <2>5 DEF Reached
  <2> QED BY <2>4, <2>5
\* After an acknowledgement only the calls under way can be ahead.
<1>3. ASSUME NEW a \in Laddered, X!Acknowledge(a) PROVE NotFarAhead'
  <2>1. /\ index' = [index EXCEPT ![a] = 0] /\ era' = [era EXCEPT ![a] = era[a] + 1]
        /\ UNCHANGED <<step, fired>>
    BY <1>0, <1>3 DEF X!Acknowledge
  <2>2. \A b : Escalating(b)' = Escalating(b)
    BY <2>1 DEF Escalating
  <2> SUFFICES ASSUME NEW b \in Laddered PROVE \E top \in 0..4 : Reached(b, top)'
    BY DEF NotFarAhead
  <2>3. CASE b = a
    <3>1. index'[b] = 0 /\ Cardinality(Escalating(b)) <= Cardinality(Threads)
      BY <1>0, <2>1, <2>3, LadderFinite
    <3>2. Reached(b, 0)'
      BY <1>f, <1>t, <2>2, <3>1 DEF Reached
    <3> QED BY <3>2
  <2>4. CASE b # a
    BY <1>0, <2>1, <2>2, <2>4 DEF NotFarAhead, Reached
  <2> QED BY <2>3, <2>4
<1>4. CASE UNCHANGED X!evars
  BY <1>4 DEF X!evars, NotFarAhead, Reached, Escalating
<1> QED BY <1>1, <1>2, <1>3, <1>4 DEF X!Next

\* Between two acknowledgements of an alert no level of the ladder fires more often than
\* there are threads that escalate, and no more levels in a row are passed over.
THEOREM LadderIsFollowed == X!Spec => []LadderFollowed
<1>1. X!Init => Climbed /\ NotFarAhead
  BY LadderInit, SkipsInit, SharedStateAssumption
<1>2. Climbed /\ NotFarAhead /\ [X!Next]_(X!evars) => Climbed' /\ NotFarAhead'
  BY LadderStep, SkipsStep, SharedStateAssumption
<1>3. Climbed /\ NotFarAhead => LadderFollowed
  <2> SUFFICES ASSUME Climbed, NotFarAhead PROVE X!FewRepeats /\ X!FewSkips
    BY DEF LadderFollowed, X!LadderFollowed
  <2>1. X!FewRepeats
    <3> SUFFICES ASSUME NEW a \in Laddered, NEW l \in 1..4, NEW n \in 0..MaxCalls
                 PROVE  Cardinality(Escalations(a, X!Ladder[l], n)) <= Cardinality(Threads)
      BY CardinalityIsLibrary DEF X!FewRepeats, Escalations, X!Ladder
    <3>1. n \in Nat
      OBVIOUS
    <3> QED BY <3>1 DEF Climbed
  <2>2. X!FewSkips
    <3>1. Len(X!Ladder) = 4
      BY DEF X!Ladder
    <3> QED BY <3>1, CardinalityIsLibrary DEF X!FewSkips, NotFarAhead, Reached, Escalating
  <2> QED BY <2>1, <2>2
<1> QED BY <1>1, <1>2, <1>3, PTL DEF X!Spec

-----------------------------------------------------------------------------
(***************************************************************************)
(* The case workflow                                                       *)
(***************************************************************************)
Held(a) == {c \in Cases : cases[c].assignee = a /\ cases[c].state \in C!Active}

Loaded ==
  /\ cases \in [Cases -> [state : {"absent"} \cup C!States, assignee : {C!Nobody} \cup Analysts]]
  /\ limit \in [Analysts -> Nat] /\ roof \in [Analysts -> Nat]
  /\ manual \in [Analysts -> Nat] /\ reopened \in [Analysts -> Nat]
  /\ \A a \in Analysts : limit[a] <= roof[a]
  /\ \A a \in Analysts : Cardinality(Held(a)) <= roof[a] + manual[a] + reopened[a]

LEMMA WorkloadIsHeld == \A a : C!Workload(a) = Cardinality(Held(a))
  BY DEF C!Workload, C!Cardinality, Cardinality, Held

LEMMA HeldFinite ==
  ASSUME CaseSettings
  PROVE  /\ \A a : IsFiniteSet(Held(a)) /\ Cardinality(Held(a)) \in Nat
         /\ \A a : IsFiniteSet(Held(a)') /\ Cardinality(Held(a)') \in Nat
  BY FS_Subset, FS_CardinalityType DEF CaseSettings, Held

\* A step that touches one case adds at most this case to what an analyst holds.
LEMMA OneMoreCase ==
  ASSUME CaseSettings, NEW c, NEW a, Held(a)' \subseteq Held(a) \cup {c}
  PROVE  Cardinality(Held(a)') <= Cardinality(Held(a)) + 1
<1>1. IsFiniteSet(Held(a)) /\ IsFiniteSet(Held(a) \cup {c})
  BY HeldFinite, FS_AddElement
<1>2. \/ Cardinality(Held(a) \cup {c}) = Cardinality(Held(a))
      \/ Cardinality(Held(a) \cup {c}) = Cardinality(Held(a)) + 1
  BY <1>1, FS_AddElement
<1>3. Cardinality(Held(a)') <= Cardinality(Held(a) \cup {c})
  BY <1>1, FS_Subset
<1> HIDE DEF Held
<1> QED BY <1>2, <1>3, HeldFinite

LEMMA FewerCases ==
  ASSUME CaseSettings, NEW a, Held(a)' \subseteq Held(a)
  PROVE  Cardinality(Held(a)') <= Cardinality(Held(a))
  BY HeldFinite, FS_Subset

LEMMA LoadedInit == ASSUME CaseSettings PROVE C!Init => Loaded
<1> SUFFICES ASSUME C!Init PROVE Loaded
  OBVIOUS
<1>1. \A a \in Analysts : Held(a) = {}
  BY DEF C!Init, Held, C!Active
<1>2. \A a \in Analysts : Cardinality(Held(a)) = 0
  BY <1>1, FS_EmptySet
<1> QED BY <1>2 DEF C!Init, Loaded

LEMMA LoadedStep == ASSUME CaseSettings PROVE Loaded /\ [C!Next]_(C!cwvars) => Loaded'
<1> SUFFICES ASSUME Loaded, [C!Next]_(C!cwvars) PROVE Loaded'
  OBVIOUS
<1> DEFINE Record == [state : {"absent"} \cup C!States, assignee : {C!Nobody} \cup Analysts]
<1>0. /\ cases \in [Cases -> Record] /\ limit \in [Analysts -> Nat] /\ roof \in [Analysts -> Nat]
      /\ manual \in [Analysts -> Nat] /\ reopened \in [Analysts -> Nat]
      /\ \A a \in Analysts : limit[a] <= roof[a]
      /\ \A a \in Analysts : Cardinality(Held(a)) <= roof[a] + manual[a] + reopened[a]
  BY DEF Loaded
<1>F. /\ \A a : IsFiniteSet(Held(a)) /\ Cardinality(Held(a)) \in Nat
      /\ \A a : IsFiniteSet(Held(a)') /\ Cardinality(Held(a)') \in Nat
  BY HeldFinite
<1>1. ASSUME NEW b \in Analysts, NEW n \in Limits, C!RegisterAnalyst(b, n) PROVE Loaded'
  <2> DEFINE m == IF n > roof[b] THEN n ELSE roof[b]
  <2>1. /\ limit' = [limit EXCEPT ![b] = n] /\ roof' = [roof EXCEPT ![b] = m]
        /\ UNCHANGED <<cases, manual, reopened>>
    BY <1>1 DEF C!RegisterAnalyst
  <2>2. n \in Nat /\ m \in Nat /\ n <= m /\ roof[b] <= m
    BY <1>0 DEF CaseSettings
  <2> HIDE DEF m
  <2>3. \A a : Held(a)' = Held(a)
    BY <2>1 DEF Held
  <2>4. /\ limit' \in [Analysts -> Nat] /\ roof' \in [Analysts -> Nat]
        /\ \A a \in Analysts : limit'[a] <= roof'[a] /\ roof[a] <= roof'[a]
    BY <1>0, <2>1, <2>2
  <2>5. \A a \in Analysts : Cardinality(Held(a)') <= roof'[a] + manual'[a] + reopened'[a]
    <3> SUFFICES ASSUME NEW a \in Analysts PROVE Cardinality(Held(a)) <= roof'[a] + manual[a] + reopened[a]
      BY <2>1, <2>3
    <3>1. roof[a] \in Nat /\ roof'[a] \in Nat /\ roof[a] <= roof'[a] /\ manual[a] \in Nat /\ reopened[a] \in Nat
      BY <1>0, <2>4
    <3> QED BY <1>0, <1>F, <3>1
  <2> QED BY <1>0, <2>1, <2>4, <2>5 DEF Loaded
<1>2. ASSUME NEW b \in Analysts, C!RemoveAnalyst(b) PROVE Loaded'
  <2>1. /\ limit' = [limit EXCEPT ![b] = 0] /\ UNCHANGED <<cases, roof, manual, reopened>>
    BY <1>2 DEF C!RemoveAnalyst
  <2>2. \A a : Held(a)' = Held(a)
    BY <2>1 DEF Held
  <2>3. limit' \in [Analysts -> Nat] /\ \A a \in Analysts : limit'[a] <= roof[a]
    BY <1>0, <2>1
  <2> QED BY <1>0, <2>1, <2>2, <2>3 DEF Loaded
<1>3. ASSUME NEW c \in Cases, C!CreateCase(c) PROVE Loaded'
  <2>1. /\ cases' = [cases EXCEPT ![c] = [state |-> "open", assignee |-> C!Nobody]]
        /\ UNCHANGED <<limit, roof, manual, reopened>>
    BY <1>3 DEF C!CreateCase
  <2>2. cases' \in [Cases -> Record]
    BY <1>0, <2>1 DEF C!States
  <2>3. \A a \in Analysts : Held(a)' \subseteq Held(a)
    BY <1>0, <2>1 DEF Held, CaseSettings
  <2>4. \A a \in Analysts : Cardinality(Held(a)') <= Cardinality(Held(a))
    BY <2>3, FewerCases
  <2>5. \A a \in Analysts : Cardinality(Held(a)') <= roof[a] + manual[a] + reopened[a]
    BY <1>0, <1>F, <2>4
  <2> QED BY <1>0, <2>1, <2>2, <2>5 DEF Loaded
<1>4. ASSUME NEW c \in Cases, NEW s \in C!States, C!Transition(c, s) PROVE Loaded'
  <2> DEFINE who == cases[c].assignee
             reopens == cases[c].state = "resolved" /\ s \in C!Active
  <2>1. /\ s \in C!ValidTransitions[cases[c].state] /\ cases' = [cases EXCEPT ![c].state = s]
        /\ IF reopens /\ who # C!Nobody
           THEN reopened' = [reopened EXCEPT ![who] = reopened[who] + 1]
           ELSE reopened' = reopened
        /\ UNCHANGED <<limit, roof, manual>>
    BY <1>4 DEF C!Transition
  <2>2. cases[c] \in Record /\ cases' \in [Cases -> Record] /\ cases'[c].assignee = who /\ cases'[c].state = s
        /\ \A d \in Cases : d # c => cases'[d] = cases[d]
    BY <1>0, <2>1
  <2>3. /\ reopened' \in [Analysts -> Nat]
        /\ \A a \in Analysts : reopened[a] <= reopened'[a]
        /\ reopens /\ who # C!Nobody => who \in Analysts /\ reopened'[who] = reopened[who] + 1
    BY <1>0, <2>1, <2>2
  <2>4. ~reopens => \A a : Held(a)' \subseteq Held(a)
    <3>1. ~reopens /\ s \in C!Active => cases[c].state \in C!Active
      BY <2>1, <2>2 DEF C!ValidTransitions, C!States, C!Active
    <3> QED BY <2>2, <3>1 DEF Held
  <2>5. \A a : a # who => Held(a)' \subseteq Held(a)
    BY <2>2 DEF Held
  <2>6. Held(who)' \subseteq Held(who) \cup {c}
    BY <2>2 DEF Held
  <2>7. \A a \in Analysts : Cardinality(Held(a)') <= roof[a] + manual[a] + reopened'[a]
    <3> SUFFICES ASSUME NEW a \in Analysts PROVE Cardinality(Held(a)') <= roof[a] + manual[a] + reopened'[a]
      OBVIOUS
    <3>0. /\ roof[a] \in Nat /\ manual[a] \in Nat /\ reopened[a] \in Nat /\ reopened'[a] \in Nat
          /\ reopened[a] <= reopened'[a] /\ Cardinality(Held(a)) <= roof[a] + manual[a] + reopened[a]
      BY <1>0, <2>3
    <3>1. CASE a = who /\ reopens
      <4>1. who # C!Nobody
        BY <3>1 DEF CaseSettings
      <4>2. reopened'[a] = reopened[a] + 1
        BY <2>3, <3>1, <4>1
      <4>3. Held(a)' \subseteq Held(a) \cup {c}
        BY <2>2 DEF Held
      <4>4. Cardinality(Held(a)') <= Cardinality(Held(a)) + 1
        BY <4>3, OneMoreCase
      <4> QED BY <1>F, <3>0, <4>2, <4>4
    <3>2. CASE ~(a = who /\ reopens)
      <4>1. Cardinality(Held(a)') <= Cardinality(Held(a))
        BY <2>4, <2>5, <3>2, FewerCases
      <4> QED BY <1>F, <3>0, <4>1
    <3> QED BY <3>1, <3>2
  <2> QED BY <1>0, <2>1, <2>2, <2>3, <2>7 DEF Loaded
<1>5. ASSUME NEW c \in Cases, C!AutoAssign(c) PROVE Loaded'
  <2>1. PICK b \in C!BestFit(c) : cases' = [cases EXCEPT ![c].assignee = b]
    BY <1>5 DEF C!AutoAssign
  <2>2. b \in Analysts /\ Cardinality(Held(b)) < limit[b] /\ UNCHANGED <<limit, roof, manual, reopened>>
    BY <1>5, WorkloadIsHeld DEF C!AutoAssign, C!BestFit, C!Candidates, C!HasRoom
  <2>3. cases' \in [Cases -> Record] /\ \A d \in Cases : d # c => cases'[d] = cases[d]
    BY <1>0, <2>1, <2>2
  <2>4. cases'[c].assignee = b
    BY <1>0, <2>1, <2>2
  <2>5. \A a \in Analysts : Cardinality(Held(a)') <= roof[a] + manual[a] + reopened[a]
    <3> SUFFICES ASSUME NEW a \in Analysts PROVE Cardinality(Held(a)') <= roof[a] + manual[a] + reopened[a]
      OBVIOUS
    <3>0. /\ roof[a] \in Nat /\ manual[a] \in Nat /\ reopened[a] \in Nat /\ limit[a] \in Nat
          /\ limit[a] <= roof[a] /\ Cardinality(Held(a)) <= roof[a] + manual[a] + reopened[a]
      BY <1>0
    <3>1. CASE a = b
      <4>1. Held(a)' \subseteq Held(a) \cup {c}
        BY <2>3 DEF Held
      <4>2. Cardinality(Held(a)') <= Cardinality(Held(a)) + 1
        BY <4>1, OneMoreCase
      <4> QED BY <1>F, <2>2, <3>0, <3>1, <4>2
    <3>2. CASE a # b
      <4>1. Held(a)' \subseteq Held(a)
        BY <2>3, <2>4, <3>2 DEF Held
      <4>2. Cardinality(Held(a)') <= Cardinality(Held(a))
        BY <4>1, FewerCases
      <4> QED BY <1>F, <3>0, <4>2
    <3> QED BY <3>1, <3>2
  <2> QED BY <1>0, <2>2, <2>3, <2>5 DEF Loaded
<1>6. ASSUME NEW c \in Cases, NEW b \in Analysts, C!Assign(c, b) PROVE Loaded'
  <2>1. /\ cases' = [cases EXCEPT ![c].assignee = b] /\ manual' = [manual EXCEPT ![b] = manual[b] + 1]
        /\ UNCHANGED <<limit, roof, reopened>>
    BY <1>6 DEF C!Assign
  <2>2. /\ cases' \in [Cases -> Record] /\ \A d \in Cases : d # c => cases'[d] = cases[d]
        /\ cases'[c].assignee = b
    BY <1>0, <2>1
  <2>3. manual' \in [Analysts -> Nat] /\ manual'[b] = manual[b] + 1 /\ \A a \in Analysts : manual[a] <= manual'[a]
    BY <1>0, <2>1
  <2>4. \A a \in Analysts : Cardinality(Held(a)') <= roof[a] + manual'[a] + reopened[a]
    <3> SUFFICES ASSUME NEW a \in Analysts PROVE Cardinality(Held(a)') <= roof[a] + manual'[a] + reopened[a]
      OBVIOUS
    <3>0. /\ roof[a] \in Nat /\ manual[a] \in Nat /\ manual'[a] \in Nat /\ reopened[a] \in Nat
          /\ manual[a] <= manual'[a] /\ Cardinality(Held(a)) <= roof[a] + manual[a] + reopened[a]
      BY <1>0, <2>3
    <3>1. CASE a = b
      <4>1. Held(a)' \subseteq Held(a) \cup {c}
        BY <2>2 DEF Held
      <4>2. Cardinality(Held(a)') <= Cardinality(Held(a)) + 1
        BY <4>1, OneMoreCase
      <4> QED BY <1>F, <2>3, <3>0, <3>1, <4>2
    <3>2. CASE a # b
      <4>1. Held(a)' \subseteq Held(a)
        BY <2>2, <3>2 DEF Held
      <4>2. Cardinality(Held(a)') <= Cardinality(Held(a))
        BY <4>1, FewerCases
      <4> QED BY <1>F, <3>0, <4>2
    <3> QED BY <3>1, <3>2
  <2> QED BY <1>0, <2>1, <2>2, <2>3, <2>4 DEF Loaded
<1>7. CASE UNCHANGED C!cwvars
  <2>1. /\ cases' = cases /\ limit' = limit /\ roof' = roof /\ manual' = manual /\ reopened' = reopened
        /\ \A a : Held(a)' = Held(a)
    BY <1>7 DEF C!cwvars, Held
  <2> QED BY <1>0, <2>1 DEF Loaded
<1> QED BY <1>1, <1>2, <1>3, <1>4, <1>5, <1>6, <1>7 DEF C!Next

\* Only manual assignments and reopened cases take an analyst over the highest max_cases
\* ever registered for the analyst, by one case each.
THEOREM CaseLoadBound == C!Spec => []LoadBound
<1>1. C!Init => Loaded
  BY LoadedInit, SharedStateAssumption
<1>2. Loaded /\ [C!Next]_(C!cwvars) => Loaded'
  BY LoadedStep, SharedStateAssumption
<1>3. Loaded => LoadBound
  BY WorkloadIsHeld DEF Loaded, LoadBound, C!LoadBound
<1> QED BY <1>1, <1>2, <1>3, PTL DEF C!Spec

-----------------------------------------------------------------------------
(***************************************************************************)
(* Graph analysis                                                          *)
(***************************************************************************)
Calls == {"none", "pagerank", "community", "risk"}

\* A PageRank under way has read the graph of its start, and what was added since has raced
\* with it; a cached one that no addition has made dirty misses only such transactions.
Covered ==
  /\ graph \subseteq Txns /\ cache \in [G!Kinds -> {G!None} \cup [on : SUBSET Txns]]
  /\ task \in [Analyses -> [for : Calls, kind : {"none"} \cup G!Kinds, base : SUBSET Txns]]
  /\ \A c \in Analyses : task[c].kind = "pagerank" => graph \ task[c].base \subseteq raced
  /\ cache["pagerank"] # G!None /\ ~dirty => graph \ cache["pagerank"].on \subseteq raced

\* Whatever a caller turns to next starts from the present graph.
LEMMA TurnsTo ==
  ASSUME NEW c \in Analyses, NEW for \in Calls, graph \subseteq Txns,
         task \in [Analyses -> [for : Calls, kind : {"none"} \cup G!Kinds, base : SUBSET Txns]],
         \/ \E k \in G!Kinds : G!Run(c, for, k)
         \/ \E served : G!After(c, for, served)
  PROVE  /\ task' \in [Analyses -> [for : Calls, kind : {"none"} \cup G!Kinds, base : SUBSET Txns]]
         /\ \A d \in Analyses : d # c => task'[d] = task[d]
         /\ task'[c].kind = "pagerank" => task'[c].base = graph
<1> DEFINE Task == [for : Calls, kind : {"none"} \cup G!Kinds, base : SUBSET Txns]
<1>1. G!Idle \in Task /\ G!Idle.kind = "none"
  BY DEF G!Idle, Calls
<1>2. ASSUME NEW k \in G!Kinds
      PROVE  [for |-> for, kind |-> k, base |-> graph] \in Task
  OBVIOUS
<1>3. \/ task' = [task EXCEPT ![c] = G!Idle]
      \/ \E k \in G!Kinds : task' = [task EXCEPT ![c] = [for |-> for, kind |-> k, base |-> graph]]
  BY DEF G!Run, G!After, G!DetectCommunities, G!Betweenness, G!Kinds
<1>4. CASE task' = [task EXCEPT ![c] = G!Idle]
  BY <1>1, <1>4
<1>5. ASSUME NEW k \in G!Kinds, task' = [task EXCEPT ![c] = [for |-> for, kind |-> k, base |-> graph]]
      PROVE  /\ task' \in [Analyses -> Task]
             /\ \A d \in Analyses : d # c => task'[d] = task[d]
             /\ task'[c].kind = "pagerank" => task'[c].base = graph
  <2> DEFINE run == [for |-> for, kind |-> k, base |-> graph]
  <2>1. run \in Task /\ run.base = graph
    BY <1>2
  <2> HIDE DEF run, Task
  <2>2. task' = [task EXCEPT ![c] = run]
    BY <1>5 DEF run
  <2> QED BY <2>1, <2>2 DEF Task
<1> QED BY <1>3, <1>4, <1>5

LEMMA CoveredInit == G!Init => Covered
<1> SUFFICES ASSUME G!Init PROVE Covered
  OBVIOUS
<1>1. graph = {} /\ cache \in [G!Kinds -> {G!None} \cup [on : SUBSET Txns]]
  BY DEF G!Init
<1>2. G!Idle \in [for : Calls, kind : {"none"} \cup G!Kinds, base : SUBSET Txns]
  BY DEF G!Idle, Calls
<1>3. task \in [Analyses -> [for : Calls, kind : {"none"} \cup G!Kinds, base : SUBSET Txns]]
  BY <1>2 DEF G!Init
<1> QED BY <1>1, <1>3 DEF Covered

LEMMA CoveredStep == Covered /\ [G!Next]_(G!gcvars) => Covered'
<1> SUFFICES ASSUME Covered, [G!Next]_(G!gcvars) PROVE Covered'
  OBVIOUS
<1> DEFINE Task == [for : Calls, kind : {"none"} \cup G!Kinds, base : SUBSET Txns]
           Result == {G!None} \cup [on : SUBSET Txns]
<1>0. /\ graph \subseteq Txns /\ cache \in [G!Kinds -> Result] /\ task \in [Analyses -> Task]
      /\ \A c \in Analyses : task[c].kind = "pagerank" => graph \ task[c].base \subseteq raced
      /\ cache["pagerank"] # G!None /\ ~dirty => graph \ cache["pagerank"].on \subseteq raced
  BY DEF Covered
<1>1. ASSUME NEW t \in Txns, G!AddTransaction(t) PROVE Covered'
  <2>1. /\ graph' = graph \cup {t} /\ dirty' /\ cache' = cache /\ task' = task /\ raced \subseteq raced'
        /\ (\E c \in Analyses : task[c].kind = "pagerank") => t \in raced'
    BY <1>1 DEF G!AddTransaction, G!Dirtied, G!Computing
  <2> QED BY <1>0, <2>1 DEF Covered
<1>2. CASE G!Clear
  <2>1. graph' = {} /\ dirty' /\ cache' \in [G!Kinds -> Result] /\ task' = task
    BY <1>2 DEF G!Clear
  <2> QED BY <1>0, <2>1 DEF Covered
<1>3. ASSUME NEW c \in Analyses, G!Finish(c) PROVE Covered'
  <2> DEFINE k == task[c].kind
  <2>1. PICK r \in G!Results(c) : cache' = [cache EXCEPT ![k] = [on |-> r]]
    BY <1>3 DEF G!Finish
  <2>2. /\ k \in G!Kinds /\ graph' = graph /\ raced' = raced
        /\ dirty' = IF k = "pagerank" /\ cache["community"] # G!None THEN FALSE ELSE dirty
        /\ \E served : G!After(c, task[c].for, served)
    BY <1>3 DEF G!Finish, G!Cleaned
  <2>3. task[c].base \subseteq r /\ r \subseteq Txns
    BY <1>0 DEF G!Results
  <2>4. task[c] \in Task /\ task[c].for \in Calls
    BY <1>0
  <2>5. /\ task' \in [Analyses -> Task] /\ \A d \in Analyses : d # c => task'[d] = task[d]
        /\ task'[c].kind = "pagerank" => task'[c].base = graph
    BY <1>0, <2>2, <2>4, TurnsTo
  <2>6. /\ cache' \in [G!Kinds -> Result]
        /\ k = "pagerank" => cache'["pagerank"].on = r
        /\ k # "pagerank" => cache'["pagerank"] = cache["pagerank"]
    BY <1>0, <2>1, <2>2, <2>3 DEF G!Kinds
  <2>7. cache'["pagerank"] # G!None /\ ~dirty' => graph \ cache'["pagerank"].on \subseteq raced
    BY <1>0, <2>2, <2>3, <2>6
  <2>8. \A d \in Analyses : task'[d].kind = "pagerank" => graph \ task'[d].base \subseteq raced
    BY <1>0, <2>5
  <2> QED BY <1>0, <2>2, <2>5, <2>6, <2>7, <2>8 DEF Covered
<1>4. ASSUME NEW c \in Analyses, G!Fail(c) PROVE Covered'
  <2>1. G!Idle \in Task /\ G!Idle.kind = "none"
    BY DEF G!Idle, Calls
  <2>2. task' = [task EXCEPT ![c] = G!Idle] /\ UNCHANGED <<graph, cache, dirty, raced>>
    BY <1>4 DEF G!Fail
  <2>3. task' \in [Analyses -> Task]
    BY <1>0, <2>1, <2>2
  <2>4. \A d \in Analyses : task'[d].kind = "pagerank" => task'[d] = task[d]
    BY <1>0, <2>1, <2>2
  <2> QED BY <1>0, <2>2, <2>3, <2>4 DEF Covered
<1>5. ASSUME NEW c \in Analyses, NEW for \in {"pagerank", "community", "risk"}, G!Begin(c, for) PROVE Covered'
  <2>1. /\ \/ \E k \in G!Kinds : G!Run(c, for, k)
           \/ \E served : G!After(c, for, served)
        /\ UNCHANGED <<graph, cache, dirty, raced>>
    BY <1>5 DEF G!Begin, G!DetectCommunities, G!ComputePagerank, G!Kinds
  <2>2. /\ task' \in [Analyses -> Task] /\ \A d \in Analyses : d # c => task'[d] = task[d]
        /\ task'[c].kind = "pagerank" => task'[c].base = graph
    <3>1. for \in Calls
      BY DEF Calls
    <3> QED BY <1>0, <2>1, <3>1, TurnsTo
  <2>3. \A d \in Analyses : task'[d].kind = "pagerank" => graph \ task'[d].base \subseteq raced
    BY <1>0, <2>2
  <2> QED BY <1>0, <2>1, <2>2, <2>3 DEF Covered
<1>6. CASE UNCHANGED G!gcvars
  BY <1>0, <1>6 DEF G!gcvars, Covered
<1> QED BY <1>1, <1>2, <1>3, <1>4, <1>5, <1>6 DEF G!Next

\* A PageRank served from the cache misses no transaction of the graph but those added
\* while some PageRank was being computed.
THEOREM GraphPagerankCovers == G!Spec => []PagerankCovers
<1>1. Covered => PagerankCovers
  BY DEF Covered, PagerankCovers, G!PagerankCovers, G!Served
<1> QED BY <1>1, CoveredInit, CoveredStep, PTL DEF G!Spec

-----------------------------------------------------------------------------
(***************************************************************************)
(* The experiments                                                         *)
(***************************************************************************)
Testing(auto, left, found) == [at |-> "test", auto |-> auto, left |-> left, found |-> found]
Seen(left) == UNION {M!Comparisons(v) : v \in Treatments \ left}

\* A thread that will conclude the experiment if nothing is recorded before it does.
Deciding(t) ==
  \/ recorder[t].at \in {"check", "conclude"}
  \/ recorder[t].at = "test" /\ recorder[t].auto = TRUE /\ recorder[t].found = Seen(recorder[t].left)

\* While an experiment runs and is conclusive by its counters, some thread will see that.
Concluding ==
  /\ recorder = [t \in Threads |-> recorder[t]]
  /\ \A t \in Threads : recorder[t].at = "test" =>
       /\ recorder[t] = Testing(recorder[t].auto, recorder[t].left, recorder[t].found)
       /\ recorder[t].left \subseteq Treatments
  /\ status = "draft" => ~late
  /\ status = "running" /\ late /\ M!Conclusive => \E t \in Threads : Deciding(t)

LEMMA SameCounters ==
  ASSUME UNCHANGED metrics
  PROVE  (M!Conclusive' <=> M!Conclusive) /\ \A left : Seen(left)' = Seen(left)
<1>1. \A v : M!Comparisons(v)' = M!Comparisons(v) /\ (M!Sampled(v)' <=> M!Sampled(v))
  BY DEF M!Comparisons, M!Sampled, M!Predicted
<1>2. M!Compared' = M!Compared /\ (M!Enough' <=> M!Enough)
  BY <1>1 DEF M!Compared, M!Enough
<1> QED BY <1>1, <1>2 DEF M!Conclusive, Seen

\* Where the counters and the status stay, it is enough to look at the thread that moves.
LEMMA ConcludingFrame ==
  ASSUME Concluding, NEW t \in Threads, NEW at, M!To(t, at), UNCHANGED <<metrics, status, late>>,
         at.at = "test" => at = Testing(at.auto, at.left, at.found) /\ at.left \subseteq Treatments,
         status = "running" /\ M!Conclusive /\ Deciding(t) =>
           \/ at.at \in {"check", "conclude"}
           \/ at.at = "test" /\ at.auto = TRUE /\ at.found = Seen(at.left)
  PROVE  Concluding'
<1>1. recorder' = [recorder EXCEPT ![t] = at] /\ recorder = [d \in Threads |-> recorder[d]]
  BY DEF M!To, Concluding
<1>2. recorder'[t] = at /\ \A d \in Threads : d # t => recorder'[d] = recorder[d]
  BY <1>1
<1>3. recorder' = [d \in Threads |-> recorder'[d]]
  BY <1>1
<1>4. \A d \in Threads : recorder'[d].at = "test" =>
        /\ recorder'[d] = Testing(recorder'[d].auto, recorder'[d].left, recorder'[d].found)
        /\ recorder'[d].left \subseteq Treatments
  BY <1>2 DEF Concluding
<1>5. ASSUME status = "running", late, M!Conclusive PROVE \E d \in Threads : Deciding(d)'
  <2>1. PICK d \in Threads : Deciding(d)
    BY <1>5 DEF Concluding
  <2>2. CASE d = t
    BY <1>2, <1>5, <2>1, <2>2, SameCounters DEF Deciding
  <2>3. CASE d # t
    BY <1>2, <2>1, <2>3, SameCounters DEF Deciding
  <2> QED BY <2>2, <2>3
<1> QED BY <1>3, <1>4, <1>5, SameCounters DEF Concluding, Testing

LEMMA ConcludingInit == M!Init => Concluding
<1> SUFFICES ASSUME M!Init PROVE Concluding
  OBVIOUS
<1>1. recorder = [t \in Threads |-> M!Idle] /\ status = "draft" /\ ~late
  BY DEF M!Init
<1> QED BY <1>1 DEF Concluding, M!Idle

LEMMA ConcludingStep == Concluding /\ [M!Next]_(M!exvars) => Concluding'
<1> SUFFICES ASSUME Concluding, [M!Next]_(M!exvars) PROVE Concluding'
  OBVIOUS
<1>1. CASE M!StartExperiment
  <2>1. status = "draft" /\ ~late /\ status' = "running" /\ UNCHANGED <<recorder, late>>
    BY <1>1 DEF M!StartExperiment, Concluding
  <2> QED BY <2>1 DEF Concluding, Testing
<1>2. CASE M!ConcludeByHand
  <2>1. status' = "concluded" /\ UNCHANGED <<recorder, late>>
    BY <1>2 DEF M!ConcludeByHand, M!Conclude
  <2> QED BY <2>1 DEF Concluding, Testing
<1>3. ASSUME NEW t \in Threads, NEW v \in M!Variants, NEW o \in M!Outcomes, M!RecordOutcome(t, v, o)
      PROVE  Concluding'
  <2> DEFINE at == [at |-> "check"]
  <2>1. /\ recorder' = [recorder EXCEPT ![t] = at] /\ status' = status
        /\ late' = (late \/ status = "running")
    BY <1>3 DEF M!RecordOutcome, M!To
  <2>2. recorder = [d \in Threads |-> recorder[d]]
    BY DEF Concluding
  <2>3. recorder'[t] = at /\ \A d \in Threads : d # t => recorder'[d] = recorder[d]
    BY <2>1, <2>2
  <2>4. recorder' = [d \in Threads |-> recorder'[d]]
    BY <2>1, <2>2
  <2>5. \A d \in Threads : recorder'[d].at = "test" => d # t
    BY <2>3
  <2>6. \A d \in Threads : recorder'[d].at = "test" =>
          /\ recorder'[d] = Testing(recorder'[d].auto, recorder'[d].left, recorder'[d].found)
          /\ recorder'[d].left \subseteq Treatments
    BY <2>3, <2>5 DEF Concluding
  <2>7. Deciding(t)'
    BY <2>3 DEF Deciding
  <2>8. status' = "draft" => ~late'
    BY <2>1 DEF Concluding
  <2> QED BY <2>4, <2>6, <2>7, <2>8 DEF Concluding, Testing
<1>4. ASSUME NEW t \in Threads, M!Check(t) PROVE Concluding'
  <2>1. CASE M!MayTest
    <3> DEFINE at == Testing(TRUE, Treatments, {})
    <3>1. M!To(t, at) /\ UNCHANGED <<metrics, status, late>>
      BY <1>4, <2>1 DEF M!Check, M!Testing, Testing
    <3>2. at.at = "test" /\ at.auto = TRUE /\ at.left = Treatments /\ at.found = {} /\ at = Testing(at.auto, at.left, at.found)
      BY DEF Testing
    <3>3. Seen(Treatments) = {}
      BY DEF Seen
    <3> HIDE DEF at
    <3> QED BY <3>1, <3>2, <3>3, ConcludingFrame
  <2>2. CASE ~M!MayTest
    <3>1. M!To(t, M!Idle) /\ UNCHANGED <<metrics, status, late>>
      BY <1>4, <2>2 DEF M!Check
    <3>2. ~(status = "running" /\ M!Conclusive)
      BY <2>2 DEF M!MayTest, M!Conclusive
    <3>3. M!Idle.at # "test"
      BY DEF M!Idle
    <3> QED BY <3>1, <3>2, <3>3, ConcludingFrame
  <2> QED BY <2>1, <2>2
<1>5. ASSUME NEW t \in Threads, M!RunTests(t) PROVE Concluding'
  <2> DEFINE at == Testing(FALSE, Treatments, {})
  <2>1. M!To(t, at) /\ UNCHANGED <<metrics, status, late>> /\ recorder[t] = M!Idle
    BY <1>5 DEF M!RunTests, M!Testing, Testing
  <2>2. at.at = "test" /\ at.left = Treatments /\ at = Testing(at.auto, at.left, at.found)
    BY DEF Testing
  <2>3. ~Deciding(t)
    BY <2>1 DEF Deciding, M!Idle
  <2> HIDE DEF at
  <2> QED BY <2>1, <2>2, <2>3, ConcludingFrame
<1>6. ASSUME NEW t \in Threads, NEW v \in Treatments, M!Compare(t, v) PROVE Concluding'
  <2> DEFINE r == recorder[t]
             at == Testing(r.auto, r.left \ {v}, r.found \cup M!Comparisons(v))
  <2>1. r.at = "test" /\ v \in r.left /\ UNCHANGED <<metrics, status, late>>
        /\ M!To(t, [r EXCEPT !.left = r.left \ {v}, !.found = r.found \cup M!Comparisons(v)])
    BY <1>6 DEF M!Compare
  <2>2. r = Testing(r.auto, r.left, r.found) /\ r.left \subseteq Treatments
    BY <2>1 DEF Concluding
  <2>3. PICK s : M!To(t, s) /\ s = [r EXCEPT !.left = r.left \ {v}, !.found = r.found \cup M!Comparisons(v)]
    BY <2>1
  <2>4. M!To(t, at)
    <3> DEFINE left2 == r.left \ {v}
               found2 == r.found \cup M!Comparisons(v)
               auto == r.auto
    <3>1. s = [r EXCEPT !.left = left2, !.found = found2]
      BY <2>3
    <3>2. r = Testing(auto, r.left, r.found)
      BY <2>2
    <3>3. at = Testing(auto, left2, found2)
      OBVIOUS
    <3> DEFINE T == [at : {"test"}, auto : {auto}, left : {r.left, left2}, found : {r.found, found2}]
    <3> HIDE DEF r, at, left2, found2, auto
    <3>4. s = Testing(auto, left2, found2)
      <4>1. r \in T
        BY <3>2 DEF Testing
      <4>2. s \in T /\ s.left = left2 /\ s.found = found2
        BY <3>1, <4>1
      <4>3. s = [at |-> "test", auto |-> s.auto, left |-> s.left, found |-> s.found] /\ s.auto = auto
        BY <4>2
      <4> HIDE DEF T
      <4> QED BY <4>2, <4>3 DEF Testing
    <3> QED BY <2>3, <3>3, <3>4
  <2>5. /\ at.at = "test" /\ at.auto = r.auto /\ at.left = r.left \ {v} /\ at.found = r.found \cup M!Comparisons(v)
        /\ at = Testing(at.auto, at.left, at.found)
    BY DEF Testing
  <2>6. Seen(r.left \ {v}) = Seen(r.left) \cup M!Comparisons(v)
    <3>1. Treatments \ (r.left \ {v}) = (Treatments \ r.left) \cup {v}
      BY <2>1, <2>2
    <3> QED BY <3>1 DEF Seen
  <2>7. Deciding(t) => r.auto = TRUE /\ r.found = Seen(r.left)
    BY <2>1 DEF Deciding
  <2> HIDE DEF r, at
  <2> QED BY <2>1, <2>2, <2>4, <2>5, <2>6, <2>7, ConcludingFrame
<1>7. ASSUME NEW t \in Threads, M!StoreResults(t) PROVE Concluding'
  <2> DEFINE found == recorder[t].found
  <2>1. recorder[t].at = "test" /\ recorder[t].left = {} /\ UNCHANGED <<metrics, status, late>>
    BY <1>7 DEF M!StoreResults
  <2>2. CASE recorder[t].auto /\ found # {} /\ \A r \in found : r.significant
    <3>1. PICK w : M!To(t, [at |-> "conclude", winner |-> w])
      BY <1>7, <2>2 DEF M!StoreResults
    <3> DEFINE at == [at |-> "conclude", winner |-> w]
    <3>2. at.at = "conclude" /\ M!To(t, at)
      BY <3>1
    <3> HIDE DEF at
    <3> QED BY <2>1, <3>2, ConcludingFrame
  <2>3. CASE ~(recorder[t].auto /\ found # {} /\ \A r \in found : r.significant)
    <3>1. M!To(t, M!Idle) /\ M!Idle.at # "test"
      BY <1>7, <2>3 DEF M!StoreResults, M!Idle
    <3>2. Seen({}) = M!Compared
      BY DEF Seen, M!Compared
    <3>3. ~(M!Conclusive /\ Deciding(t))
      BY <2>1, <2>3, <3>2 DEF M!Conclusive, Deciding
    <3> QED BY <2>1, <3>1, <3>3, ConcludingFrame
  <2> QED BY <2>2, <2>3
<1>8. ASSUME NEW t \in Threads, M!AutoConclude(t) PROVE Concluding'
  <2>1. M!To(t, M!Idle) /\ M!Idle.at # "test" /\ UNCHANGED <<metrics, late>>
    BY <1>8 DEF M!AutoConclude, M!Idle
  <2>2. CASE status = "running"
    <3>1. status' = "concluded"
      BY <1>8, <2>2 DEF M!AutoConclude, M!Conclude
    <3>2. recorder' = [recorder EXCEPT ![t] = M!Idle] /\ recorder = [d \in Threads |-> recorder[d]]
      BY <2>1 DEF M!To, Concluding
    <3>3. /\ recorder' = [d \in Threads |-> recorder'[d]]
          /\ \A d \in Threads : recorder'[d].at = "test" => recorder'[d] = recorder[d]
      BY <2>1, <3>2
    <3> QED BY <3>1, <3>3 DEF Concluding, Testing
  <2>3. CASE status # "running"
    <3>1. status' = status
      BY <1>8, <2>3 DEF M!AutoConclude, M!Conclude
    <3> QED BY <2>1, <2>3, <3>1, ConcludingFrame
  <2> QED BY <2>2, <2>3
<1>9. CASE UNCHANGED M!exvars
  <2>1. UNCHANGED <<recorder, status, late, metrics>>
    BY <1>9 DEF M!exvars
  <2> QED BY <2>1, SameCounters DEF Concluding, Testing, Deciding
<1> QED BY <1>1, <1>2, <1>3, <1>4, <1>5, <1>6, <1>7, <1>8, <1>9 DEF M!Next

\* However the significance tests of several threads interleave with the recording of
\* outcomes, an experiment does not run on while it is conclusive by its counters and no
\* thread is about to find out.
THEOREM ExperimentConcludedInTime == M!Spec => []ConcludedInTime
<1>1. Concluding => ConcludedInTime
  BY DEF Concluding, ConcludedInTime, M!ConcludedInTime, Deciding, M!Idle
<1> QED BY <1>1, ConcludingInit, ConcludingStep, PTL DEF M!Spec

-----------------------------------------------------------------------------
(***************************************************************************)
(* Alert routing                                                           *)
(***************************************************************************)
Known == {R!DefaultRules[i] : i \in 1..5} \cup CustomRules
Prints == {R!Fingerprint(a) : a \in Alerts}
Reads == [alert : Alerts, at : Nat, window : Int, prio : Int]
Decisions == [alert : Alerts, at : Nat, window : Int, prio : Int, suppressed : BOOLEAN]
Marks == [at : Nat]
Opened(j) == ~routed[j].suppressed /\ routed[j].window > 0

\* A time in the store is that of a decision that opened a window, and no decision that
\* opened one for the fingerprint is later, but for those that eviction has forgotten.
Routed ==
  /\ now \in Nat /\ rules \in Seq(Known) /\ routing \in [Threads -> {R!None} \cup Reads]
  /\ \A t \in Threads : routing[t] # R!None => routing[t].at <= now /\ now <= routing[t].at + MaxStall
  /\ seen \in [Prints -> {R!None} \cup Marks] /\ routed \in Seq(Decisions)
  /\ \A f \in Prints : seen[f] # R!None =>
       \E j \in DOMAIN routed : Opened(j) /\ R!Fingerprint(routed[j].alert) = f /\ routed[j].at = seen[f].at
  /\ \A f \in Prints, j \in DOMAIN routed :
       Opened(j) /\ R!Fingerprint(routed[j].alert) = f =>
         \/ seen[f] # R!None /\ routed[j].at <= seen[f].at
         \/ routed[j].at + 60 < now
  /\ SuppressionExact

LEMMA KnownRules == ASSUME RouteSettings PROVE \A r \in Known : r.window \in Int /\ r.prio \in Int
<1>1. \A i \in 1..5 : R!DefaultRules[i].window \in Int /\ R!DefaultRules[i].prio \in Int
  BY DEF R!DefaultRules, R!Rule
<1> QED BY <1>1 DEF Known, RouteSettings

LEMMA RuleRemoved ==
  ASSUME NEW q \in Seq(Known), NEW i \in DOMAIN q PROVE R!RemoveAt(q, i) \in Seq(Known)
<1>1. i \in 1..Len(q) /\ Len(q) \in Nat
  OBVIOUS
<1>2. SubSeq(q, 1, i - 1) \in Seq(Known) /\ SubSeq(q, i + 1, Len(q)) \in Seq(Known)
  BY <1>1
<1> QED BY <1>2 DEF R!RemoveAt

LEMMA FiveRules ==
  ASSUME NEW K, NEW q, q = <<q[1], q[2], q[3], q[4], q[5]>>, \A i \in 1..5 : q[i] \in K PROVE q \in Seq(K)
<1>1. PICK a \in K, b \in K, c \in K, d \in K, e \in K : q = <<a, b, c, d, e>>
  OBVIOUS
<1> QED BY <1>1

LEMMA RoutedInit == ASSUME RouteSettings PROVE R!Init => Routed
<1> SUFFICES ASSUME R!Init PROVE Routed
  OBVIOUS
<1>1. R!DefaultRules \in Seq(Known)
  <2>1. \A i \in 1..5 : R!DefaultRules[i] \in Known
    BY DEF Known
  <2>2. R!DefaultRules = <<R!DefaultRules[1], R!DefaultRules[2], R!DefaultRules[3],
                           R!DefaultRules[4], R!DefaultRules[5]>>
    BY DEF R!DefaultRules
  <2> QED BY <2>1, <2>2, FiveRules
<1>2. /\ now = 0 /\ rules = R!DefaultRules /\ seen = [f \in Prints |-> R!None]
      /\ routing = [t \in Threads |-> R!None] /\ routed = <<>>
  BY DEF R!Init, Prints
<1>3. routed \in Seq(Decisions) /\ DOMAIN routed = {}
  BY <1>2
<1>4. SuppressionExact
  BY <1>3 DEF SuppressionExact, R!SuppressionExact
<1> QED BY <1>1, <1>2, <1>3, <1>4 DEF Routed

\* A call that decides adds its decision and, when that opens a window, writes the store.
LEMMA DecisionsExact ==
  ASSUME RouteSettings, Routed, NEW d \in Decisions, routed' = Append(routed, d),
         d.at <= now, now <= d.at + MaxStall, NEW f \in Prints, f = R!Fingerprint(d.alert),
         d.suppressed <=> d.window > 0 /\ seen[f] # R!None /\ d.at - seen[f].at < d.window
  PROVE  SuppressionExact'
<1>0. /\ now \in Nat /\ MaxStall \in Nat /\ seen \in [Prints -> {R!None} \cup Marks] /\ routed \in Seq(Decisions)
      /\ d.at \in Nat /\ d.window \in Int
  BY DEF Routed, RouteSettings, Decisions
<1>1. /\ DOMAIN routed = 1..Len(routed) /\ Len(routed) \in Nat /\ DOMAIN routed' = 1..(Len(routed) + 1)
      /\ \A i \in 1..Len(routed) : routed'[i] = routed[i] /\ routed[i] \in Decisions
      /\ routed'[Len(routed) + 1] = d
  <2> HIDE DEF Decisions
  <2> QED BY <1>0
<1>2. seen[f] # R!None => seen[f].at \in Nat
  BY <1>0 DEF Marks
<1> SUFFICES ASSUME NEW i \in 1..(Len(routed) + 1)
             PROVE  LET e == routed'[i]
                        earlier == {j \in 1..(i-1) :
                                      /\ R!SameAlert(routed'[j], e) /\ ~routed'[j].suppressed
                                      /\ routed'[j].window > 0 /\ e.at - routed'[j].at < e.window}
                    IN  /\ e.suppressed => earlier # {}
                        /\ ~e.suppressed /\ e.window > 0 /\ earlier # {} => e.window + MaxStall > 60
  BY <1>1 DEF SuppressionExact, R!SuppressionExact, R!SameAlert, R!EvictAfter
<1>3. CASE i \in 1..Len(routed)
  <2>1. routed'[i] = routed[i] /\ \A j \in 1..(i-1) : routed'[j] = routed[j]
    BY <1>1, <1>3
  <2>2. SuppressionExact /\ i \in DOMAIN routed
    BY <1>1, <1>3 DEF Routed
  <2> QED BY <2>1, <2>2 DEF SuppressionExact, R!SuppressionExact, R!EvictAfter
<1>4. CASE i = Len(routed) + 1
  <2>1. routed'[i] = d /\ \A j \in 1..(i-1) : routed'[j] = routed[j] /\ j \in 1..Len(routed) /\ j \in DOMAIN routed
    BY <1>1, <1>4
  <2>2. ASSUME d.suppressed
        PROVE  \E j \in 1..(i-1) : /\ R!SameAlert(routed[j], d) /\ ~routed[j].suppressed
                                   /\ routed[j].window > 0 /\ d.at - routed[j].at < d.window
    <3>1. PICK j \in DOMAIN routed : Opened(j) /\ R!Fingerprint(routed[j].alert) = f /\ routed[j].at = seen[f].at
      BY <2>2 DEF Routed
    <3>2. j \in 1..(i-1)
      BY <1>1, <1>4, <3>1
    <3> QED BY <2>2, <3>1, <3>2 DEF Opened, R!SameAlert
  <2>3. ASSUME ~d.suppressed, d.window > 0, NEW j \in 1..(i-1), R!SameAlert(routed[j], d),
               ~routed[j].suppressed, routed[j].window > 0, d.at - routed[j].at < d.window
        PROVE  d.window + MaxStall > 60
    <3>1. Opened(j) /\ R!Fingerprint(routed[j].alert) = f /\ j \in DOMAIN routed
      BY <2>1, <2>3 DEF Opened, R!SameAlert
    <3>2. routed[j].at \in Nat
      BY <1>1, <2>1 DEF Decisions
    <3>3. CASE seen[f] # R!None /\ routed[j].at <= seen[f].at
      <4>1. ~(d.at - seen[f].at < d.window)
        BY <2>3, <3>3
      <4> QED BY <1>0, <1>2, <2>3, <3>2, <3>3, <4>1
    <3>4. CASE routed[j].at + 60 < now
      BY <1>0, <2>3, <3>2, <3>4
    <3> QED BY <3>1, <3>3, <3>4 DEF Routed
  <2> QED BY <2>1, <2>2, <2>3
<1> QED BY <1>1, <1>3, <1>4

LEMMA RoutedStep == ASSUME RouteSettings PROVE Routed /\ [R!Next]_(R!arvars) => Routed'
<1> SUFFICES ASSUME Routed, [R!Next]_(R!arvars) PROVE Routed'
  OBVIOUS
<1>0. /\ now \in Nat /\ rules \in Seq(Known) /\ routing \in [Threads -> {R!None} \cup Reads]
      /\ seen \in [Prints -> {R!None} \cup Marks] /\ routed \in Seq(Decisions) /\ MaxStall \in Nat
      /\ SuppressionExact /\ DOMAIN seen = Prints
      /\ \A r \in Reads : r # R!None /\ r.at \in Nat /\ r.window \in Int /\ r.alert \in Alerts /\ r.prio \in Int
  BY DEF Routed, RouteSettings, Reads, R!None
\* Steps that leave the store and the history alone.
<1>1. ASSUME UNCHANGED <<seen, now, routing, routed>>, rules' \in Seq(Known) PROVE Routed'
  BY <1>0, <1>1 DEF Routed, Opened, SuppressionExact, R!SuppressionExact, R!SameAlert
<1>2. ASSUME NEW r \in CustomRules, R!AddRule(r) PROVE Routed'
  <2>1. UNCHANGED <<seen, now, routing, routed>> /\ r \in Known
    BY <1>2 DEF R!AddRule, Known
  <2>2. rules' \in Seq(Known)
    <3>1. CASE rules' = Append(rules, r)
      BY <1>0, <2>1, <3>1
    <3>2. CASE rules' = [i \in DOMAIN rules |-> IF rules[i].id = r.id THEN r ELSE rules[i]]
      <4>1. /\ DOMAIN rules = 1..Len(rules) /\ Len(rules) \in Nat
            /\ \A i \in DOMAIN rules : rules[i] \in Known
        BY <1>0
      <4> QED BY <2>1, <3>2, <4>1
    <3> QED BY <1>2, <3>1, <3>2 DEF R!AddRule
  <2> QED BY <1>1, <2>1, <2>2
<1>3. ASSUME NEW id, R!RemoveRule(id) PROVE Routed'
  <2>1. PICK i \in DOMAIN rules : rules' = R!RemoveAt(rules, i)
    BY <1>3 DEF R!RemoveRule
  <2> QED BY <1>0, <1>1, <1>3, <2>1, RuleRemoved DEF R!RemoveRule
<1>4. ASSUME NEW t \in Threads, NEW a \in Alerts, R!RouteReads(t, a) PROVE Routed'
  <2>1. PICK top \in DOMAIN rules :
          routing' = [routing EXCEPT ![t] =
            [alert |-> a, at |-> now, window |-> rules[top].window,
             prio |-> R!Priority(rules[top].prio, R!Matching(a))]]
    BY <1>4 DEF R!RouteReads, R!Matching
  <2> DEFINE prio == R!Priority(rules[top].prio, R!Matching(a))
             read == [alert |-> a, at |-> now, window |-> rules[top].window, prio |-> prio]
  <2>2. rules[top].window \in Int /\ rules[top].prio \in Int
    <3>1. rules[top] \in Known
      BY <1>0
    <3> QED BY <3>1, KnownRules
  <2>3. prio \in Int
    BY <2>2 DEF R!Priority
  <2>4. read \in Reads /\ read.at = now
    BY <1>0, <2>2, <2>3 DEF Reads
  <2>5. routing' = [routing EXCEPT ![t] = read] /\ UNCHANGED <<rules, seen, now, routed>>
    BY <1>4, <2>1 DEF R!RouteReads
  <2> HIDE DEF prio, read
  <2>6. /\ routing' \in [Threads -> {R!None} \cup Reads]
        /\ \A u \in Threads : routing'[u] # R!None => routing'[u].at <= now /\ now <= routing'[u].at + MaxStall
    BY <1>0, <2>4, <2>5 DEF Routed
  <2> QED BY <1>0, <2>5, <2>6 DEF Routed, Opened, SuppressionExact, R!SuppressionExact, R!SameAlert
<1>5. ASSUME NEW t \in Threads, R!RouteDecides(t) PROVE Routed'
  <2>1. PICK r \in Reads : r = routing[t]
    BY <1>0, <1>5 DEF R!RouteDecides
  <2>2. PICK f \in Prints : f = R!Fingerprint(r.alert)
    BY <1>0, <2>1 DEF Prints
  <2>3. PICK b \in BOOLEAN : b <=> r.window > 0 /\ seen[f] # R!None /\ r.at - seen[f].at < r.window
    OBVIOUS
  <2>4. R!IsSuppressed(r) = b
    BY <2>2, <2>3 DEF R!IsSuppressed, R!Within
  <2>5. PICK d \in Decisions :
          /\ d = [alert |-> r.alert, at |-> r.at, window |-> r.window, prio |-> r.prio, suppressed |-> b]
          /\ d.alert = r.alert /\ d.at = r.at /\ d.window = r.window /\ d.suppressed = b
    <3> DEFINE decision == [alert |-> r.alert, at |-> r.at, window |-> r.window, prio |-> r.prio, suppressed |-> b]
    <3>1. decision \in Decisions
      BY <1>0, <2>1, <2>3 DEF Decisions
    <3>2. /\ decision.alert = r.alert /\ decision.at = r.at /\ decision.window = r.window
          /\ decision.suppressed = b
      OBVIOUS
    <3> QED BY <3>1, <3>2
  <2>6. /\ routed' = Append(routed, d) /\ routing' = [routing EXCEPT ![t] = R!None] /\ UNCHANGED <<rules, now>>
        /\ seen' = IF r.window <= 0 \/ b THEN seen ELSE [seen EXCEPT ![f] = [at |-> r.at]]
    BY <1>5, <2>1, <2>2, <2>4, <2>5 DEF R!RouteDecides
  <2>7. r.at <= now /\ now <= r.at + MaxStall /\ r.at \in Nat /\ r.window \in Int
    BY <1>0, <2>1 DEF Routed
  <2>8. SuppressionExact'
    BY <2>2, <2>3, <2>5, <2>6, <2>7, DecisionsExact
  <2>9. /\ DOMAIN routed = 1..Len(routed) /\ Len(routed) \in Nat /\ DOMAIN routed' = 1..(Len(routed) + 1)
        /\ \A i \in DOMAIN routed : routed'[i] = routed[i] /\ i \in DOMAIN routed' /\ routed[i] \in Decisions
        /\ routed'[Len(routed) + 1] = d /\ routed' \in Seq(Decisions) /\ Len(routed) + 1 \in DOMAIN routed'
    BY <1>0, <2>6
  <2>10. PICK last \in Nat : last = Len(routed) + 1 /\ last \in DOMAIN routed' /\ routed'[last] = d
    BY <2>9
  <2>11. PICK mark \in Marks : mark = [at |-> r.at] /\ mark.at = r.at /\ mark # R!None
    <3> DEFINE new == [at |-> r.at]
    <3>1. new \in Marks /\ new.at = r.at
      BY <2>7 DEF Marks
    <3>2. new # R!None
      BY <2>7 DEF R!None
    <3> QED BY <3>1, <3>2
  <2>12. /\ seen' \in [Prints -> {R!None} \cup Marks]
         /\ \A g \in Prints : seen'[g] = IF g = f /\ ~(r.window <= 0 \/ b) THEN mark ELSE seen[g]
    BY <1>0, <2>6, <2>11
  <2>13. /\ routing' \in [Threads -> {R!None} \cup Reads]
         /\ \A u \in Threads : routing'[u] # R!None => routing'[u].at <= now /\ now <= routing'[u].at + MaxStall
    BY <1>0, <2>6 DEF Routed
  <2>14. Opened(last)' <=> ~b /\ ~(r.window <= 0)
    BY <2>5, <2>7, <2>10 DEF Opened
  <2>15. \A i \in DOMAIN routed : Opened(i)' = Opened(i)
    BY <2>9 DEF Opened
  <2>16. ASSUME NEW g \in Prints, seen'[g] # R!None
         PROVE  \E j \in DOMAIN routed' :
                  Opened(j)' /\ R!Fingerprint(routed'[j].alert) = g /\ routed'[j].at = seen'[g].at
    <3>1. CASE g = f /\ ~(r.window <= 0 \/ b)
      <4>1. R!Fingerprint(routed'[last].alert) = g /\ routed'[last].at = r.at
        BY <2>2, <2>5, <2>10, <3>1
      <4>2. seen'[g].at = r.at
        BY <2>11, <2>12, <3>1
      <4> QED BY <2>14, <2>10, <3>1, <4>1, <4>2
    <3>2. CASE ~(g = f /\ ~(r.window <= 0 \/ b))
      <4>1. seen'[g] = seen[g]
        BY <2>12, <3>2
      <4>2. PICK j \in DOMAIN routed : Opened(j) /\ R!Fingerprint(routed[j].alert) = g /\ routed[j].at = seen[g].at
        BY <2>16, <4>1 DEF Routed
      <4> QED BY <2>9, <2>15, <4>1, <4>2
    <3> QED BY <3>1, <3>2
  <2>17. ASSUME NEW g \in Prints, NEW j \in DOMAIN routed', Opened(j)', R!Fingerprint(routed'[j].alert) = g
         PROVE  \/ seen'[g] # R!None /\ routed'[j].at <= seen'[g].at
                \/ routed'[j].at + 60 < now
    <3>1. CASE j = last
      <4>1. g = f /\ ~(r.window <= 0 \/ b) /\ routed'[j].at = r.at
        BY <2>2, <2>5, <2>14, <2>17, <2>10, <3>1
      <4> QED BY <2>7, <2>11, <2>12, <4>1
    <3>2. CASE j # last
      <4>1. j \in DOMAIN routed
        BY <2>9, <2>10, <3>2
      <4>2. Opened(j) /\ R!Fingerprint(routed[j].alert) = g /\ routed'[j] = routed[j] /\ routed[j].at \in Nat
        BY <2>9, <2>15, <2>17, <4>1 DEF Decisions
      <4>3. \/ seen[g] # R!None /\ routed[j].at <= seen[g].at
            \/ routed[j].at + 60 < now
        BY <4>1, <4>2 DEF Routed
      <4>4. CASE seen[g] # R!None /\ routed[j].at <= seen[g].at
        <5>1. CASE g = f /\ ~(r.window <= 0 \/ b)
          <6>1. seen[f].at \in Nat /\ ~(r.at - seen[f].at < r.window) /\ r.window > 0
            BY <1>0, <2>3, <2>7, <4>4, <5>1 DEF Marks
          <6>2. seen'[g] = mark /\ seen'[g].at = r.at
            BY <2>11, <2>12, <5>1
          <6> QED BY <2>7, <2>11, <4>2, <4>4, <5>1, <6>1, <6>2
        <5>2. CASE ~(g = f /\ ~(r.window <= 0 \/ b))
          BY <2>12, <4>2, <4>4, <5>2
        <5> QED BY <5>1, <5>2
      <4> QED BY <4>2, <4>3, <4>4
    <3> QED BY <3>1, <3>2
  <2> QED BY <1>0, <2>6, <2>8, <2>9, <2>12, <2>13, <2>16, <2>17 DEF Routed
<1>6. ASSUME R!Maintenance PROVE Routed'
  <2>1. /\ UNCHANGED <<rules, now, routing, routed>>
        /\ seen' = [f \in Prints |-> IF R!IsStale(f) THEN R!None ELSE seen[f]]
    BY <1>0, <1>6 DEF R!Maintenance
  <2>2. /\ seen' \in [Prints -> {R!None} \cup Marks]
        /\ \A f \in Prints : seen'[f] # R!None => seen'[f] = seen[f]
    BY <1>0, <2>1
  <2>3. ASSUME NEW f \in Prints, NEW j \in DOMAIN routed, Opened(j), R!Fingerprint(routed[j].alert) = f
        PROVE  \/ seen'[f] # R!None /\ routed[j].at <= seen'[f].at
               \/ routed[j].at + 60 < now
    <3>1. \/ seen[f] # R!None /\ routed[j].at <= seen[f].at
          \/ routed[j].at + 60 < now
      BY <2>3 DEF Routed
    <3>2. CASE R!IsStale(f) /\ routed[j].at <= seen[f].at
      <4>1. seen[f] # R!None /\ now - seen[f].at > 60
        BY <3>2 DEF R!IsStale, R!EvictAfter
      <4>2. seen[f].at \in Nat
        BY <1>0, <4>1 DEF Marks
      <4>3. routed[j].at \in Nat
        <5>1. routed[j] \in Decisions
          BY <1>0
        <5> QED BY <5>1 DEF Decisions
      <4> QED BY <1>0, <3>2, <4>1, <4>2, <4>3
    <3>3. CASE ~R!IsStale(f)
      BY <2>1, <3>1, <3>3
    <3> QED BY <3>1, <3>2, <3>3
  <2> QED BY <1>0, <2>1, <2>2, <2>3 DEF Routed, Opened, SuppressionExact, R!SuppressionExact, R!SameAlert
<1>7. ASSUME R!Tick PROVE Routed'
  <2>1. /\ UNCHANGED <<rules, seen, routing, routed>> /\ now' \in Readings /\ now' > now
        /\ \A t \in Threads : routing[t] # R!None => now' - routing[t].at <= MaxStall
    BY <1>7 DEF R!Tick
  <2>2. PICK n \in Nat : now' = n /\ n > now
    BY <2>1 DEF RouteSettings
  <2>3. \A t \in Threads : routing[t] # R!None => routing[t].at <= n /\ n <= routing[t].at + MaxStall
    <3> SUFFICES ASSUME NEW t \in Threads, routing[t] # R!None
                 PROVE  routing[t].at <= n /\ n <= routing[t].at + MaxStall
      OBVIOUS
    <3>1. routing[t].at \in Nat /\ routing[t].at <= now /\ n - routing[t].at <= MaxStall
      BY <1>0, <2>1, <2>2 DEF Routed
    <3> QED BY <1>0, <2>2, <3>1
  <2>4. ASSUME NEW f \in Prints, NEW j \in DOMAIN routed, Opened(j), R!Fingerprint(routed[j].alert) = f
        PROVE  \/ seen[f] # R!None /\ routed[j].at <= seen[f].at
               \/ routed[j].at + 60 < n
    <3>1. routed[j].at \in Nat
      <4>1. routed[j] \in Decisions
        BY <1>0
      <4> QED BY <4>1 DEF Decisions
    <3> QED BY <1>0, <2>2, <2>4, <3>1 DEF Routed
  <2>5. SuppressionExact'
    BY <1>0, <2>1 DEF SuppressionExact, R!SuppressionExact, R!SameAlert
  <2>6. \A t \in Threads : routing'[t] # R!None => routing'[t].at <= now' /\ now' <= routing'[t].at + MaxStall
    BY <2>1, <2>2, <2>3
  <2>7. \A f \in Prints, j \in DOMAIN routed' :
          Opened(j)' /\ R!Fingerprint(routed'[j].alert) = f =>
            \/ seen'[f] # R!None /\ routed'[j].at <= seen'[f].at
            \/ routed'[j].at + 60 < now'
    BY <2>1, <2>2, <2>4 DEF Opened
  <2>8. \A f \in Prints : seen'[f] # R!None =>
          \E j \in DOMAIN routed' : Opened(j)' /\ R!Fingerprint(routed'[j].alert) = f /\ routed'[j].at = seen'[f].at
    BY <2>1 DEF Routed, Opened
  <2> QED BY <1>0, <2>1, <2>2, <2>5, <2>6, <2>7, <2>8 DEF Routed
<1>8. ASSUME UNCHANGED R!arvars PROVE Routed'
  BY <1>0, <1>1, <1>8 DEF R!arvars
<1> QED BY <1>2, <1>3, <1>4, <1>5, <1>6, <1>7, <1>8 DEF R!Next

\* Whatever threads route the same alert at once, however long a call takes with the time it
\* has read, and whenever eviction and changes of the rules come in between, an alert is
\* suppressed only within the window of one that was routed, and only eviction lets one of
\* them through again.
THEOREM RoutingSuppressionExact == R!Spec => []SuppressionExact
<1>1. RouteSettings
  BY SharedStateAssumption
<1>2. Routed => SuppressionExact
  BY DEF Routed
<1> QED BY <1>1, <1>2, RoutedInit, RoutedStep, PTL DEF R!Spec

-----------------------------------------------------------------------------
(***************************************************************************)
(* The canary                                                              *)
(***************************************************************************)
Doing(t, place) == tester[t].at = place
\* Scorings of an earlier scorer that can still add a sample to the deque of s.
UnderWay(s) == {t \in Deployers : /\ tester[t].of < s
                                  /\ Doing(t, "scoring") \/ (Doing(t, "record") /\ tester[t].to = s)}

CanaryTypes ==
  /\ launches \in Nat /\ shadow \in {0, launches} /\ canary \in 0..launches
  /\ tester = [t \in Deployers |-> tester[t]] /\ samples = [s \in N!Starts |-> samples[s]]
  /\ straddled \in [N!Starts -> Nat] /\ mixed \in BOOLEAN
  /\ \A t \in Deployers :
       /\ tester[t].at \in {"scoring", "record", "start"} => tester[t].of \in 1..launches
       /\ Doing(t, "record") => tester[t].to \in 1..launches
  /\ \A s \in N!Starts : s > launches => samples[s] = {}

\* Unless the last start and stop overlapped, whoever changes the scorer is alone with it.
Alone ==
  mixed \/ (N!Changing = {} /\ shadow = canary)
        \/ \E t \in Deployers : /\ N!Changing = {t} /\ (Doing(t, "start") => tester[t].of = shadow)
                                /\ (Doing(t, "stop") => shadow = 0)

\* Samples and scorings under way, of an earlier scorer.
Measured ==
  \A s \in N!Starts : s <= launches =>
    IsFiniteSet(N!Earlier(s)) /\ Cardinality(N!Earlier(s)) + Cardinality(UnderWay(s)) <= straddled[s]

\* A thread's step, and the others where they were.
Turned(t, step1) ==
  /\ tester' = [d \in Deployers |-> tester'[d]] /\ tester'[t] = step1
  /\ \A d \in Deployers : d # t => tester'[d] = tester[d]

LEMMA Turning ==
  ASSUME CanaryTypes, NEW t \in Deployers, NEW step1, tester' = [tester EXCEPT ![t] = step1]
  PROVE  Turned(t, step1)
  BY DEF CanaryTypes, Turned

LEMMA UnderWayFinite ==
  ASSUME CanarySettings
  PROVE  \A s : IsFiniteSet(UnderWay(s)) /\ Cardinality(UnderWay(s)) \in Nat
  BY FS_Subset, FS_CardinalityType DEF CanarySettings, UnderWay

\* The counts stay within their bounds when no sample and no scoring of an earlier scorer comes in.
LEMMA MeasuredFrame ==
  ASSUME CanarySettings, CanaryTypes, Measured, launches' = launches, straddled' = straddled,
         \A s \in N!Starts : s <= launches => N!Earlier(s)' \subseteq N!Earlier(s) /\ UnderWay(s)' \subseteq UnderWay(s)
  PROVE  Measured'
<1> SUFFICES ASSUME NEW s \in N!Starts, s <= launches
             PROVE  /\ IsFiniteSet(N!Earlier(s)')
                    /\ Cardinality(N!Earlier(s)') + Cardinality(UnderWay(s)') <= straddled[s]
  BY DEF Measured
<1>1. /\ IsFiniteSet(N!Earlier(s)) /\ N!Earlier(s)' \subseteq N!Earlier(s) /\ UnderWay(s)' \subseteq UnderWay(s)
      /\ Cardinality(N!Earlier(s)) + Cardinality(UnderWay(s)) <= straddled[s]
      /\ IsFiniteSet(UnderWay(s)) /\ straddled[s] \in Nat
  BY UnderWayFinite DEF Measured, CanaryTypes
<1>2. /\ IsFiniteSet(N!Earlier(s)') /\ Cardinality(N!Earlier(s)') <= Cardinality(N!Earlier(s))
      /\ Cardinality(UnderWay(s)') <= Cardinality(UnderWay(s))
  BY <1>1, FS_Subset
<1>3. /\ Cardinality(N!Earlier(s)) \in Nat /\ Cardinality(UnderWay(s)) \in Nat
      /\ Cardinality(N!Earlier(s)') \in Nat /\ Cardinality(UnderWay(s)') \in Nat
  <2>1. IsFiniteSet(UnderWay(s)')
    BY <1>1, FS_Subset
  <2> QED BY <1>1, <1>2, <2>1, FS_CardinalityType
<1> QED BY <1>1, <1>2, <1>3

CanaryInv == CanaryTypes /\ Alone /\ Measured

LEMMA CanaryInit == ASSUME CanarySettings PROVE N!Init => CanaryInv
<1> SUFFICES ASSUME N!Init PROVE CanaryInv
  OBVIOUS
<1>1. /\ shadow = 0 /\ canary = 0 /\ samples = [s \in N!Starts |-> {}] /\ launches = 0 /\ mixed = FALSE
      /\ straddled = [s \in N!Starts |-> 0] /\ tester = [t \in Deployers |-> N!Idle] /\ N!Idle.at = "idle"
  BY DEF N!Init, N!Gone, N!Idle
<1>2. CanaryTypes
  <2>1. \A t \in Deployers : tester[t].at = "idle"
    BY <1>1
  <2>2. tester = [t \in Deployers |-> tester[t]] /\ samples = [s \in N!Starts |-> samples[s]]
    BY <1>1
  <2>3. \A s \in N!Starts : samples[s] = {}
    BY <1>1
  <2>4. launches \in Nat /\ shadow \in {0, launches} /\ canary \in 0..launches
    BY <1>1
  <2>5. straddled \in [N!Starts -> Nat]
    BY <1>1
  <2>6. mixed \in BOOLEAN
    BY <1>1
  <2> QED BY <2>1, <2>2, <2>3, <2>4, <2>5, <2>6 DEF CanaryTypes, Doing
<1>3. N!Changing = {}
  BY <1>1 DEF N!Changing, N!At
<1>4. Measured
  BY <1>1 DEF Measured, N!Starts
<1> QED BY <1>1, <1>2, <1>3, <1>4 DEF CanaryInv, Alone

LEMMA CanaryRegister ==
  ASSUME CanarySettings, CanaryInv, NEW t \in Deployers, N!Register(t)
  PROVE  CanaryInv'
<1>0. CanaryTypes /\ Alone /\ Measured
  BY DEF CanaryInv
<1> DEFINE new == [at |-> "start", of |-> launches + 1]
<1>1. /\ tester[t] = N!Idle /\ launches < MaxStarts /\ launches' = launches + 1 /\ shadow' = launches + 1
      /\ mixed' = (N!Changing # {}) /\ UNCHANGED <<canary, samples, scored>>
      /\ straddled' = [straddled EXCEPT ![launches + 1] = N!Cardinality(N!At({"scoring"}))]
      /\ tester' = [tester EXCEPT ![t] = new]
  BY DEF N!Register, N!To
<1>2. Turned(t, new) /\ tester[t].at = "idle" /\ new.at = "start" /\ new.of = launches + 1
  <2>1. new.at = "start" /\ new.of = launches + 1
    OBVIOUS
  <2> HIDE DEF new
  <2>2. Turned(t, new)
    BY <1>0, <1>1, Turning
  <2>3. tester[t].at = "idle"
    BY <1>1 DEF N!Idle
  <2> QED BY <2>1, <2>2, <2>3
<1>3. launches + 1 \in N!Starts /\ launches \in Nat /\ launches + 1 \in 1..(launches + 1)
  BY <1>0, <1>1 DEF CanaryTypes, CanarySettings, N!Starts
<1> HIDE DEF new
<1>n. PICK n \in N!Starts : n = launches + 1
  BY <1>3
<1>4. /\ IsFiniteSet(N!At({"scoring"})) /\ Cardinality(N!At({"scoring"})) \in Nat
      /\ N!Cardinality(N!At({"scoring"})) = Cardinality(N!At({"scoring"}))
  <2>1. N!At({"scoring"}) \subseteq Deployers
    BY DEF N!At
  <2>2. N!Cardinality(N!At({"scoring"})) = Cardinality(N!At({"scoring"}))
    BY DEF N!Cardinality, Cardinality
  <2> QED BY <2>1, <2>2, FS_Subset, FS_CardinalityType DEF CanarySettings
<1>5. /\ straddled' \in [N!Starts -> Nat] /\ straddled'[launches + 1] = Cardinality(N!At({"scoring"}))
      /\ \A s \in N!Starts : s # launches + 1 => straddled'[s] = straddled[s]
  BY <1>0, <1>1, <1>3, <1>4 DEF CanaryTypes
<1>6. CanaryTypes'
  <2>1. \A d \in Deployers :
          /\ tester'[d].at \in {"scoring", "record", "start"} => tester'[d].of \in 1..(launches + 1)
          /\ tester'[d].at = "record" => tester'[d].to \in 1..(launches + 1)
    <3> TAKE d \in Deployers
    <3>1. CASE d = t
      BY <1>2, <1>3, <3>1 DEF Turned
    <3>2. CASE d # t
      BY <1>0, <1>2, <1>3, <3>2 DEF Turned, CanaryTypes, Doing
    <3> QED BY <3>1, <3>2
  <2>2. \A s \in N!Starts : s > launches + 1 => samples[s] = {}
    BY <1>0, <1>3 DEF CanaryTypes, N!Starts
  <2> QED BY <1>0, <1>1, <1>2, <1>3, <1>5, <2>1, <2>2 DEF CanaryTypes, Turned, Doing
<1>7. Alone'
  <2>1. CASE N!Changing # {}
    BY <1>1, <2>1 DEF Alone
  <2>2. CASE N!Changing = {}
    <3>1. N!Changing' = {t}
      BY <1>2, <2>2 DEF N!Changing, N!At, Turned
    <3> QED BY <1>1, <1>2, <3>1 DEF Alone, Doing, Turned
  <2> QED BY <2>1, <2>2
<1>8. UnderWay(n)' \subseteq N!At({"scoring"})
  <2> SUFFICES ASSUME NEW d \in Deployers, tester'[d].of < n,
                      tester'[d].at = "scoring" \/ (tester'[d].at = "record" /\ tester'[d].to = n)
               PROVE  tester[d].at = "scoring"
    BY DEF UnderWay, Doing, N!At
  <2>1. d # t
    BY <1>2, <1>n DEF Turned
  <2>2. tester'[d] = tester[d]
    BY <1>2, <2>1 DEF Turned
  <2>3. ~(tester[d].at = "record" /\ tester[d].to = n)
    BY <1>0, <1>3, <1>n DEF CanaryTypes, Doing
  <2> QED BY <2>2, <2>3
<1>9. ASSUME NEW s \in N!Starts, s <= launches PROVE UnderWay(s)' \subseteq UnderWay(s)
  BY <1>2, <1>9 DEF UnderWay, Doing, Turned
<1>10. Measured'
  <2> SUFFICES ASSUME NEW s \in N!Starts, s <= launches + 1
               PROVE  /\ IsFiniteSet(N!Earlier(s)')
                      /\ Cardinality(N!Earlier(s)') + Cardinality(UnderWay(s)') <= straddled'[s]
    BY <1>1 DEF Measured
  <2>1. N!Earlier(s)' = N!Earlier(s)
    BY <1>1 DEF N!Earlier
  <2>2. CASE s = launches + 1
    <3>0. UnderWay(s)' = UnderWay(n)'
      BY <1>n, <2>2
    <3>1. N!Earlier(s) = {}
      BY <1>0, <1>3, <2>2 DEF CanaryTypes, N!Earlier
    <3>2. Cardinality(UnderWay(s)') <= Cardinality(N!At({"scoring"}))
      BY <1>4, <1>8, <3>0, FS_Subset
    <3>3. Cardinality(UnderWay(s)') \in Nat
      BY <1>4, <1>8, <3>0, FS_Subset, FS_CardinalityType
    <3> QED BY <1>4, <1>5, <2>1, <2>2, <3>1, <3>2, <3>3, FS_EmptySet
  <2>3. CASE s # launches + 1
    <3>1. s <= launches
      BY <1>3, <2>3 DEF N!Starts
    <3>2. IsFiniteSet(UnderWay(s)) /\ UnderWay(s)' \subseteq UnderWay(s) /\ IsFiniteSet(N!Earlier(s))
      BY <1>0, <1>9, <3>1, UnderWayFinite DEF Measured
    <3>3. /\ Cardinality(UnderWay(s)') <= Cardinality(UnderWay(s)) /\ Cardinality(UnderWay(s)') \in Nat
          /\ Cardinality(UnderWay(s)) \in Nat /\ Cardinality(N!Earlier(s)) \in Nat
      BY <3>2, FS_Subset, FS_CardinalityType
    <3>4. Cardinality(N!Earlier(s)) + Cardinality(UnderWay(s)) <= straddled[s] /\ straddled[s] \in Nat
      BY <1>0, <3>1 DEF Measured, CanaryTypes
    <3>5. Cardinality(N!Earlier(s)) + Cardinality(UnderWay(s)') <= straddled[s]
      BY <3>3, <3>4
    <3> QED BY <1>5, <2>1, <2>3, <3>2, <3>5
  <2> QED BY <2>2, <2>3
<1> QED BY <1>6, <1>7, <1>10 DEF CanaryInv

LEMMA CanaryTypesKept ==
  ASSUME CanaryTypes, NEW t \in Deployers, NEW step1, Turned(t, step1), UNCHANGED <<launches, straddled>>,
         shadow' \in {0, launches}, canary' \in 0..launches, mixed' \in BOOLEAN,
         samples' = [s \in N!Starts |-> samples'[s]], \A s \in N!Starts : s > launches => samples'[s] = {},
         step1.at \in {"scoring", "record", "start"} => step1.of \in 1..launches,
         step1.at = "record" => step1.to \in 1..launches
  PROVE  CanaryTypes'
<1>1. \A d \in Deployers :
        /\ tester'[d].at \in {"scoring", "record", "start"} => tester'[d].of \in 1..launches
        /\ tester'[d].at = "record" => tester'[d].to \in 1..launches
  <2> TAKE d \in Deployers
  <2>1. CASE d = t
    BY <2>1 DEF Turned
  <2>2. CASE d # t
    BY <2>2 DEF Turned, CanaryTypes, Doing
  <2> QED BY <2>1, <2>2
<1>2. tester' = [d \in Deployers |-> tester'[d]]
  BY DEF Turned
<1> QED BY <1>1, <1>2 DEF CanaryTypes, Doing

\* A step that neither starts nor stops a canary.
LEMMA AloneKept ==
  ASSUME Alone, NEW t \in Deployers, NEW step1, Turned(t, step1), UNCHANGED <<shadow, canary, mixed>>,
         tester[t].at \notin {"start", "stop"}, step1.at \notin {"start", "stop"}
  PROVE  Alone'
<1>1. N!Changing' = N!Changing
  BY DEF N!Changing, N!At, Turned
<1>2. \A d \in Deployers : N!Changing = {d} => tester'[d] = tester[d]
  BY DEF N!Changing, N!At, Turned
<1> QED BY <1>1, <1>2 DEF Alone, Doing

LEMMA CanaryChanged ==
  ASSUME CanarySettings, CanaryInv, NEW t \in Deployers, N!Install(t) \/ N!Unregister(t) \/ N!Pop(t)
  PROVE  CanaryInv'
<1>0. CanaryTypes /\ Alone /\ Measured
  BY DEF CanaryInv
<1>1. PICK step1 : /\ Turned(t, step1) /\ step1.at \in {"idle", "stop"}
                   /\ N!Install(t) \/ N!Pop(t) => step1.at = "idle"
                   /\ N!Unregister(t) => step1.at = "stop"
  <2>1. CASE N!Unregister(t)
    <3>1. [at |-> "stop"].at = "stop" /\ Turned(t, [at |-> "stop"])
      BY <1>0, <2>1, Turning DEF N!Unregister, N!To
    <3>2. ~N!Install(t) /\ ~N!Pop(t)
      BY <2>1 DEF N!Unregister, N!Install, N!Pop
    <3> QED BY <3>1, <3>2
  <2>2. CASE N!Install(t) \/ N!Pop(t)
    <3>1. N!Idle.at = "idle"
      BY DEF N!Idle
    <3>2. Turned(t, N!Idle)
      BY <1>0, <2>2, Turning DEF N!Install, N!Pop, N!To
    <3>3. ~N!Unregister(t)
      BY <2>2 DEF N!Unregister, N!Install, N!Pop
    <3> QED BY <3>1, <3>2, <3>3
  <2> QED BY <2>1, <2>2
<1>2. launches' = launches /\ straddled' = straddled
  BY DEF N!Install, N!Unregister, N!Pop
<1>3. CASE N!Install(t)
  <2>1. /\ tester[t].at = "start" /\ canary' = tester[t].of /\ UNCHANGED <<shadow, mixed>>
        /\ samples' = [samples EXCEPT ![tester[t].of] = {}] /\ tester[t].of \in 1..launches
    BY <1>0, <1>3 DEF N!Install, N!Deque, CanaryTypes
  <2>2. \A s \in N!Starts : samples'[s] = samples[s] \/ samples'[s] = {}
    BY <1>0, <2>1 DEF CanaryTypes
  <2>3. CanaryTypes'
    <3>1. samples' = [s \in N!Starts |-> samples'[s]]
      BY <1>0, <2>1 DEF CanaryTypes
    <3>2. \A s \in N!Starts : s > launches => samples'[s] = {}
      BY <1>0, <2>2 DEF CanaryTypes
    <3>3. shadow' \in {0, launches} /\ canary' \in 0..launches /\ mixed' \in BOOLEAN
      BY <1>0, <2>1 DEF CanaryTypes
    <3> QED BY <1>0, <1>1, <1>2, <3>1, <3>2, <3>3, CanaryTypesKept
  <2>4. Alone'
    <3>1. t \in N!Changing
      BY <2>1 DEF N!Changing, N!At
    <3>2. mixed \/ (N!Changing = {t} /\ tester[t].of = shadow)
      BY <1>0, <2>1, <3>1 DEF Alone, Doing
    <3>3. N!Changing = {t} => N!Changing' = {}
      BY <1>1, <1>3 DEF N!Changing, N!At, Turned
    <3> QED BY <2>1, <3>2, <3>3 DEF Alone
  <2>5. Measured'
    <3>1. \A s \in N!Starts : N!Earlier(s)' \subseteq N!Earlier(s) /\ UnderWay(s)' \subseteq UnderWay(s)
      BY <1>1, <1>3, <2>2 DEF N!Earlier, UnderWay, Doing, Turned
    <3> QED BY <1>0, <1>2, <3>1, MeasuredFrame
  <2> QED BY <2>3, <2>4, <2>5 DEF CanaryInv
<1>4. CASE N!Unregister(t) \/ N!Pop(t)
  <2>1. samples' = samples
    BY <1>4 DEF N!Unregister, N!Pop
  <2>2. CanaryTypes'
    <3>1. shadow' \in {0, launches} /\ canary' \in 0..launches
      BY <1>0, <1>4 DEF N!Unregister, N!Pop, N!Gone, CanaryTypes
    <3>2. mixed' \in BOOLEAN
      BY <1>0, <1>4 DEF N!Unregister, N!Pop, CanaryTypes
    <3> QED BY <1>0, <1>1, <1>2, <2>1, <3>1, <3>2, CanaryTypesKept DEF CanaryTypes
  <2>3. Measured'
    <3>1. \A s \in N!Starts : N!Earlier(s)' \subseteq N!Earlier(s) /\ UnderWay(s)' \subseteq UnderWay(s)
      BY <1>1, <2>1 DEF N!Earlier, UnderWay, Doing, Turned
    <3> QED BY <1>0, <1>2, <3>1, MeasuredFrame
  <2>4. CASE N!Unregister(t)
    <3>1. shadow' = 0 /\ mixed' = (N!Changing # {}) /\ tester[t].at \notin {"start", "stop"} /\ step1.at = "stop"
      BY <1>1, <2>4 DEF N!Unregister, N!Gone
    <3>4. Alone'
      <4>1. CASE N!Changing # {}
        BY <3>1, <4>1 DEF Alone
      <4>2. CASE N!Changing = {}
        <5>1. N!Changing' = {t}
          BY <1>1, <3>1, <4>2 DEF N!Changing, N!At, Turned
        <5> QED BY <1>1, <3>1, <5>1 DEF Alone, Doing, Turned
      <4> QED BY <4>1, <4>2
    <3> QED BY <2>2, <2>3, <3>4 DEF CanaryInv
  <2>5. CASE N!Pop(t)
    <3>1. tester[t].at = "stop" /\ canary' = 0 /\ UNCHANGED <<shadow, mixed>>
      BY <2>5 DEF N!Pop, N!Gone
    <3>2. t \in N!Changing
      BY <3>1 DEF N!Changing, N!At
    <3>3. mixed \/ (N!Changing = {t} /\ shadow = 0)
      BY <1>0, <3>1, <3>2 DEF Alone, Doing
    <3>4. N!Changing = {t} => N!Changing' = {}
      BY <1>1, <2>5 DEF N!Changing, N!At, Turned
    <3>5. Alone'
      BY <3>1, <3>3, <3>4 DEF Alone
    <3> QED BY <2>2, <2>3, <3>5 DEF CanaryInv
  <2> QED BY <1>4, <2>4, <2>5
<1> QED BY <1>3, <1>4

\* Steps of a thread that scores, records or evaluates.
LEMMA CanaryUsed ==
  ASSUME CanarySettings, CanaryInv, NEW t \in Deployers, NEW step1, Turned(t, step1),
         UNCHANGED <<launches, straddled, shadow, canary, mixed, samples>>,
         tester[t].at \notin {"start", "stop"}, step1.at \notin {"start", "stop"},
         step1.at \in {"scoring", "record"} => step1.of \in 1..launches,
         step1.at = "record" => step1.to \in 1..launches,
         \A s \in N!Starts : s <= launches /\ t \in UnderWay(s)' => t \in UnderWay(s)
  PROVE  CanaryInv'
<1>0. CanaryTypes /\ Alone /\ Measured
  BY DEF CanaryInv
<1>1. CanaryTypes'
  BY <1>0, CanaryTypesKept DEF CanaryTypes
<1>2. Alone'
  BY <1>0, AloneKept
<1>3. \A s \in N!Starts : s <= launches => N!Earlier(s)' \subseteq N!Earlier(s) /\ UnderWay(s)' \subseteq UnderWay(s)
  <2> SUFFICES ASSUME NEW s \in N!Starts, s <= launches
               PROVE  N!Earlier(s)' \subseteq N!Earlier(s) /\ UnderWay(s)' \subseteq UnderWay(s)
    OBVIOUS
  <2>1. N!Earlier(s)' \subseteq N!Earlier(s)
    BY DEF N!Earlier
  <2>2. \A d \in Deployers : d # t /\ d \in UnderWay(s)' => d \in UnderWay(s)
    BY DEF UnderWay, Doing, Turned
  <2>3. UnderWay(s)' \subseteq Deployers
    BY DEF UnderWay
  <2> QED BY <2>1, <2>2, <2>3
<1>4. Measured'
  BY <1>0, <1>3, MeasuredFrame
<1> QED BY <1>1, <1>2, <1>4 DEF CanaryInv

LEMMA CanaryScoring ==
  ASSUME CanarySettings, CanaryInv, NEW t \in Deployers,
         N!RunShadowScoring(t) \/ N!FindEntry(t) \/ N!AutoEvaluate(t) \/ N!Evaluate(t)
  PROVE  CanaryInv'
<1>0. CanaryTypes /\ N!Idle.at = "idle"
  BY DEF CanaryInv, N!Idle
<1>1. ASSUME NEW step1, tester' = [tester EXCEPT ![t] = step1] PROVE Turned(t, step1)
  BY <1>0, <1>1, Turning
<1>2. UNCHANGED <<launches, straddled, shadow, canary, mixed, samples>> /\ tester[t].at \notin {"start", "stop"}
  BY <1>0 DEF N!RunShadowScoring, N!FindEntry, N!AutoEvaluate, N!Evaluate
<1>3. ASSUME NEW step1, Turned(t, step1), step1.at \notin {"start", "stop", "scoring", "record"} PROVE CanaryInv'
  <2>1. \A s \in N!Starts : t \notin UnderWay(s)'
    BY <1>3 DEF UnderWay, Doing, Turned
  <2> QED BY <1>2, <1>3, <2>1, CanaryUsed
<1>4. CASE N!RunShadowScoring(t)
  <2> DEFINE new == [at |-> "scoring", of |-> shadow, no |-> scored']
  <2>1. Turned(t, new)
    BY <1>1, <1>4 DEF N!RunShadowScoring, N!To
  <2>2. new.at = "scoring" /\ new.of = shadow
    OBVIOUS
  <2> HIDE DEF new
  <2>3. shadow = launches /\ launches \in 1..launches
    BY <1>0, <1>4 DEF N!RunShadowScoring, N!Gone, CanaryTypes
  <2>4. \A s \in N!Starts : s <= launches => t \notin UnderWay(s)'
    BY <2>1, <2>2, <2>3 DEF UnderWay, Turned, N!Starts
  <2> QED BY <1>2, <2>1, <2>2, <2>3, <2>4, CanaryUsed
<1>5. CASE N!FindEntry(t)
  <2>1. tester[t].at = "scoring" /\ tester[t].of \in 1..launches
    BY <1>0, <1>5 DEF N!FindEntry, CanaryTypes
  <2>2. CASE canary = 0
    <3>1. Turned(t, N!Idle)
      BY <1>1, <1>5, <2>2 DEF N!FindEntry, N!To, N!Gone
    <3> QED BY <1>0, <1>3, <3>1
  <2>3. CASE canary # 0
    <3> DEFINE new == [at |-> "record", of |-> tester[t].of, no |-> tester[t].no, to |-> canary]
    <3>1. Turned(t, new)
      BY <1>1, <1>5, <2>3 DEF N!FindEntry, N!To, N!Gone
    <3>2. new.at = "record" /\ new.of = tester[t].of /\ new.to = canary
      OBVIOUS
    <3> HIDE DEF new
    <3>3. canary \in 1..launches
      BY <1>0, <2>3 DEF CanaryTypes
    <3>4. \A s \in N!Starts : t \in UnderWay(s)' => t \in UnderWay(s)
      BY <2>1, <3>1, <3>2 DEF UnderWay, Doing, Turned
    <3> QED BY <1>2, <2>1, <3>1, <3>2, <3>3, <3>4, CanaryUsed
  <2> QED BY <2>2, <2>3
<1>6. CASE N!AutoEvaluate(t)
  <2>1. Turned(t, [at |-> "evaluate"])
    BY <1>1, <1>6 DEF N!AutoEvaluate, N!To
  <2>2. [at |-> "evaluate"].at = "evaluate"
    OBVIOUS
  <2> QED BY <1>3, <2>1, <2>2
<1>7. CASE N!Evaluate(t)
  <2>1. [at |-> "decided"].at = "decided"
    OBVIOUS
  <2>2. Turned(t, N!Idle) \/ Turned(t, [at |-> "decided"])
    BY <1>1, <1>7 DEF N!Evaluate, N!To
  <2> QED BY <1>0, <1>3, <2>1, <2>2
<1> QED BY <1>4, <1>5, <1>6, <1>7

\* A sample of an earlier scorer takes the place of its scoring in the count.
LEMMA CanaryAppend ==
  ASSUME CanarySettings, CanaryInv, NEW t \in Deployers, N!AppendSample(t)
  PROVE  CanaryInv'
<1>0. CanaryTypes /\ Alone /\ Measured
  BY DEF CanaryInv
<1>1. PICK o \in N!Outcomes, kept \in N!Remaining(samples[tester[t].to]) :
        samples' = [samples EXCEPT ![tester[t].to] =
                      kept \cup {[no |-> tester[t].no, of |-> tester[t].of, outcome |-> o]}]
  BY DEF N!AppendSample
<1>K. kept \subseteq samples[tester[t].to]
  BY DEF N!Remaining
<1> DEFINE new == [no |-> tester[t].no, of |-> tester[t].of, outcome |-> o]
<1>2. new.of = tester[t].of
  OBVIOUS
<1> HIDE DEF new
<1>3. /\ tester[t].at = "record" /\ tester[t].to \in 1..launches /\ tester[t].of \in 1..launches
      /\ UNCHANGED <<launches, straddled, shadow, canary, mixed>>
  BY <1>0 DEF N!AppendSample, CanaryTypes, Doing
<1>4. Turned(t, N!Idle) /\ N!Idle.at = "idle"
  BY <1>0, Turning DEF N!AppendSample, N!To, N!Idle
<1>5. PICK to \in 1..launches : to = tester[t].to
  BY <1>3
<1>6. /\ samples' = [s \in N!Starts |-> samples'[s]]
      /\ \A s \in N!Starts : s # to => samples'[s] = samples[s]
      /\ to \in N!Starts => samples'[to] = kept \cup {new}
  <2>1. samples = [s \in N!Starts |-> samples[s]]
    BY <1>0 DEF CanaryTypes
  <2>2. samples' = [samples EXCEPT ![to] = kept \cup {new}]
    BY <1>1, <1>5 DEF new
  <2> QED BY <2>1, <2>2
<1>7. CanaryTypes'
  <2>1. \A s \in N!Starts : s > launches => samples'[s] = {}
    BY <1>0, <1>5, <1>6 DEF CanaryTypes, N!Starts
  <2> QED BY <1>0, <1>3, <1>4, <1>6, <2>1, CanaryTypesKept DEF CanaryTypes
<1>8. Alone'
  BY <1>0, <1>3, <1>4, AloneKept
<1>9. Measured'
  <2> SUFFICES ASSUME NEW s \in N!Starts, s <= launches
               PROVE  /\ IsFiniteSet(N!Earlier(s)')
                      /\ Cardinality(N!Earlier(s)') + Cardinality(UnderWay(s)') <= straddled[s]
    BY <1>3 DEF Measured
  <2>1. /\ IsFiniteSet(N!Earlier(s)) /\ Cardinality(N!Earlier(s)) \in Nat /\ straddled[s] \in Nat
        /\ IsFiniteSet(UnderWay(s)) /\ Cardinality(UnderWay(s)) \in Nat
        /\ Cardinality(N!Earlier(s)) + Cardinality(UnderWay(s)) <= straddled[s]
    BY <1>0, UnderWayFinite, FS_CardinalityType DEF Measured, CanaryTypes
  <2>2. UnderWay(s)' = UnderWay(s) \ {t}
    BY <1>4 DEF UnderWay, Doing, Turned
  <2>3. CASE s = to /\ new.of < s
    <3> DEFINE left == {x \in kept : x.of < s}
    <3>1. N!Earlier(s)' = left \cup {new} /\ left \subseteq N!Earlier(s)
      BY <1>K, <1>5, <1>6, <2>3 DEF N!Earlier
    <3>5. IsFiniteSet(left) /\ Cardinality(left) \in Nat /\ Cardinality(left) <= Cardinality(N!Earlier(s))
      BY <2>1, <3>1, FS_Subset, FS_CardinalityType
    <3> HIDE DEF left
    <3>2. t \in UnderWay(s)
      BY <1>2, <1>3, <1>5, <2>3 DEF UnderWay, Doing
    <3>3. Cardinality(UnderWay(s)') = Cardinality(UnderWay(s)) - 1
      BY <2>1, <2>2, <3>2, FS_RemoveElement
    <3>4. /\ IsFiniteSet(N!Earlier(s)')
          /\ Cardinality(N!Earlier(s)') \in {Cardinality(left), Cardinality(left) + 1}
      <4>1. /\ IsFiniteSet(left \cup {new})
            /\ Cardinality(left \cup {new}) = IF new \in left THEN Cardinality(left) ELSE Cardinality(left) + 1
        BY <3>5, FS_AddElement
      <4> QED BY <3>1, <4>1
    <3> QED BY <2>1, <3>3, <3>4, <3>5
  <2>4. CASE ~(s = to /\ new.of < s)
    <3>1. N!Earlier(s)' \subseteq N!Earlier(s)
      BY <1>K, <1>5, <1>6, <2>4 DEF N!Earlier
    <3>3. /\ IsFiniteSet(N!Earlier(s)') /\ Cardinality(N!Earlier(s)') \in Nat
          /\ Cardinality(N!Earlier(s)') <= Cardinality(N!Earlier(s))
      BY <2>1, <3>1, FS_Subset, FS_CardinalityType
    <3>2. Cardinality(UnderWay(s)') <= Cardinality(UnderWay(s)) /\ Cardinality(UnderWay(s)') \in Nat
      BY <2>1, <2>2, FS_Subset, FS_CardinalityType
    <3> QED BY <2>1, <3>2, <3>3
  <2> QED BY <2>3, <2>4
<1> QED BY <1>7, <1>8, <1>9 DEF CanaryInv

LEMMA CanaryStep == ASSUME CanarySettings PROVE CanaryInv /\ [N!Next]_(N!cnvars) => CanaryInv'
<1> SUFFICES ASSUME CanaryInv, [N!Next]_(N!cnvars) PROVE CanaryInv'
  OBVIOUS
<1>1. CASE UNCHANGED N!cnvars
  <2>1. UNCHANGED <<shadow, canary, samples, tester, launches, scored, straddled, mixed>>
    BY <1>1 DEF N!cnvars
  <2>2. CanaryTypes' /\ Alone'
    BY <2>1 DEF CanaryInv, CanaryTypes, Alone, Doing, N!Changing, N!At
  <2>3. Measured'
    BY <2>1 DEF CanaryInv, Measured, UnderWay, Doing, N!Earlier
  <2> QED BY <2>2, <2>3 DEF CanaryInv
<1>2. ASSUME NEW t \in Deployers, N!Install(t) \/ N!Unregister(t) \/ N!Pop(t) PROVE CanaryInv'
  BY <1>2, CanaryChanged
<1>3. ASSUME NEW t \in Deployers, N!RunShadowScoring(t) \/ N!FindEntry(t) \/ N!AutoEvaluate(t) \/ N!Evaluate(t)
      PROVE  CanaryInv'
  BY <1>3, CanaryScoring
<1> QED BY <1>1, <1>2, <1>3, CanaryRegister, CanaryAppend DEF N!Next

\* However starts, stops, scorings and evaluations interleave, the scorer that runs is the
\* canary's unless the last start and stop overlapped, and only scorings under way when a
\* scorer came can leave it a sample that is not its own.
THEOREM CanaryMeasured == N!Spec => []MeasuredByItsOwn
<1>1. CanarySettings
  BY SharedStateAssumption
<1>2. ASSUME CanaryInv PROVE MeasuredByItsOwn
  <2>1. CanaryTypes /\ Alone /\ Measured
    BY <1>2 DEF CanaryInv
  <2>2. N!Changing = {} /\ ~mixed => shadow = canary
    BY <2>1 DEF Alone
  <2>3. ASSUME NEW s \in N!Starts PROVE N!Cardinality(N!Earlier(s)) <= straddled[s]
    <3>1. N!Cardinality(N!Earlier(s)) = Cardinality(N!Earlier(s)) /\ straddled[s] \in Nat
      BY <2>1 DEF N!Cardinality, Cardinality, CanaryTypes
    <3>2. CASE s <= launches
      <4>1. /\ IsFiniteSet(N!Earlier(s)) /\ Cardinality(UnderWay(s)) \in Nat
            /\ Cardinality(N!Earlier(s)) + Cardinality(UnderWay(s)) <= straddled[s]
        BY <1>1, <2>1, <3>2, UnderWayFinite DEF Measured
      <4>2. Cardinality(N!Earlier(s)) \in Nat
        BY <4>1, FS_CardinalityType
      <4> QED BY <3>1, <4>1, <4>2
    <3>3. CASE ~(s <= launches)
      <4>1. N!Earlier(s) = {}
        BY <2>1, <3>3 DEF CanaryTypes, N!Earlier, N!Starts
      <4> QED BY <3>1, <4>1, FS_EmptySet
    <3> QED BY <3>2, <3>3
  <2> QED BY <2>2, <2>3 DEF MeasuredByItsOwn, N!MeasuredByItsOwn
<1> QED BY <1>1, <1>2, CanaryInit, CanaryStep, PTL DEF N!Spec

-----------------------------------------------------------------------------
(***************************************************************************)
(* The event store: selecting from a sequence.  E!Kept is recursive, so    *)
(* what it computes is proved by induction on the length of the sequence.  *)
(* The induction rests on the well-foundedness of finite sets under        *)
(* inclusion, 0..n standing for n: the library's rules of induction take   *)
(* an operator as a parameter, which the provers cannot instantiate.       *)
(***************************************************************************)
\* A set of naturals that is not empty has a least element.  The library gives the
\* well-foundedness of finite sets in a form the provers can use, that of < it does not.
LEMMA LeastNatural == ASSUME NEW T \in SUBSET Nat, T # {} PROVE \E n \in T : \A m \in T : n <= m
<1> DEFINE Inside == StrictSubsetOrdering(Nat)
           I == {0..n : n \in T}
<1>1. IsWellFoundedOn(Inside, FiniteSubsetsOf(Nat))
  BY FS_StrictSubsetOrderingWellFounded
<1>2. I \in SUBSET FiniteSubsetsOf(Nat) /\ I # {}
  <2>1. \A n \in T : IsFiniteSet(0..n) /\ 0..n \in SUBSET Nat
    BY FS_Interval
  <2> QED BY <2>1 DEF FiniteSubsetsOf
<1>3. \A x, y \in I : <<x, y>> \in Inside <=> x \subseteq y /\ x # y
  BY DEF StrictSubsetOrdering
<1>4. PICK x \in I : \A y \in I : <<y, x>> \notin Inside
  <2> HIDE DEF Inside, I
  <2> QED BY <1>1, <1>2, WFMin
<1>5. PICK n \in T : x = 0..n
  OBVIOUS
<1>6. ASSUME NEW m \in T, m < n PROVE FALSE
  <2>1. n \in 0..n /\ n \notin 0..m /\ 0..m \subseteq 0..n /\ 0..m \in I
    BY <1>6
  <2>2. 0..m \subseteq x /\ 0..m # x
    BY <1>5, <2>1
  <2> HIDE DEF Inside, I
  <2> QED BY <1>3, <1>4, <2>1, <2>2
<1> QED BY <1>6

LEMMA UpTo ==
  ASSUME NEW top \in Nat, NEW T \in SUBSET (0..top), 0 \in T, \A n \in 1..top : n - 1 \in T => n \in T
  PROVE  T = 0..top
<1> DEFINE B == (0..top) \ T
<1> SUFFICES ASSUME B # {} PROVE FALSE
  OBVIOUS
<1>1. PICK n \in B : \A m \in B : n <= m
  <2>1. B \in SUBSET Nat
    OBVIOUS
  <2> HIDE DEF B
  <2> QED BY <2>1, LeastNatural
<1>2. n # 0 /\ n \in 1..top /\ n - 1 \in 0..top /\ ~(n <= n - 1)
  OBVIOUS
<1>3. n - 1 \in T
  BY <1>1, <1>2
<1> QED BY <1>2, <1>3

\* f selects from the first n elements of s those in U, one by one.
Selects(f, s, U, n) ==
  f = [m \in 0..n |-> IF m = 0 THEN <<>> ELSE IF s[m] \in U THEN Append(f[m - 1], s[m]) ELSE f[m - 1]]

LEMMA SelectionExists == ASSUME NEW V, NEW s \in Seq(V), NEW U PROVE \E f : Selects(f, s, U, Len(s))
<1> DEFINE T == {n \in 0..Len(s) : \E f : Selects(f, s, U, n)}
<1>1. 0 \in T
  <2>1. Selects([m \in 0..0 |-> <<>>], s, U, 0)
    BY DEF Selects
  <2> QED BY <2>1
<1>2. ASSUME NEW n \in 1..Len(s), n - 1 \in T PROVE n \in T
  <2>1. PICK f : Selects(f, s, U, n - 1)
    BY <1>2
  <2> DEFINE last == IF s[n] \in U THEN Append(f[n - 1], s[n]) ELSE f[n - 1]
             g == [m \in 0..n |-> IF m = n THEN last ELSE f[m]]
  <2>2. n \in Nat /\ n # 0 /\ n - 1 \in 0..n /\ n - 1 # n /\ \A m \in 0..n : m # n => m \in 0..(n - 1)
    OBVIOUS
  <2>3. \A m \in 0..(n - 1) : g[m] = f[m] /\ m \in 0..n /\ m # n /\ (m # 0 => m - 1 \in 0..(n - 1) /\ g[m - 1] = f[m - 1])
    BY <2>2
  <2>4. \A m \in 0..(n - 1) : f[m] = IF m = 0 THEN <<>> ELSE IF s[m] \in U THEN Append(f[m - 1], s[m]) ELSE f[m - 1]
    BY <2>1 DEF Selects
  <2>5. g[n] = last /\ g[n - 1] = f[n - 1]
    BY <2>2
  <2>6. \A m \in 0..n : g[m] = IF m = 0 THEN <<>> ELSE IF s[m] \in U THEN Append(g[m - 1], s[m]) ELSE g[m - 1]
    <3> HIDE DEF g
    <3> TAKE m \in 0..n
    <3>1. CASE m = n
      BY <2>2, <2>5, <3>1
    <3>2. CASE m # n
      BY <2>2, <2>3, <2>4, <3>2
    <3> QED BY <3>1, <3>2
  <2>7. Selects(g, s, U, n)
    BY <2>6 DEF Selects
  <2> QED BY <2>7
<1>3. Len(s) \in Nat /\ T \in SUBSET (0..Len(s))
  OBVIOUS
<1> HIDE DEF T
<1>4. T = 0..Len(s)
  BY <1>1, <1>2, <1>3, UpTo
<1> QED BY <1>3, <1>4 DEF T

LEMMA KeptSelects == ASSUME NEW V, NEW s \in Seq(V), NEW U PROVE \E f : Selects(f, s, U, Len(s)) /\ E!Kept(s, U) = f[Len(s)]
<1> DEFINE f[n \in 0..Len(s)] ==
        IF n = 0 THEN <<>> ELSE IF s[n] \in U THEN Append(f[n - 1], s[n]) ELSE f[n - 1]
<1>1. f = CHOOSE g : g = [m \in 0..Len(s) |-> IF m = 0 THEN <<>> ELSE IF s[m] \in U THEN Append(g[m - 1], s[m]) ELSE g[m - 1]]
  OBVIOUS
<1>2. E!Kept(s, U) = f[Len(s)]
  BY DEF E!Kept
<1> HIDE DEF f
<1>3. f = CHOOSE g : Selects(g, s, U, Len(s))
  BY <1>1 DEF Selects
<1>4. Selects(f, s, U, Len(s))
  BY <1>3, SelectionExists
<1> QED BY <1>2, <1>4

LEMMA Agrees ==
  ASSUME NEW V, NEW s \in Seq(V), NEW t \in Seq(V), NEW U, NEW W, NEW f, NEW g,
         Selects(f, s, U, Len(s)), Selects(g, t, W, Len(t)), NEW n \in 0..Len(s), n <= Len(t),
         \A i \in 1..n : s[i] = t[i] /\ (s[i] \in U <=> t[i] \in W)
  PROVE  f[n] = g[n]
<1> DEFINE Same == {m \in 0..n : f[m] = g[m]}
<1>1. n \in Nat /\ Len(s) \in Nat /\ Len(t) \in Nat /\ 0 \in 0..n
  OBVIOUS
<1>2. /\ \A m \in 0..n : f[m] = IF m = 0 THEN <<>> ELSE IF s[m] \in U THEN Append(f[m - 1], s[m]) ELSE f[m - 1]
      /\ \A m \in 0..n : g[m] = IF m = 0 THEN <<>> ELSE IF t[m] \in W THEN Append(g[m - 1], t[m]) ELSE g[m - 1]
  <2>1. \A m \in 0..n : m \in 0..Len(s) /\ m \in 0..Len(t)
    BY <1>1
  <2> QED BY <2>1 DEF Selects
<1>3. 0 \in Same
  BY <1>1, <1>2
<1>4. ASSUME NEW m \in 1..n, m - 1 \in Same PROVE m \in Same
  BY <1>2, <1>4
<1>5. Same \in SUBSET (0..n)
  OBVIOUS
<1> HIDE DEF Same
<1>6. Same = 0..n
  BY <1>1, <1>3, <1>4, <1>5, UpTo
<1> QED BY <1>1, <1>6 DEF Same

LEMMA KeptOfNone == ASSUME NEW U PROVE E!Kept(<<>>, U) = <<>>
<1>1. <<>> \in Seq({}) /\ Len(<<>>) = 0
  OBVIOUS
<1>2. PICK f : Selects(f, <<>>, U, 0) /\ E!Kept(<<>>, U) = f[0]
  BY <1>1, KeptSelects
<1> QED BY <1>2 DEF Selects

LEMMA KeptAppend ==
  ASSUME NEW V, NEW s \in Seq(V), NEW e \in V, NEW U
  PROVE  E!Kept(Append(s, e), U) = IF e \in U THEN Append(E!Kept(s, U), e) ELSE E!Kept(s, U)
<1> DEFINE t == Append(s, e)
<1>1. /\ t \in Seq(V) /\ Len(t) = Len(s) + 1 /\ Len(s) \in Nat /\ t[Len(t)] = e
      /\ \A i \in 1..Len(s) : t[i] = s[i]
  OBVIOUS
<1> HIDE DEF t
<1>2. PICK f : Selects(f, s, U, Len(s)) /\ E!Kept(s, U) = f[Len(s)]
  BY KeptSelects
<1>3. PICK g : Selects(g, t, U, Len(t)) /\ E!Kept(t, U) = g[Len(t)]
  BY <1>1, KeptSelects
<1>4. f[Len(s)] = g[Len(s)]
  <2>1. Len(s) \in 0..Len(s) /\ Len(s) <= Len(t)
    BY <1>1
  <2> QED BY <1>1, <1>2, <1>3, <2>1, Agrees
<1>5. g[Len(t)] = IF t[Len(t)] \in U THEN Append(g[Len(t) - 1], t[Len(t)]) ELSE g[Len(t) - 1]
  <2>1. Len(t) \in 0..Len(t) /\ Len(t) # 0
    BY <1>1
  <2> QED BY <1>3, <2>1 DEF Selects
<1>6. Len(t) - 1 = Len(s)
  BY <1>1
<1> QED BY <1>1, <1>2, <1>3, <1>4, <1>5, <1>6 DEF t

LEMMA KeptSame ==
  ASSUME NEW V, NEW s \in Seq(V), NEW U, NEW W, \A i \in 1..Len(s) : s[i] \in U <=> s[i] \in W
  PROVE  E!Kept(s, U) = E!Kept(s, W)
<1>1. PICK f : Selects(f, s, U, Len(s)) /\ E!Kept(s, U) = f[Len(s)]
  BY KeptSelects
<1>2. PICK g : Selects(g, s, W, Len(s)) /\ E!Kept(s, W) = g[Len(s)]
  BY KeptSelects
<1>3. Len(s) \in 0..Len(s) /\ Len(s) <= Len(s)
  OBVIOUS
<1> QED BY <1>1, <1>2, <1>3, Agrees

LEMMA RangeWith ==
  ASSUME NEW V, NEW s \in Seq(V), NEW e \in V
  PROVE  Append(s, e) \in Seq(V) /\ E!Range(Append(s, e)) = E!Range(s) \cup {e}
<1> DEFINE t == Append(s, e)
<1>1. /\ t \in Seq(V) /\ DOMAIN t = 1..(Len(s) + 1) /\ t[Len(s) + 1] = e
      /\ DOMAIN s = 1..Len(s) /\ \A i \in DOMAIN s : t[i] = s[i]
      /\ DOMAIN t = DOMAIN s \cup {Len(s) + 1}
  OBVIOUS
<1> HIDE DEF t
<1> QED BY <1>1 DEF E!Range, t

\* What holds of the empty sequence, and of a longer one when it holds of what precedes
\* its last element, holds of every sequence.
LEMMA EverySequence ==
  ASSUME NEW V, NEW T \in SUBSET Seq(V), <<>> \in T,
         \A s \in Seq(V), e \in V : s \in T => Append(s, e) \in T
  PROVE  T = Seq(V)
<1> DEFINE B == {Len(s) : s \in Seq(V) \ T}
<1> SUFFICES ASSUME T # Seq(V) PROVE FALSE
  OBVIOUS
<1>1. PICK n \in B : \A m \in B : n <= m
  <2>1. \E s \in Seq(V) : s \notin T
    OBVIOUS
  <2>2. \A s \in Seq(V) : Len(s) \in Nat
    OBVIOUS
  <2>3. B \in SUBSET Nat /\ B # {}
    BY <2>1, <2>2
  <2> HIDE DEF B
  <2> QED BY <2>3, LeastNatural
<1>2. PICK s \in Seq(V) : s \notin T /\ n = Len(s)
  OBVIOUS
<1>3. s # <<>> /\ Len(s) \in Nat /\ Len(s) # 0
  BY <1>2
<1>4. PICK p \in Seq(V), e \in V : s = Append(p, e)
  BY <1>3, SequenceEmptyOrAppend
<1>5. Len(s) = Len(p) + 1 /\ Len(p) \in Nat
  BY <1>4
<1>6. p \in T
  <2>1. ~(n <= Len(p))
    BY <1>2, <1>5
  <2>2. p \notin T => Len(p) \in B
    OBVIOUS
  <2> QED BY <1>1, <2>1, <2>2
<1> QED BY <1>2, <1>4, <1>6

LEMMA KeptElements ==
  ASSUME NEW V, NEW U
  PROVE  \A s \in Seq(V) : E!Kept(s, U) \in Seq(V) /\ E!Range(E!Kept(s, U)) = E!Range(s) \cap U
<1> DEFINE T == {s \in Seq(V) : E!Kept(s, U) \in Seq(V) /\ E!Range(E!Kept(s, U)) = E!Range(s) \cap U}
<1>1. <<>> \in T
  <2>1. E!Kept(<<>>, U) = <<>> /\ <<>> \in Seq(V) /\ E!Range(<<>>) = {}
    BY KeptOfNone DEF E!Range
  <2> QED BY <2>1
<1>2. ASSUME NEW s \in Seq(V), NEW e \in V, s \in T PROVE Append(s, e) \in T
  <2>1. E!Kept(Append(s, e), U) = IF e \in U THEN Append(E!Kept(s, U), e) ELSE E!Kept(s, U)
    BY KeptAppend
  <2>2. Append(s, e) \in Seq(V) /\ E!Range(Append(s, e)) = E!Range(s) \cup {e}
    BY RangeWith
  <2>3. e \in U => /\ Append(E!Kept(s, U), e) \in Seq(V)
                    /\ E!Range(Append(E!Kept(s, U), e)) = E!Range(E!Kept(s, U)) \cup {e}
    BY <1>2, RangeWith
  <2> QED BY <1>2, <2>1, <2>2, <2>3
<1>3. T \in SUBSET Seq(V)
  OBVIOUS
<1> HIDE DEF T
<1>4. T = Seq(V)
  BY <1>1, <1>2, <1>3, EverySequence
<1> QED BY <1>4 DEF T

LEMMA KeptConcat ==
  ASSUME NEW V, NEW U, NEW s \in Seq(V)
  PROVE  \A t \in Seq(V) : E!Kept(s \o t, U) = E!Kept(s, U) \o E!Kept(t, U)
<1> DEFINE T == {t \in Seq(V) : E!Kept(s \o t, U) = E!Kept(s, U) \o E!Kept(t, U)}
<1>0. \A r \in Seq(V) : E!Kept(r, U) \in Seq(V)
  BY KeptElements
<1>1. <<>> \in T
  <2>1. s \o <<>> = s /\ \A r \in Seq(V) : r \o <<>> = r
    OBVIOUS
  <2>2. E!Kept(<<>>, U) = <<>> /\ E!Kept(s, U) \in Seq(V) /\ <<>> \in Seq(V)
    BY <1>0, KeptOfNone
  <2>3. E!Kept(s, U) \o <<>> = E!Kept(s, U)
    BY <2>1, <2>2
  <2> QED BY <2>1, <2>2, <2>3
<1>2. ASSUME NEW t \in Seq(V), NEW e \in V, t \in T PROVE Append(t, e) \in T
  <2>1. s \o Append(t, e) = Append(s \o t, e) /\ s \o t \in Seq(V) /\ Append(t, e) \in Seq(V)
    OBVIOUS
  <2>2. E!Kept(Append(s \o t, e), U) = IF e \in U THEN Append(E!Kept(s \o t, U), e) ELSE E!Kept(s \o t, U)
    BY <2>1, KeptAppend
  <2>3. E!Kept(Append(t, e), U) = IF e \in U THEN Append(E!Kept(t, U), e) ELSE E!Kept(t, U)
    BY KeptAppend
  <2> DEFINE a == E!Kept(s, U)
             b == E!Kept(t, U)
  <2>4. a \in Seq(V) /\ b \in Seq(V)
    BY <1>0
  <2> HIDE DEF a, b
  <2>5. a \o Append(b, e) = Append(a \o b, e)
    BY <2>4
  <2> QED BY <1>2, <2>1, <2>2, <2>3, <2>5 DEF a, b
<1>3. T \in SUBSET Seq(V)
  OBVIOUS
<1> HIDE DEF T
<1>4. T = Seq(V)
  BY <1>1, <1>2, <1>3, EverySequence
<1> QED BY <1>4 DEF T

LEMMA KeptTwice ==
  ASSUME NEW V, NEW U, NEW W
  PROVE  \A s \in Seq(V) : E!Kept(E!Kept(s, U), W) = E!Kept(s, U \cap W)
<1> DEFINE T == {s \in Seq(V) : E!Kept(E!Kept(s, U), W) = E!Kept(s, U \cap W)}
<1>1. <<>> \in T
  BY KeptOfNone
<1>2. ASSUME NEW s \in Seq(V), NEW e \in V, s \in T PROVE Append(s, e) \in T
  <2>1. E!Kept(s, U) \in Seq(V) /\ Append(s, e) \in Seq(V)
    BY KeptElements
  <2>2. E!Kept(Append(s, e), U) = IF e \in U THEN Append(E!Kept(s, U), e) ELSE E!Kept(s, U)
    BY KeptAppend
  <2>3. E!Kept(Append(s, e), U \cap W) = IF e \in U \cap W THEN Append(E!Kept(s, U \cap W), e) ELSE E!Kept(s, U \cap W)
    BY KeptAppend
  <2>4. E!Kept(Append(E!Kept(s, U), e), W) = IF e \in W THEN Append(E!Kept(E!Kept(s, U), W), e) ELSE E!Kept(E!Kept(s, U), W)
    BY <2>1, KeptAppend
  <2>5. E!Kept(E!Kept(s, U), W) = E!Kept(s, U \cap W)
    BY <1>2
  <2>6. CASE e \in U
    <3>1. E!Kept(Append(s, e), U) = Append(E!Kept(s, U), e) /\ (e \in U \cap W <=> e \in W)
      BY <2>2, <2>6
    <3> QED BY <2>1, <2>3, <2>4, <2>5, <3>1
  <2>7. CASE e \notin U
    <3>1. E!Kept(Append(s, e), U) = E!Kept(s, U) /\ e \notin U \cap W
      BY <2>2, <2>7
    <3> QED BY <2>1, <2>3, <2>5, <3>1
  <2> QED BY <2>6, <2>7
<1>3. T \in SUBSET Seq(V)
  OBVIOUS
<1> HIDE DEF T
<1>4. T = Seq(V)
  BY <1>1, <1>2, <1>3, EverySequence
<1> QED BY <1>4 DEF T

LEMMA KeptOfOne ==
  ASSUME NEW e, NEW U
  PROVE  E!Kept(<<e>>, U) = IF e \in U THEN <<e>> ELSE <<>>
<1>1. <<>> \in Seq({e}) /\ e \in {e} /\ Append(<<>>, e) = <<e>>
  OBVIOUS
<1>2. E!Kept(Append(<<>>, e), U) = IF e \in U THEN Append(E!Kept(<<>>, U), e) ELSE E!Kept(<<>>, U)
  BY <1>1, KeptAppend
<1> QED BY <1>1, <1>2, KeptOfNone

LEMMA KeptAll == ASSUME NEW V, NEW U PROVE \A s \in Seq(V) : E!Range(s) \subseteq U => E!Kept(s, U) = s
<1> DEFINE T == {s \in Seq(V) : E!Range(s) \subseteq U => E!Kept(s, U) = s}
<1>1. <<>> \in T
  <2>1. E!Kept(<<>>, U) = <<>> /\ <<>> \in Seq(V)
    BY KeptOfNone
  <2> QED BY <2>1
<1>2. ASSUME NEW s \in Seq(V), NEW e \in V, s \in T PROVE Append(s, e) \in T
  <2>1. Append(s, e) \in Seq(V) /\ E!Range(Append(s, e)) = E!Range(s) \cup {e}
    BY RangeWith
  <2>2. E!Kept(Append(s, e), U) = IF e \in U THEN Append(E!Kept(s, U), e) ELSE E!Kept(s, U)
    BY KeptAppend
  <2> QED BY <1>2, <2>1, <2>2
<1>3. T \in SUBSET Seq(V)
  OBVIOUS
<1> HIDE DEF T
<1>4. T = Seq(V)
  BY <1>1, <1>2, <1>3, EverySequence
<1> QED BY <1>4 DEF T

LEMMA KeptNothing == ASSUME NEW V, NEW U, NEW s \in Seq(V), E!Range(s) \cap U = {} PROVE E!Kept(s, U) = <<>>
<1>1. E!Kept(s, U) \in Seq(V) /\ E!Range(E!Kept(s, U)) = {}
  BY KeptElements
<1> DEFINE k == E!Kept(s, U)
<1> HIDE DEF k
<1>2. \A i \in 1..Len(k) : k[i] \in E!Range(k)
  BY <1>1 DEF E!Range, k
<1>3. k = <<>>
  BY <1>1, <1>2 DEF k
<1> QED BY <1>3 DEF k

LEMMA RangeOfBoth ==
  ASSUME NEW V, NEW s \in Seq(V), NEW t \in Seq(V)
  PROVE  s \o t \in Seq(V) /\ E!Range(s \o t) = E!Range(s) \cup E!Range(t)
<1> DEFINE u == s \o t
<1>1. /\ DOMAIN s = 1..Len(s) /\ DOMAIN t = 1..Len(t) /\ Len(s) \in Nat /\ Len(t) \in Nat
      /\ u \in Seq(V) /\ DOMAIN u = 1..(Len(s) + Len(t))
      /\ \A i \in 1..Len(s) : u[i] = s[i]
      /\ \A i \in 1..Len(t) : u[Len(s) + i] = t[i]
      /\ \A i \in 1..(Len(s) + Len(t)) : i \in 1..Len(s) \/ i - Len(s) \in 1..Len(t)
  OBVIOUS
<1> HIDE DEF u
<1>2. ASSUME NEW i \in DOMAIN u PROVE u[i] \in E!Range(s) \cup E!Range(t)
  <2>1. CASE i \in 1..Len(s)
    BY <1>1, <2>1 DEF E!Range
  <2>2. CASE i - Len(s) \in 1..Len(t)
    <3>1. u[i] = t[i - Len(s)]
      BY <1>1, <2>2
    <3> QED BY <1>1, <2>2, <3>1 DEF E!Range
  <2> QED BY <1>1, <2>1, <2>2
<1>3. E!Range(s) \subseteq E!Range(u)
  BY <1>1 DEF E!Range
<1>4. E!Range(t) \subseteq E!Range(u)
  <2>1. \A i \in 1..Len(t) : Len(s) + i \in DOMAIN u
    BY <1>1
  <2> QED BY <1>1, <2>1 DEF E!Range
<1>5. E!Range(u) = E!Range(s) \cup E!Range(t)
  BY <1>2, <1>3, <1>4 DEF E!Range
<1> QED BY <1>1, <1>5 DEF u

LEMMA KeptAppended ==
  ASSUME NEW V, NEW s \in Seq(V), NEW t \in Seq(V), NEW e \in V, NEW U
  PROVE  E!Kept(s \o Append(t, e), U) = IF e \in U THEN Append(E!Kept(s \o t, U), e) ELSE E!Kept(s \o t, U)
<1> DEFINE u == s \o t
<1>1. u \in Seq(V) /\ s \o Append(t, e) = Append(u, e)
  OBVIOUS
<1> HIDE DEF u
<1>2. E!Kept(Append(u, e), U) = IF e \in U THEN Append(E!Kept(u, U), e) ELSE E!Kept(u, U)
  BY <1>1, KeptAppend
<1> QED BY <1>1, <1>2 DEF u

-----------------------------------------------------------------------------
(***************************************************************************)
(* The event store: what is stored, and the log it stands for              *)
(***************************************************************************)
StoredEvents == [agg : Aggregates, ver : Nat, ts : Times]
Copy(a, v) == [agg : {a}, ver : {v}, ts : Times]

\* Every version up to the latest is kept once, in the archive or among the live events.
Intact(vers, live, old, all) ==
  /\ vers \in [Aggregates -> Nat]
  /\ live \in Seq(StoredEvents) /\ old \in Seq(StoredEvents) /\ all \in Seq(StoredEvents)
  /\ E!Range(all) = E!Range(old) \cup E!Range(live)
  /\ \A e \in E!Range(all) : e.ver \in 1..vers[e.agg]
  /\ \A a \in Aggregates : \A v \in 1..vers[a] :
       \E t \in Times : E!Kept(old \o live, Copy(a, v)) = <<E!EventOf(a, v, t)>>

\* the log that versions and stored events stand for
LogOf(vers, s) == [a \in Aggregates |-> [v \in 1..vers[a] |->
  LET k == E!Kept(s, Copy(a, v)) IN [i \in DOMAIN k |-> k[i].ts]]]

\* one more version of an aggregate, and one more entry in its log
OneMore(vers, a) == [vers EXCEPT ![a] = @ + 1]
With(log, a, t) == [log EXCEPT ![a] = Append(@, <<t>>)]

\* Storing the next version of an aggregate keeps the store intact and adds an entry.
LEMMA OneMoreEvent ==
  ASSUME NEW vers, NEW live, NEW old, NEW all, Intact(vers, live, old, all),
         NEW e \in StoredEvents, NEW a \in Aggregates, NEW t \in Times,
         e.agg = a /\ e.ts = t /\ e.ver = vers[a] + 1
  PROVE  /\ e \notin E!Range(all)
         /\ Intact(OneMore(vers, a), Append(live, e), old, Append(all, e))
         /\ LogOf(OneMore(vers, a), old \o Append(live, e)) = With(LogOf(vers, old \o live), a, t)
<1> DEFINE next == [vers EXCEPT ![a] = @ + 1]
<1>1. /\ vers \in [Aggregates -> Nat] /\ next \in [Aggregates -> Nat] /\ next[a] = vers[a] + 1
      /\ \A b \in Aggregates : b # a => next[b] = vers[b]
      /\ vers[a] \in Nat /\ a \in Aggregates
  BY DEF Intact, StoredEvents
<1>2. /\ e \in StoredEvents /\ e.agg = a /\ e.ver = vers[a] + 1 /\ e.ts = t
      /\ a \in Aggregates /\ t \in Times /\ e = E!EventOf(a, vers[a] + 1, t)
  BY DEF StoredEvents, E!EventOf
<1> HIDE DEF next
<1>3. e \notin E!Range(all)
  BY <1>1, <1>2 DEF Intact
<1>4. /\ live \in Seq(StoredEvents) /\ old \in Seq(StoredEvents) /\ all \in Seq(StoredEvents)
      /\ old \o live \in Seq(StoredEvents)
      /\ Append(live, e) \in Seq(StoredEvents) /\ Append(all, e) \in Seq(StoredEvents)
      /\ E!Range(Append(live, e)) = E!Range(live) \cup {e} /\ E!Range(Append(all, e)) = E!Range(all) \cup {e}
      /\ E!Range(old \o live) = E!Range(all)
  BY <1>2, RangeWith, RangeOfBoth DEF Intact
<1>5. old \o Append(live, e) = Append(old \o live, e)
  BY <1>2, <1>4
<1>6. \A U : E!Kept(old \o Append(live, e), U) =
         IF e \in U THEN Append(E!Kept(old \o live, U), e) ELSE E!Kept(old \o live, U)
  <2>1. old \in Seq(StoredEvents) /\ live \in Seq(StoredEvents)
    BY <1>4
  <2> TAKE U
  <2> QED BY <2>1, KeptAppended
<1>7. \A b, v : e \in Copy(b, v) <=> b = a /\ v = vers[a] + 1
  BY <1>2 DEF Copy, StoredEvents
<1>8. E!Kept(old \o live, Copy(a, vers[a] + 1)) = <<>>
  <2>1. \A x \in E!Range(old \o live) : x \notin Copy(a, vers[a] + 1)
    BY <1>1, <1>4 DEF Intact, Copy
  <2> QED BY <1>4, <2>1, KeptNothing
<1>9. E!Kept(old \o Append(live, e), Copy(a, vers[a] + 1)) = <<e>>
  <2>1. Append(<<>>, e) = <<e>>
    OBVIOUS
  <2> QED BY <1>6, <1>7, <1>8, <2>1
<1>10. \A b \in Aggregates : \A v \in 1..vers[b] :
          E!Kept(old \o Append(live, e), Copy(b, v)) = E!Kept(old \o live, Copy(b, v))
  <2> TAKE b \in Aggregates
  <2> TAKE v \in 1..vers[b]
  <2>1. ~(b = a /\ v = vers[a] + 1)
    BY <1>1
  <2> QED BY <1>6, <1>7, <2>1
<1>11. Intact(next, Append(live, e), old, Append(all, e))
  <2>1. E!Range(Append(all, e)) = E!Range(old) \cup E!Range(Append(live, e))
    BY <1>4 DEF Intact
  <2>2. ASSUME NEW x \in E!Range(Append(all, e)) PROVE x.ver \in 1..next[x.agg]
    <3>1. CASE x = e
      BY <1>1, <1>2, <3>1
    <3>2. CASE x \in E!Range(all)
      <4>1. x \in StoredEvents
        BY <1>4, <3>2 DEF E!Range
      <4>2. x.ver \in 1..vers[x.agg] /\ x.agg \in Aggregates
        BY <3>2, <4>1 DEF Intact, StoredEvents
      <4> QED BY <1>1, <4>2
    <3> QED BY <1>4, <3>1, <3>2
  <2>3. ASSUME NEW b \in Aggregates, NEW v \in 1..next[b]
        PROVE  \E u \in Times : E!Kept(old \o Append(live, e), Copy(b, v)) = <<E!EventOf(b, v, u)>>
    <3>1. CASE b = a /\ v = vers[a] + 1
      BY <1>2, <1>9, <3>1
    <3>2. CASE ~(b = a /\ v = vers[a] + 1)
      <4>1. v \in 1..vers[b]
        BY <1>1, <3>2
      <4> QED BY <1>10, <4>1 DEF Intact
    <3> QED BY <3>1, <3>2
  <2> QED BY <1>1, <1>4, <2>1, <2>2, <2>3 DEF Intact
<1>12. LogOf(next, old \o Append(live, e)) = [LogOf(vers, old \o live) EXCEPT ![a] = Append(@, <<t>>)]
  <2> DEFINE entry(s, b, v) == LET k == E!Kept(s, Copy(b, v)) IN [i \in DOMAIN k |-> k[i].ts]
             s0 == old \o live
             s1 == old \o Append(live, e)
  <2>1. entry(s1, a, vers[a] + 1) = <<t>>
    <3>1. DOMAIN <<e>> = {1} /\ <<e>>[1] = e
      OBVIOUS
    <3>2. entry(s1, a, vers[a] + 1) = [i \in {1} |-> <<e>>[i].ts]
      BY <1>9, <3>1
    <3>3. [i \in {1} |-> <<e>>[i].ts] = <<t>>
      BY <1>2
    <3> QED BY <3>2, <3>3
  <2>2. \A b \in Aggregates : \A v \in 1..vers[b] : entry(s1, b, v) = entry(s0, b, v)
    BY <1>10
  <2> DEFINE new(b) == [v \in 1..next[b] |-> entry(s1, b, v)]
             was(b) == [v \in 1..vers[b] |-> entry(s0, b, v)]
  <2>3. LogOf(next, s1) = [b \in Aggregates |-> new(b)] /\ LogOf(vers, s0) = [b \in Aggregates |-> was(b)]
    BY DEF LogOf
  <2> HIDE DEF entry, s0, s1
  <2>4. new(a) = Append(was(a), <<t>>)
    BY <1>1, <2>1, <2>2
  <2>5. \A b \in Aggregates : b # a => new(b) = was(b)
    BY <1>1, <2>2
  <2> HIDE DEF new, was
  <2>6. LogOf(next, s1) = [LogOf(vers, s0) EXCEPT ![a] = Append(@, <<t>>)]
    <3>1. [b \in Aggregates |-> new(b)] = [b \in Aggregates |-> IF b = a THEN Append(was(a), <<t>>) ELSE was(b)]
      BY <2>4, <2>5
    <3>2. [[b \in Aggregates |-> was(b)] EXCEPT ![a] = Append(@, <<t>>)]
            = [b \in Aggregates |-> IF b = a THEN Append(was(a), <<t>>) ELSE was(b)]
      OBVIOUS
    <3> QED BY <2>3, <3>1, <3>2
  <2> QED BY <2>6 DEF s0, s1
<1> QED BY <1>3, <1>11, <1>12 DEF next, OneMore, With

\* The projection goes through what it is sent; a replay that is not under way has
\* nothing left to apply before the first rebuild.
EventsInv ==
  /\ Intact(version, events, archive, order)
  /\ DOMAIN writers = Writers /\ \A w \in Writers : writers[w] # E!None => writers[w].agg \in Aggregates
  /\ inbox \in Seq(StoredEvents) /\ handled \in Seq(StoredEvents) /\ replay \in Seq(StoredEvents)
  /\ missed \subseteq E!Range(order) /\ (~rebuilt => phase = "idle" /\ replay = <<>>)
  /\ ProjectionFollows

LEMMA EventsFrame ==
  ASSUME EventsInv, UNCHANGED <<version, events, archive, order, inbox, handled, replay, missed,
                                phase, forgotten, rebuilt>>,
         DOMAIN writers' = Writers,
         \A w \in Writers : writers'[w] = writers[w] \/ writers'[w] = E!None \/ writers'[w].agg \in Aggregates
  PROVE  EventsInv'
<1>1. ProjectionFollows' <=> ProjectionFollows
  BY DEF ProjectionFollows, E!ProjectionFollows, E!Stored
<1> QED BY <1>1 DEF EventsInv

\* one or two consecutive events, stored by an append
Appends(stored, a) ==
  \/ \E e \in StoredEvents : e.agg = a /\ e.ver = version[a] + 1 /\ stored = <<e>>
  \/ \E e, f \in StoredEvents : /\ e.agg = a /\ e.ver = version[a] + 1
                                /\ f.agg = a /\ f.ver = version[a] + 2 /\ stored = <<e, f>>

LEMMA SubSequences ==
  ASSUME NEW V, NEW e \in V, NEW f \in V
  PROVE  SubSeq(<<e>>, 1, 1) = <<e>> /\ SubSeq(<<e, f>>, 1, 1) = <<e>> /\ SubSeq(<<e, f>>, 1, 2) = <<e, f>>
<1>1. <<e>> \in Seq(V) /\ <<e, f>> \in Seq(V) /\ Len(<<e>>) = 1 /\ Len(<<e, f>>) = 2
  OBVIOUS
<1>2. ASSUME NEW s \in Seq(V), NEW n \in 1..Len(s)
      PROVE  SubSeq(s, 1, n) \in Seq(V) /\ Len(SubSeq(s, 1, n)) = n /\ \A i \in 1..n : SubSeq(s, 1, n)[i] = s[i]
  OBVIOUS
<1>3. \A s, u \in Seq(V) : Len(s) = Len(u) /\ (\A i \in 1..Len(s) : s[i] = u[i]) => s = u
  OBVIOUS
<1> DEFINE s == <<e>>
           u == <<e, f>>
<1>4. s[1] = e /\ u[1] = e /\ u[2] = f
  OBVIOUS
<1>5. s \in Seq(V) /\ u \in Seq(V) /\ Len(s) = 1 /\ Len(u) = 2
  BY <1>1
<1> HIDE DEF s, u
<1>6. SubSeq(s, 1, 1) = s
  <2>1. 1 \in 1..Len(s)
    BY <1>5
  <2> QED BY <1>2, <1>3, <1>5, <2>1
<1>7. SubSeq(u, 1, 1) = s
  <2>1. 1 \in 1..Len(u) /\ \A i \in 1..1 : i = 1
    BY <1>5
  <2> QED BY <1>2, <1>3, <1>4, <1>5, <2>1
<1>8. SubSeq(u, 1, 2) = u
  <2>1. 2 \in 1..Len(u)
    BY <1>5
  <2> QED BY <1>2, <1>3, <1>5, <2>1
<1> QED BY <1>6, <1>7, <1>8 DEF s, u

LEMMA BatchStored ==
  ASSUME EventsInv, NEW w \in Writers, writers[w] # E!None, NEW batch \in E!Batches(w),
         NEW n \in DOMAIN batch, n <= Len(E!Prefix(batch))
  PROVE  LET stored == SubSeq(batch, 1, n)
             a == batch[1].agg
         IN  /\ a \in Aggregates /\ Appends(stored, a) /\ n = Len(stored)
             /\ stored[n].ver = version[a] + n /\ n \in {1, 2} /\ stored \in Seq(StoredEvents)
<1> DEFINE a == writers[w].agg
           b == writers[w].base + 1
<1>1. /\ a \in Aggregates /\ version[a] \in Nat
  BY DEF EventsInv, Intact
<1>2. PICK t \in Times : \/ batch = <<E!EventOf(a, b, t)>>
                         \/ \E v : batch = <<E!EventOf(a, b, t), [E!EventOf(a, b, t) EXCEPT !.ver = v]>>
  <2> DEFINE first(t) == E!EventOf(a, b, t)
  <2>1. batch \in {<<first(t)>> : t \in Times} \cup
          {<<first(t), [first(t) EXCEPT !.ver = v]>> : t \in Times, v \in {writers[w].base + 1, writers[w].base + 2}}
    BY DEF E!Batches
  <2> HIDE DEF a, b
  <2>2. CASE batch \in {<<first(t)>> : t \in Times}
    BY <2>2
  <2>3. CASE batch \in {<<first(t), [first(t) EXCEPT !.ver = v]>> :
                          t \in Times, v \in {writers[w].base + 1, writers[w].base + 2}}
    BY <2>3
  <2> QED BY <2>1, <2>2, <2>3
<1> DEFINE e == E!EventOf(a, b, t)
<1>3. e.agg = a /\ e.ver = b /\ e.ts = t /\ batch[1] = e /\ batch[1].agg = a
  BY <1>2 DEF E!EventOf
<1>4. n \in {1, 2} /\ (n = 2 => Len(batch) = 2) /\ E!Prefix(batch) # <<>>
  BY <1>2 DEF E!Prefix
<1>5. E!Accepted(batch) /\ b = version[a] + 1
  BY <1>3, <1>4 DEF E!Prefix, E!Accepted
<1>6. e \in StoredEvents
  BY <1>1, <1>5 DEF StoredEvents, E!EventOf
<1>7. CASE n = 1
  <2>1. SubSeq(batch, 1, n) = <<e>>
    <3>1. CASE batch = <<e>>
      BY <1>6, <1>7, <3>1, SubSequences
    <3>2. CASE \E v : batch = <<e, [e EXCEPT !.ver = v]>>
      <4>1. PICK f : batch = <<e, f>>
        BY <3>2
      <4> HIDE DEF e
      <4>2. e \in {e, f} /\ f \in {e, f}
        OBVIOUS
      <4> QED BY <1>7, <4>1, <4>2, SubSequences
    <3> QED BY <1>2, <3>1, <3>2
  <2>3. <<e>> \in Seq(StoredEvents) /\ Len(<<e>>) = 1 /\ <<e>>[1] = e
    BY <1>6
  <2>2. Appends(<<e>>, a)
    BY <1>3, <1>5, <1>6 DEF Appends
  <2> QED BY <1>1, <1>3, <1>5, <1>7, <2>1, <2>2, <2>3
<1>8. CASE n = 2
  <2>1. PICK v : batch = <<e, [e EXCEPT !.ver = v]>>
    BY <1>2, <1>4, <1>8
  <2> DEFINE f == [e EXCEPT !.ver = v]
  <2>2. v = b + 1
    <3>1. batch[2] = f /\ f.ver = v /\ Len(batch) = 2
      BY <2>1, <1>3 DEF E!EventOf
    <3>2. ~(batch[2].ver # batch[1].ver + 1)
      <4>1. CASE batch[2].ver # batch[1].ver + 1
        <5>1. E!Prefix(batch) = <<batch[1]>>
          BY <1>5, <3>1, <4>1 DEF E!Prefix
        <5> QED BY <1>8, <5>1
      <4> QED BY <4>1
    <3> QED BY <1>3, <3>1, <3>2
  <2>3. f = [agg |-> a, ver |-> v, ts |-> t]
    BY DEF E!EventOf
  <2>4. f \in StoredEvents /\ f.agg = a /\ f.ver = version[a] + 2
    BY <1>1, <1>5, <2>2, <2>3 DEF StoredEvents
  <2> HIDE DEF e, f
  <2>5. SubSeq(batch, 1, n) = <<e, f>>
    <3>1. batch = <<e, f>>
      BY <2>1 DEF f
    <3> QED BY <1>6, <1>8, <2>4, <3>1, SubSequences
  <2>7. <<e, f>> \in Seq(StoredEvents) /\ Len(<<e, f>>) = 2 /\ <<e, f>>[2] = f
    BY <1>6, <2>4
  <2>6. Appends(<<e, f>>, a)
    BY <1>3, <1>5, <1>6, <2>4 DEF Appends
  <2> QED BY <1>1, <1>3, <1>8, <2>4, <2>5, <2>6, <2>7
<1> QED BY <1>4, <1>7, <1>8

LEMMA EntriesAreSingle ==
  ASSUME NEW vers, NEW live, NEW old, NEW all, Intact(vers, live, old, all)
  PROVE  LogOf(vers, old \o live) \in [Aggregates -> Seq({<<t>> : t \in Times})]
<1> DEFINE entry(a, v) == LET k == E!Kept(old \o live, Copy(a, v)) IN [i \in DOMAIN k |-> k[i].ts]
<1>1. ASSUME NEW a \in Aggregates, NEW v \in 1..vers[a] PROVE entry(a, v) \in {<<t>> : t \in Times}
  <2>1. PICK t \in Times : E!Kept(old \o live, Copy(a, v)) = <<E!EventOf(a, v, t)>>
    BY DEF Intact
  <2> DEFINE e == E!EventOf(a, v, t)
  <2>2. DOMAIN <<e>> = {1} /\ <<e>>[1].ts = t
    BY DEF E!EventOf
  <2> HIDE DEF e
  <2>3. entry(a, v) = [i \in {1} |-> <<e>>[i].ts]
    BY <2>1, <2>2 DEF e
  <2>4. entry(a, v) = <<t>>
    BY <2>2, <2>3
  <2> QED BY <2>4
<1>2. LogOf(vers, old \o live) = [a \in Aggregates |-> [v \in 1..vers[a] |-> entry(a, v)]]
  BY DEF LogOf
<1>3. vers \in [Aggregates -> Nat]
  BY DEF Intact
<1> HIDE DEF entry
<1> QED BY <1>1, <1>2, <1>3

\* What an append stores: the events are new, the store stays intact, the log grows.
LEMMA AppendEffect ==
  ASSUME Intact(version, events, archive, order), NEW a \in Aggregates, NEW stored, Appends(stored, a)
  PROVE  LET vers == [version EXCEPT ![a] = version[a] + Len(stored)]
         IN  /\ Intact(vers, events \o stored, archive, order \o stored)
             /\ E!Range(stored) \cap E!Range(order) = {}
             /\ \E t, u \in Times : LogOf(vers, archive \o (events \o stored)) \in
                  {With(LogOf(version, archive \o events), a, t),
                   With(With(LogOf(version, archive \o events), a, t), a, u)}
<1> DEFINE one == OneMore(version, a)
           log == LogOf(version, archive \o events)
<1>1. /\ version \in [Aggregates -> Nat] /\ version[a] \in Nat /\ events \in Seq(StoredEvents)
      /\ order \in Seq(StoredEvents) /\ archive \in Seq(StoredEvents)
  BY DEF Intact
<1>2. \A e \in StoredEvents : e.agg \in Aggregates /\ e.ts \in Times
  BY DEF StoredEvents
<1>3. ASSUME NEW e \in StoredEvents, e.agg = a /\ e.ver = version[a] + 1
      PROVE  /\ e \notin E!Range(order) /\ Intact(one, events \o <<e>>, archive, order \o <<e>>)
             /\ LogOf(one, archive \o (events \o <<e>>)) = With(log, a, e.ts)
  <2>1. Append(events, e) = events \o <<e>> /\ Append(order, e) = order \o <<e>>
    BY <1>1, AppendIsConcat
  <2>2. e.ts \in Times
    BY <1>2
  <2>3. /\ e \notin E!Range(order) /\ Intact(one, Append(events, e), archive, Append(order, e))
        /\ LogOf(one, archive \o Append(events, e)) = With(log, a, e.ts)
    BY <1>3, <2>2, OneMoreEvent
  <2> QED BY <2>1, <2>3
<1>4. CASE \E e \in StoredEvents : e.agg = a /\ e.ver = version[a] + 1 /\ stored = <<e>>
  <2>1. PICK e \in StoredEvents : e.agg = a /\ e.ver = version[a] + 1 /\ stored = <<e>>
    BY <1>4
  <2>2. E!Range(<<e>>) = {e} /\ Len(<<e>>) = 1
    BY DEF E!Range
  <2>3. [version EXCEPT ![a] = version[a] + Len(stored)] = one
    BY <2>1, <2>2 DEF OneMore
  <2> HIDE DEF one, log
  <2> QED BY <1>2, <1>3, <2>1, <2>2, <2>3 DEF log
<1>5. CASE \E e, f \in StoredEvents : /\ e.agg = a /\ e.ver = version[a] + 1
                                      /\ f.agg = a /\ f.ver = version[a] + 2 /\ stored = <<e, f>>
  <2>1. PICK e \in StoredEvents, f \in StoredEvents :
          e.agg = a /\ e.ver = version[a] + 1 /\ f.agg = a /\ f.ver = version[a] + 2 /\ stored = <<e, f>>
    BY <1>5
  <2> DEFINE live == events \o <<e>>
             all == order \o <<e>>
             two == OneMore(one, a)
  <2>2. /\ e \notin E!Range(order) /\ Intact(one, live, archive, all)
        /\ LogOf(one, archive \o live) = With(log, a, e.ts)
    BY <1>3, <2>1
  <2>3. f.ver = one[a] + 1
    BY <1>1, <2>1 DEF OneMore
  <2>4. two = [version EXCEPT ![a] = version[a] + Len(stored)]
    BY <1>1, <2>1 DEF OneMore
  <2>5. /\ live \in Seq(StoredEvents) /\ all \in Seq(StoredEvents)
        /\ Append(live, f) = events \o stored /\ Append(all, f) = order \o stored
        /\ E!Range(all) = E!Range(order) \cup {e}
    <3>1. Append(order, e) = all
      BY <1>1, AppendIsConcat
    <3>2. E!Range(Append(order, e)) = E!Range(order) \cup {e}
      BY <1>1, RangeWith
    <3>3. Append(live, f) = events \o stored /\ Append(all, f) = order \o stored
      <4>1. Append(events \o <<e>>, f) = events \o <<e, f>>
        BY <1>1, <2>1
      <4>2. Append(order \o <<e>>, f) = order \o <<e, f>>
        BY <1>1, <2>1
      <4> QED BY <2>1, <4>1, <4>2
    <3>4. live \in Seq(StoredEvents) /\ all \in Seq(StoredEvents)
      BY <1>1
    <3> QED BY <3>1, <3>2, <3>3, <3>4
  <2>6. E!Range(stored) = {e, f}
    BY <2>1 DEF E!Range
  <2> HIDE DEF one, live, all, two, log
  <2>7. /\ f \notin E!Range(all) /\ Intact(two, Append(live, f), archive, Append(all, f))
        /\ LogOf(two, archive \o Append(live, f)) = With(LogOf(one, archive \o live), a, f.ts)
    <3> DEFINE t == f.ts
    <3>1. t \in Times /\ f.agg = a /\ f.ts = t /\ f.ver = one[a] + 1
      BY <1>2, <2>1, <2>3
    <3> HIDE DEF t
    <3>2. Intact(one, live, archive, all) /\ f \in StoredEvents
      BY <2>1, <2>2
    <3>3. /\ f \notin E!Range(all) /\ Intact(OneMore(one, a), Append(live, f), archive, Append(all, f))
          /\ LogOf(OneMore(one, a), archive \o Append(live, f)) = With(LogOf(one, archive \o live), a, t)
      BY <3>1, <3>2, OneMoreEvent
    <3> QED BY <3>3 DEF two, t
  <2> QED BY <1>2, <2>2, <2>4, <2>5, <2>6, <2>7 DEF log
<1> QED BY <1>4, <1>5 DEF Appends

LEMMA MovesOn ==
  ASSUME NEW V, NEW h \in Seq(V), NEW q \in Seq(V), q # <<>>
  PROVE  /\ Append(h, q[1]) \in Seq(V) /\ Tail(q) \in Seq(V) /\ Append(h, q[1]) \o Tail(q) = h \o q
         /\ E!Range(Append(h, q[1])) \cup E!Range(Tail(q)) = E!Range(h) \cup E!Range(q)
<1>1. q[1] \in V /\ Tail(q) \in Seq(V) /\ Append(h, q[1]) \in Seq(V)
  OBVIOUS
<1>2. <<q[1]>> \in Seq(V) /\ q = <<q[1]>> \o Tail(q) /\ Append(h, q[1]) = h \o <<q[1]>>
  OBVIOUS
<1>3. (h \o <<q[1]>>) \o Tail(q) = h \o (<<q[1]>> \o Tail(q))
  BY <1>1, <1>2, ConcatAssociative
<1>4. Append(h, q[1]) \o Tail(q) = h \o q
  BY <1>2, <1>3
<1>5. /\ E!Range(Append(h, q[1]) \o Tail(q)) = E!Range(Append(h, q[1])) \cup E!Range(Tail(q))
      /\ E!Range(h \o q) = E!Range(h) \cup E!Range(q)
  <2> DEFINE front == Append(h, q[1])
             rest == Tail(q)
  <2>1. front \in Seq(V) /\ rest \in Seq(V)
    BY <1>1
  <2> HIDE DEF front, rest
  <2>2. E!Range(front \o rest) = E!Range(front) \cup E!Range(rest)
    BY <2>1, RangeOfBoth
  <2>3. E!Range(h \o q) = E!Range(h) \cup E!Range(q)
    BY RangeOfBoth
  <2> QED BY <2>2, <2>3 DEF front, rest
<1> QED BY <1>1, <1>4, <1>5

LEMMA StoreStep ==
  ASSUME EventsInv, NEW w \in Writers, writers[w] # E!None, NEW batch \in E!Batches(w),
         NEW n \in DOMAIN batch, NEW cancelled \in BOOLEAN, E!Store(w, batch, n, cancelled)
  PROVE  /\ EventsInv'
         /\ \E a \in Aggregates, t, u \in Times :
              LogOf(version, archive \o events)' \in
                {With(LogOf(version, archive \o events), a, t),
                 With(With(LogOf(version, archive \o events), a, t), a, u)}
<1> DEFINE stored == SubSeq(batch, 1, n)
           a == batch[1].agg
<1>1. n <= Len(E!Prefix(batch))
  BY DEF E!Store
<1>2. /\ a \in Aggregates /\ Appends(stored, a) /\ n = Len(stored) /\ stored[n].ver = version[a] + n
      /\ stored \in Seq(StoredEvents)
  BY <1>1, BatchStored
<1>3. /\ version' = [version EXCEPT ![a] = stored[n].ver] /\ events' = events \o stored
      /\ order' = order \o stored /\ E!FanOut(stored, stored = batch /\ ~cancelled)
      /\ writers' = [writers EXCEPT ![w] = E!None]
      /\ UNCHANGED <<archive, phase, replay, handled, forgotten, rebuilt>>
  BY DEF E!Store
<1> HIDE DEF stored, a
<1>4. version' = [version EXCEPT ![a] = version[a] + Len(stored)]
  BY <1>2, <1>3
<1>5. /\ Intact(version', events', archive', order') /\ E!Range(stored) \cap E!Range(order) = {}
      /\ \E t, u \in Times : LogOf(version', archive' \o events') \in
           {With(LogOf(version, archive \o events), a, t),
            With(With(LogOf(version, archive \o events), a, t), a, u)}
  <2>1. Intact(version, events, archive, order)
    BY DEF EventsInv
  <2> QED BY <1>2, <1>3, <1>4, <2>1, AppendEffect
<1>6. /\ order \in Seq(StoredEvents) /\ inbox \in Seq(StoredEvents) /\ handled \in Seq(StoredEvents)
      /\ replay \in Seq(StoredEvents) /\ missed \subseteq E!Range(order)
  BY DEF EventsInv, Intact
<1>7. E!Range(order') = E!Range(order) \cup E!Range(stored)
  BY <1>2, <1>3, <1>6, RangeOfBoth
<1>8. \/ inbox' = inbox \o stored /\ missed' = missed
      \/ missed' = missed \cup E!Range(stored) /\ inbox' = inbox
  BY <1>3 DEF E!FanOut
<1>9. inbox' \in Seq(StoredEvents) /\ E!Range(inbox') \cup missed' = E!Range(inbox) \cup missed \cup E!Range(stored)
  <2>1. inbox \o stored \in Seq(StoredEvents) /\ E!Range(inbox \o stored) = E!Range(inbox) \cup E!Range(stored)
    BY <1>2, <1>6, RangeOfBoth
  <2> QED BY <1>6, <1>8, <2>1
<1>10. ASSUME ~rebuilt PROVE handled \o inbox' = E!Kept(order', E!Range(order') \ missed')
  <2> DEFINE before == E!Range(order) \ missed
             after == E!Range(order') \ missed'
  <2>1. handled \o inbox = E!Kept(order, before)
    BY <1>10 DEF EventsInv, ProjectionFollows, E!ProjectionFollows, E!Stored
  <2>2. E!Kept(order', after) = E!Kept(order, after) \o E!Kept(stored, after)
    <3>1. E!Kept(order \o stored, after) = E!Kept(order, after) \o E!Kept(stored, after)
      <4> HIDE DEF after
      <4> QED BY <1>2, <1>6, KeptConcat
    <3> QED BY <1>3, <3>1
  <2>3. E!Kept(order, after) = E!Kept(order, before)
    <3>1. \A i \in 1..Len(order) : order[i] \in E!Range(order)
      BY <1>6 DEF E!Range
    <3>2. \A i \in 1..Len(order) : order[i] \in after <=> order[i] \in before
      BY <1>5, <1>7, <1>8, <3>1
    <3> HIDE DEF before, after
    <3> QED BY <1>6, <3>2, KeptSame
  <2>4. CASE inbox' = inbox \o stored /\ missed' = missed
    <3>1. E!Range(stored) \subseteq after
      BY <1>5, <1>6, <1>7, <2>4
    <3>2. E!Kept(stored, after) = stored
      BY <1>2, <3>1, KeptAll
    <3>3. (handled \o inbox) \o stored = handled \o (inbox \o stored)
      <4>1. handled \in Seq(StoredEvents) /\ inbox \in Seq(StoredEvents) /\ stored \in Seq(StoredEvents)
        BY <1>2, <1>6
      <4> QED BY <4>1, ConcatAssociative
    <3> QED BY <2>1, <2>2, <2>3, <2>4, <3>2, <3>3
  <2>5. CASE missed' = missed \cup E!Range(stored) /\ inbox' = inbox
    <3>1. E!Range(stored) \cap after = {}
      BY <2>5
    <3>2. E!Kept(stored, after) = <<>>
      BY <1>2, <3>1, KeptNothing
    <3>3. (handled \o inbox) \o <<>> = handled \o inbox
      BY <1>6
    <3> QED BY <2>1, <2>2, <2>3, <2>5, <3>2, <3>3
  <2> QED BY <1>8, <2>4, <2>5
<1>11. ASSUME phase # "cleared"
       PROVE  E!Range(order') \subseteq
                E!Range(handled) \cup E!Range(inbox') \cup E!Range(replay) \cup missed' \cup forgotten
  BY <1>7, <1>9, <1>11 DEF EventsInv, ProjectionFollows, E!ProjectionFollows, E!Stored
<1>12. ProjectionFollows'
  BY <1>3, <1>10, <1>11 DEF ProjectionFollows, E!ProjectionFollows, E!Stored
<1>13. missed' \subseteq E!Range(order')
  BY <1>6, <1>7, <1>8
<1>14. EventsInv'
  BY <1>3, <1>5, <1>6, <1>9, <1>12, <1>13 DEF EventsInv
<1>15. LogOf(version, archive \o events)' = LogOf(version', archive' \o events')
  BY DEF LogOf, Copy
<1> QED BY <1>2, <1>5, <1>14, <1>15

\* Compaction moves events and leaves every copy where the log has it.
LEMMA CompactStep ==
  ASSUME EventSettings, EventsInv, NEW t \in Times, E!Compact(t)
  PROVE  /\ EventsInv' /\ LogOf(version, archive \o events)' = LogOf(version, archive \o events)
<1> DEFINE Old == {e \in E!Range(events) : e.ts < t}
           Live == {e \in E!Range(events) : E!IsLive(e, t)}
           o == E!Kept(events, Old)
           l == E!Kept(events, Live)
<1>1. /\ archive' = archive \o o /\ events' = l
      /\ UNCHANGED <<version, order, writers, inbox, handled, replay, missed, phase, forgotten, rebuilt>>
  BY DEF E!Compact, E!pvars
<1>2. /\ version \in [Aggregates -> Nat] /\ events \in Seq(StoredEvents) /\ archive \in Seq(StoredEvents)
      /\ order \in Seq(StoredEvents) /\ Intact(version, events, archive, order)
  BY DEF EventsInv, Intact
<1>3. ASSUME NEW e \in E!Range(events) PROVE e \in Live <=> e \notin Old
  <2>1. e.ts \in Int /\ t \in Int
    <3>1. e \in StoredEvents
      BY <1>2 DEF E!Range
    <3> QED BY <3>1 DEF StoredEvents, EventSettings
  <2> QED BY <2>1 DEF E!IsLive
<1>4. Old \subseteq E!Range(events) /\ Live \subseteq E!Range(events)
  OBVIOUS
<1> HIDE DEF Old, Live
<1>5. /\ o \in Seq(StoredEvents) /\ l \in Seq(StoredEvents) /\ E!Range(o) = E!Range(events) \cap Old
      /\ E!Range(l) = E!Range(events) \cap Live
  BY <1>2, KeptElements
<1>6. archive \o o \in Seq(StoredEvents) /\ E!Range(archive \o o) = E!Range(archive) \cup E!Range(o)
  BY <1>2, <1>5, RangeOfBoth
<1>7. E!Range(archive \o o) \cup E!Range(l) = E!Range(order)
  <2>1. E!Range(o) \cup E!Range(l) = E!Range(events)
    BY <1>3, <1>4, <1>5
  <2> QED BY <1>2, <1>6, <2>1 DEF Intact
<1>8. ASSUME NEW a \in Aggregates, NEW v \in 1..version[a]
      PROVE  E!Kept((archive \o o) \o l, Copy(a, v)) = E!Kept(archive \o events, Copy(a, v))
  <2> DEFINE copies == Copy(a, v)
             k == E!Kept(events, copies)
             p == E!Kept(archive, copies)
  <2>1. PICK x : E!Kept(archive \o events, copies) = <<x>>
    BY <1>2 DEF Intact
  <2>2. p \o k = <<x>> /\ p \in Seq(StoredEvents) /\ k \in Seq(StoredEvents) /\ E!Range(k) \subseteq E!Range(events)
    <3>1. E!Kept(archive \o events, copies) = p \o k
      BY <1>2, KeptConcat
    <3>2. p \in Seq(StoredEvents) /\ k \in Seq(StoredEvents) /\ E!Range(k) \subseteq E!Range(events)
      BY <1>2, KeptElements
    <3> QED BY <2>1, <3>1, <3>2
  <2>3. E!Kept((archive \o o) \o l, copies) = (p \o E!Kept(o, copies)) \o E!Kept(l, copies)
    <3>1. E!Kept((archive \o o) \o l, copies) = E!Kept(archive \o o, copies) \o E!Kept(l, copies)
      BY <1>5, <1>6, KeptConcat
    <3>2. E!Kept(archive \o o, copies) = p \o E!Kept(o, copies)
      BY <1>2, <1>5, KeptConcat
    <3> QED BY <3>1, <3>2
  <2>4. E!Kept(o, copies) = E!Kept(k, Old) /\ E!Kept(l, copies) = E!Kept(k, Live)
    <3>1. E!Kept(o, copies) = E!Kept(events, Old \cap copies) /\ E!Kept(l, copies) = E!Kept(events, Live \cap copies)
      BY <1>2, KeptTwice
    <3>2. E!Kept(k, Old) = E!Kept(events, copies \cap Old) /\ E!Kept(k, Live) = E!Kept(events, copies \cap Live)
      BY <1>2, KeptTwice
    <3>3. Old \cap copies = copies \cap Old /\ Live \cap copies = copies \cap Live
      OBVIOUS
    <3> HIDE DEF copies
    <3> QED BY <3>1, <3>2, <3>3
  <2>5. E!Kept(k, Old) \in Seq(StoredEvents) /\ E!Kept(k, Live) \in Seq(StoredEvents)
    BY <2>2, KeptElements
  <2> HIDE DEF k, p, copies
  <2>6. E!Kept(k, Old) \o E!Kept(k, Live) = k
    <3>1. CASE k = <<>>
      BY <3>1, KeptOfNone
    <3>2. CASE k # <<>>
      <4>1. Len(k) = 1
        <5>1. Len(p \o k) = Len(p) + Len(k) /\ Len(p) \in Nat /\ Len(k) \in Nat /\ Len(k) # 0
          BY <2>2, <3>2
        <5>2. Len(p \o k) = 1
          BY <2>2
        <5> DEFINE total == Len(p \o k)
                   i == Len(p)
                   j == Len(k)
        <5>3. total = i + j /\ i \in Nat /\ j \in Nat /\ j # 0 /\ total = 1
          BY <5>1, <5>2
        <5> HIDE DEF total, i, j
        <5>4. j = 1
          BY <5>3
        <5> QED BY <5>4 DEF j
      <4>2. PICK y : k = <<y>>
        BY <2>2, <4>1
      <4>3. y \in E!Range(events)
        <5>1. E!Range(<<y>>) = {y}
          BY DEF E!Range
        <5> QED BY <2>2, <4>2, <5>1
      <4>4. E!Kept(<<y>>, Old) = (IF y \in Old THEN <<y>> ELSE <<>>) /\ E!Kept(<<y>>, Live) = (IF y \in Live THEN <<y>> ELSE <<>>)
        BY KeptOfOne
      <4>5. k \o <<>> = k /\ <<>> \o k = k
        BY <2>2
      <4>6. CASE y \in Old
        <5>1. E!Kept(k, Old) = k /\ E!Kept(k, Live) = <<>>
          BY <1>3, <4>2, <4>3, <4>4, <4>6
        <5> QED BY <4>5, <5>1
      <4>7. CASE y \notin Old
        <5>1. E!Kept(k, Old) = <<>> /\ E!Kept(k, Live) = k
          BY <1>3, <4>2, <4>3, <4>4, <4>7
        <5> QED BY <4>5, <5>1
      <4> QED BY <4>6, <4>7
    <3> QED BY <3>1, <3>2
  <2>7. (p \o E!Kept(k, Old)) \o E!Kept(k, Live) = p \o (E!Kept(k, Old) \o E!Kept(k, Live))
    BY <2>2, <2>5, ConcatAssociative
  <2> QED BY <2>1, <2>2, <2>3, <2>4, <2>6, <2>7 DEF copies
<1> HIDE DEF o, l
<1>9. Intact(version, l, archive \o o, order)
  BY <1>2, <1>5, <1>6, <1>7, <1>8 DEF Intact
<1>10. EventsInv'
  <2>1. ProjectionFollows' <=> ProjectionFollows
    BY <1>1 DEF ProjectionFollows, E!ProjectionFollows, E!Stored
  <2>2. Intact(version', events', archive', order')
    BY <1>1, <1>9
  <2> QED BY <1>1, <2>1, <2>2 DEF EventsInv
<1>11. LogOf(version, (archive \o o) \o l) = LogOf(version, archive \o events)
  <2> DEFINE entry(s, a, v) == LET k == E!Kept(s, Copy(a, v)) IN [i \in DOMAIN k |-> k[i].ts]
  <2>1. \A a \in Aggregates : \A v \in 1..version[a] : entry((archive \o o) \o l, a, v) = entry(archive \o events, a, v)
    BY <1>8
  <2>2. \A s : LogOf(version, s) = [a \in Aggregates |-> [v \in 1..version[a] |-> entry(s, a, v)]]
    BY DEF LogOf
  <2> HIDE DEF entry
  <2> QED BY <2>1, <2>2
<1>12. LogOf(version, archive \o events)' = LogOf(version', archive' \o events')
  BY DEF LogOf, Copy
<1> QED BY <1>1, <1>10, <1>11, <1>12

LEMMA EventsInit == ASSUME E!Init PROVE EventsInv
<1>1. /\ version = [a \in Aggregates |-> 0] /\ events = <<>> /\ archive = <<>> /\ order = <<>>
      /\ inbox = <<>> /\ handled = <<>> /\ replay = <<>> /\ missed = {} /\ phase = "idle"
      /\ writers = [w \in Writers |-> E!None]
  BY DEF E!Init
<1>2. E!Range(<<>>) = {} /\ <<>> \in Seq(StoredEvents) /\ <<>> \o <<>> = <<>>
  BY DEF E!Range
<1>3. Intact(version, events, archive, order)
  BY <1>1, <1>2 DEF Intact
<1>4. ProjectionFollows
  BY <1>1, <1>2, KeptOfNone DEF ProjectionFollows, E!ProjectionFollows, E!Stored
<1> QED BY <1>1, <1>2, <1>3, <1>4 DEF EventsInv

LEMMA EventsStep ==
  ASSUME EventSettings, EventsInv, [E!Next]_(E!esvars)
  PROVE  /\ EventsInv'
         /\ \/ \E a \in Aggregates, t, u \in Times :
                 LogOf(version, archive \o events)' \in
                   {With(LogOf(version, archive \o events), a, t),
                    With(With(LogOf(version, archive \o events), a, t), a, u)}
            \/ LogOf(version, archive \o events)' = LogOf(version, archive \o events)
<1>1. /\ inbox \in Seq(StoredEvents) /\ handled \in Seq(StoredEvents) /\ replay \in Seq(StoredEvents)
      /\ events \in Seq(StoredEvents)
  BY DEF EventsInv, Intact
<1>2. UNCHANGED E!svars => LogOf(version, archive \o events)' = LogOf(version, archive \o events)
  BY DEF E!svars, LogOf, Copy
<1>3. UNCHANGED E!svars => (Intact(version, events, archive, order)' <=> Intact(version, events, archive, order))
  BY DEF E!svars, Intact, Copy, StoredEvents, E!EventOf
<1>4. ASSUME NEW w \in Writers, E!AppendBatch(w)
      PROVE  /\ EventsInv'
             /\ \/ \E a \in Aggregates, t, u \in Times :
                     LogOf(version, archive \o events)' \in
                       {With(LogOf(version, archive \o events), a, t),
                        With(With(LogOf(version, archive \o events), a, t), a, u)}
                \/ LogOf(version, archive \o events)' = LogOf(version, archive \o events)
  <2>1. PICK batch \in E!Batches(w) : /\ writers[w] # E!None
                                      /\ \/ \E n \in DOMAIN batch, cancelled \in BOOLEAN : E!Store(w, batch, n, cancelled)
                                         \/ E!Conflict(w, batch)
    BY <1>4 DEF E!AppendBatch
  <2>2. CASE \E n \in DOMAIN batch, cancelled \in BOOLEAN : E!Store(w, batch, n, cancelled)
    BY <2>1, <2>2, StoreStep
  <2>3. CASE E!Conflict(w, batch)
    <3>1. UNCHANGED <<E!svars, subscribed, E!pvars>> /\ writers' = [writers EXCEPT ![w] = E!None]
      BY <2>3 DEF E!Conflict
    <3>2. DOMAIN writers' = Writers /\ \A x \in Writers : writers'[x] = writers[x] \/ writers'[x] = E!None
      BY <3>1 DEF EventsInv
    <3>3. EventsInv'
      BY <3>1, <3>2, EventsFrame DEF E!svars, E!pvars
    <3> QED BY <1>2, <3>1, <3>3
  <2> QED BY <2>1, <2>2, <2>3
<1>5. ASSUME NEW w \in Writers, NEW a \in Aggregates, E!ReadLatest(w, a)
      PROVE  EventsInv' /\ UNCHANGED E!svars
  <2>1. /\ UNCHANGED <<E!svars, subscribed, E!pvars>>
        /\ writers' = [writers EXCEPT ![w] = [agg |-> a, base |-> E!LatestVersion(a)]]
    BY <1>5 DEF E!ReadLatest
  <2>2. DOMAIN writers' = Writers /\ \A x \in Writers : writers'[x] = writers[x] \/ writers'[x].agg \in Aggregates
    BY <2>1 DEF EventsInv
  <2> QED BY <2>1, <2>2, EventsFrame DEF E!svars, E!pvars
<1>6. ASSUME E!Register \/ E!Unsubscribe PROVE EventsInv' /\ UNCHANGED E!svars
  <2>1. UNCHANGED <<E!svars, writers, E!pvars>>
    BY <1>6 DEF E!Register, E!Unsubscribe
  <2>2. DOMAIN writers' = Writers
    BY <2>1 DEF EventsInv
  <2> QED BY <2>1, <2>2, EventsFrame DEF E!svars, E!pvars
<1>7. ASSUME E!Apply PROVE EventsInv' /\ UNCHANGED E!svars
  <2>1. /\ inbox # <<>> /\ handled' = Append(handled, inbox[1]) /\ inbox' = Tail(inbox)
        /\ UNCHANGED <<E!svars, writers, subscribed, phase, replay, missed, forgotten, rebuilt>>
    BY <1>7 DEF E!Apply, E!Next1
  <2>2. /\ handled' \in Seq(StoredEvents) /\ inbox' \in Seq(StoredEvents) /\ handled' \o inbox' = handled \o inbox
        /\ E!Range(handled') \cup E!Range(inbox') = E!Range(handled) \cup E!Range(inbox)
    BY <1>1, <2>1, MovesOn
  <2>3. order' = order /\ events' = events /\ archive' = archive
    BY <2>1 DEF E!svars
  <2>4. ProjectionFollows'
    BY <2>1, <2>2, <2>3 DEF EventsInv, ProjectionFollows, E!ProjectionFollows, E!Stored
  <2> QED BY <1>3, <2>1, <2>2, <2>3, <2>4 DEF EventsInv
<1>8. ASSUME E!RebuildBegin PROVE EventsInv' /\ UNCHANGED E!svars
  <2>1. /\ phase' = "cleared" /\ handled' = <<>> /\ rebuilt' = TRUE
        /\ UNCHANGED <<E!svars, writers, subscribed, inbox, replay, missed, forgotten>>
    BY <1>8 DEF E!RebuildBegin
  <2>2. ProjectionFollows'
    BY <2>1 DEF ProjectionFollows, E!ProjectionFollows
  <2>3. order' = order
    BY <2>1 DEF E!svars
  <2> QED BY <1>3, <2>1, <2>2, <2>3 DEF EventsInv
<1>9. ASSUME E!ReplayBegin PROVE EventsInv' /\ UNCHANGED E!svars
  <2>1. /\ phase = "cleared" /\ phase' = "replaying" /\ replay' = events
        /\ missed' = missed \ E!Range(events) /\ forgotten' = E!Range(archive)
        /\ UNCHANGED <<E!svars, writers, subscribed, inbox, handled, rebuilt>>
    BY <1>9 DEF E!ReplayBegin, E!Replayed
  <2>2. order' = order /\ E!Range(order) = E!Range(archive) \cup E!Range(events)
    BY <2>1 DEF E!svars, EventsInv, Intact
  <2>3. rebuilt
    BY <2>1 DEF EventsInv
  <2>4. ProjectionFollows'
    BY <2>1, <2>2, <2>3 DEF ProjectionFollows, E!ProjectionFollows, E!Stored
  <2> QED BY <1>1, <1>3, <2>1, <2>2, <2>3, <2>4 DEF EventsInv
<1>10. ASSUME E!ReplayOne PROVE EventsInv' /\ UNCHANGED E!svars
  <2>1. /\ replay # <<>> /\ handled' = Append(handled, replay[1]) /\ replay' = Tail(replay)
        /\ UNCHANGED <<E!svars, writers, subscribed, inbox, phase, missed, forgotten, rebuilt>>
    BY <1>10 DEF E!ReplayOne
  <2>2. /\ handled' \in Seq(StoredEvents) /\ replay' \in Seq(StoredEvents)
        /\ E!Range(handled') \cup E!Range(replay') = E!Range(handled) \cup E!Range(replay)
    BY <1>1, <2>1, MovesOn
  <2>3. order' = order /\ rebuilt
    BY <2>1 DEF E!svars, EventsInv
  <2>4. ProjectionFollows'
    BY <2>1, <2>2, <2>3 DEF EventsInv, ProjectionFollows, E!ProjectionFollows, E!Stored
  <2> QED BY <1>3, <2>1, <2>2, <2>3, <2>4 DEF EventsInv
<1>11. ASSUME E!RebuildEnd PROVE EventsInv' /\ UNCHANGED E!svars
  <2>1. /\ phase = "replaying" /\ replay = <<>> /\ phase' = "idle"
        /\ UNCHANGED <<E!svars, writers, subscribed, inbox, replay, handled, missed, forgotten, rebuilt>>
    BY <1>11 DEF E!RebuildEnd
  <2>2. order' = order
    BY <2>1 DEF E!svars
  <2>3. ProjectionFollows'
    BY <2>1, <2>2 DEF EventsInv, ProjectionFollows, E!ProjectionFollows, E!Stored
  <2> QED BY <1>3, <2>1, <2>2, <2>3 DEF EventsInv
<1>12. ASSUME UNCHANGED E!esvars PROVE EventsInv' /\ UNCHANGED E!svars
  <2>1. UNCHANGED <<E!svars, writers, subscribed, E!pvars>>
    BY <1>12 DEF E!esvars
  <2>2. DOMAIN writers' = Writers
    BY <2>1 DEF EventsInv
  <2> QED BY <2>1, <2>2, EventsFrame DEF E!svars, E!pvars
<1> QED BY <1>2, <1>4, <1>5, <1>6, <1>7, <1>8, <1>9, <1>10, <1>11, <1>12, CompactStep DEF E!Next

\* Until rebuild() is called a projection goes through exactly the events that were
\* dispatched, once each and in the order of the store; after a rebuild it lacks only the
\* events in the archive, which replay() does not read, and those never dispatched:
\* EventStore._fanout, EventProjection.apply and rebuild.
THEOREM EventProjectionFollows == E!Spec => []ProjectionFollows
<1>1. E!Init => EventsInv
  BY EventsInit
<1>2. EventsInv /\ [E!Next]_(E!esvars) => EventsInv'
  BY EventsStep, SharedStateAssumption DEF SharedStateAssumption
<1>3. EventsInv => ProjectionFollows
  BY DEF EventsInv
<1> QED BY <1>1, <1>2, <1>3, PTL DEF E!Spec

\* The store, with its archive, implements one append-only log per aggregate: racing
\* appends, conflicts in a batch, cancelled callers and compaction neither lose a version
\* nor keep it twice: EventStore.append, append_batch and compact.
THEOREM EventLogImplemented == E!Spec => LogSpec
<1>1. E!Init => EventsInv
  BY EventsInit
<1>2. EventsInv /\ [E!Next]_(E!esvars) => EventsInv'
  BY EventsStep, SharedStateAssumption DEF SharedStateAssumption
<1>3. E!Entries = LogOf(version, archive \o events) /\ E!Entries' = LogOf(version, archive \o events)'
  BY DEF E!Entries, E!Copies, LogOf, Copy
<1>4. E!Init => E!Log!Init
  <2>1. ASSUME E!Init PROVE E!Entries = [a \in Aggregates |-> <<>>]
    <3>1. version = [a \in Aggregates |-> 0]
      BY <2>1 DEF E!Init
    <3> DEFINE entry(a, v) == E!Copies(a, v)
    <3>2. E!Entries = [a \in Aggregates |-> [v \in 1..version[a] |-> entry(a, v)]]
      BY DEF E!Entries
    <3> HIDE DEF entry
    <3>3. \A a \in Aggregates : [v \in 1..version[a] |-> entry(a, v)] = <<>>
      BY <3>1
    <3> QED BY <3>2, <3>3
  <2> QED BY <2>1 DEF E!Log!Init
<1>5. EventsInv /\ [E!Next]_(E!esvars) => [E!Log!Next]_(E!Entries)
  <2> SUFFICES ASSUME EventsInv, [E!Next]_(E!esvars) PROVE [E!Log!Next]_(E!Entries)
    OBVIOUS
  <2>1. CASE \E a \in Aggregates, t, u \in Times :
               E!Entries' \in {With(E!Entries, a, t), With(With(E!Entries, a, t), a, u)}
    <3>1. PICK a \in Aggregates, t \in Times, u \in Times :
            E!Entries' \in {With(E!Entries, a, t), With(With(E!Entries, a, t), a, u)}
      BY <2>1
    <3>2. E!Entries \in [Aggregates -> Seq({<<x>> : x \in Times})]
      BY <1>3, EntriesAreSingle DEF EventsInv
    <3> DEFINE single == {<<x>> : x \in Times}
               x == <<t>>
               y == <<u>>
               q == E!Entries[a]
    <3>3. q \in Seq(single) /\ x \in single /\ y \in single
      BY <3>1, <3>2
    <3>4. <<x>> \in E!Log!Additions /\ <<x, y>> \in E!Log!Additions
      BY <3>1 DEF E!Log!Additions
    <3>5. Append(q, x) = q \o <<x>> /\ Append(Append(q, x), y) = q \o <<x, y>>
      <4> HIDE DEF single, x, y, q
      <4> QED BY <3>3
    <3>6. \/ E!Entries' = [E!Entries EXCEPT ![a] = Append(q, x)]
          \/ E!Entries' = [E!Entries EXCEPT ![a] = Append(Append(q, x), y)]
      BY <3>1, <3>2 DEF With
    <3>7. E!Entries' \in E!Log!Longer(E!Entries, a)
      <4> HIDE DEF x, y
      <4> QED BY <3>4, <3>5, <3>6 DEF E!Log!Longer
    <3> QED BY <3>1, <3>7 DEF E!Log!Next
  <2>2. CASE E!Entries' = E!Entries
    BY <2>2
  <2> QED BY <1>3, <2>1, <2>2, EventsStep, SharedStateAssumption DEF SharedStateAssumption
<1> QED BY <1>1, <1>2, <1>4, <1>5, PTL DEF E!Spec, LogSpec, E!LogSpec, E!Log!Spec
=============================================================================
