---- MODULE RouteTable_proofs ----
(***************************************************************************)
(* Proofs about RouteTable, for any patterns and methods and any number of *)
(* declared routes: what Resolve puts in the table.                        *)
(***************************************************************************)
EXTENDS RouteTable, SequenceTheorems, WellFoundedInduction, TLAPS

\* A set of natural numbers that is not empty has a least element.
LEMMA LeastNatural ==
    ASSUME NEW T, T \subseteq Nat, T # {}
    PROVE  \E n \in T : \A m \in T : n <= m
<1> DEFINE R == OpToRel(<, Nat)
<1>1. PICK n \in T : \A m \in T : <<m, n>> \notin R
  <2> HIDE DEF R
  <2>1. IsWellFoundedOn(R, Nat)
    BY NatLessThanWellFounded DEF R
  <2> QED BY <2>1, WFMin
<1>2. \A m \in T : ~(m < n)
  BY <1>1 DEF OpToRel
<1> QED BY <1>2

LEMMA OverlapsIsSymmetric ==
    ASSUME NEW a, NEW b
    PROVE  overlaps(a, b) <=> overlaps(b, a)
BY DEF overlaps

\* What the loop of Resolve finds: the least overlapping position, and none
\* only when no entry overlaps.
LEMMA LoopFindsOverlap ==
    ASSUME ordered \in Seq(Routes), NEW r
    PROVE  /\ \A i \in FirstOverlap(r) :
                /\ i \in 1..Len(ordered) /\ overlaps(ordered[i], r)
                /\ \A j \in 1..Len(ordered) : overlaps(ordered[j], r) => i <= j
           /\ FirstOverlap(r) = {} => \A i \in 1..Len(ordered) : ~overlaps(ordered[i], r)
<1> DEFINE hits == {i \in 1..Len(ordered) : overlaps(ordered[i], r)}
<1>0. Len(ordered) \in Nat
  BY LenProperties
<1>1. ASSUME NEW i \in FirstOverlap(r)
      PROVE  /\ i \in 1..Len(ordered) /\ overlaps(ordered[i], r)
             /\ \A j \in 1..Len(ordered) : overlaps(ordered[j], r) => i <= j
  BY <1>0, <1>1 DEF FirstOverlap
<1>2. ASSUME hits # {} PROVE FirstOverlap(r) # {}
  <2>0. hits \subseteq Nat
    BY <1>0
  <2>1. PICK n \in hits : \A m \in hits : n <= m
    <3> HIDE DEF hits
    <3> QED BY <1>2, <2>0, LeastNatural
  <2>2. \A j \in 1..n - 1 : ~overlaps(ordered[j], r)
    BY <1>0, <2>1
  <2> QED BY <2>1, <2>2 DEF FirstOverlap
<1> QED BY <1>1, <1>2

\* Entries of routes.d come first; until the presets are read there are no
\* others.
UserFirst ==
    /\ \A i \in fromUser, k \in 1..Len(ordered) \ fromUser : i < k
    /\ step = "user" => fromUser = 1..Len(ordered)

\* Every entry was declared.
AllDeclared == \A k \in 1..Len(ordered) : ordered[k] \in declared

\* The two ways an entry enters the list.
Replaced(r, i) ==
    /\ i \in 1..Len(ordered)
    /\ ordered' = [ordered EXCEPT ![i] = r]
Appended(r) == ordered' = Append(ordered, r)

LEMMA ListAfter ==
    ASSUME ordered \in Seq(Routes), NEW r \in Routes
    PROVE  /\ Len(ordered) \in Nat
           /\ \A i : Replaced(r, i) =>
                /\ ordered' \in Seq(Routes) /\ Len(ordered') = Len(ordered)
                /\ ordered'[i] = r
                /\ \A j \in 1..Len(ordered) \ {i} : ordered'[j] = ordered[j]
           /\ Appended(r) =>
                /\ ordered' \in Seq(Routes) /\ Len(ordered') = Len(ordered) + 1
                /\ ordered'[Len(ordered) + 1] = r
                /\ \A j \in 1..Len(ordered) : ordered'[j] = ordered[j]
<1>1. Len(ordered) \in Nat
  BY LenProperties
<1>2. ASSUME NEW i, Replaced(r, i)
      PROVE  /\ ordered' \in Seq(Routes) /\ Len(ordered') = Len(ordered)
             /\ ordered'[i] = r
             /\ \A j \in 1..Len(ordered) \ {i} : ordered'[j] = ordered[j]
  BY <1>2, ExceptSeq DEF Replaced
<1>3. ASSUME Appended(r)
      PROVE  /\ ordered' \in Seq(Routes) /\ Len(ordered') = Len(ordered) + 1
             /\ ordered'[Len(ordered) + 1] = r
             /\ \A j \in 1..Len(ordered) : ordered'[j] = ordered[j]
  BY <1>3, AppendProperties DEF Appended
<1> QED BY <1>1, <1>2, <1>3

-----------------------------------------------------------------------------

\* The variables keep their types (load.go, Resolve; mux.go, BuildMux).
THEOREM TypeCorrect == Spec => []TypeOK
<1>1. Init => TypeOK
  BY EmptySeq DEF Init, TypeOK
<1>2. TypeOK /\ [Next]_vars => TypeOK'
  <2> SUFFICES ASSUME TypeOK, [Next]_vars PROVE TypeOK'
    OBVIOUS
  <2> USE DEF TypeOK
  <2>1. ASSUME NEW r \in Routes, Reject(r) PROVE TypeOK'
    BY <2>1 DEF Reject
  <2>2. ASSUME NEW r \in Routes, AddUser(r) PROVE TypeOK'
    <3>1. user' \in Seq(Routes) /\ preset' \in Seq(Routes) /\ step' = step /\ mux' = mux
      BY <2>2, AppendProperties DEF AddUser
    <3>2. CASE \E i \in FirstOverlap(r) : ordered' = [ordered EXCEPT ![i] = r]
                                          /\ fromUser' = fromUser \cup {i}
      <4>1. PICK i \in FirstOverlap(r) : ordered' = [ordered EXCEPT ![i] = r]
                                         /\ fromUser' = fromUser \cup {i}
        BY <3>2
      <4>2. Replaced(r, i)
        BY <4>1, LoopFindsOverlap DEF Replaced
      <4> QED BY <3>1, <4>1, <4>2, ListAfter DEF Replaced
    <3>3. CASE Appended(r) /\ fromUser' = fromUser \cup {Len(ordered) + 1}
      <4>1. ordered' \in Seq(Routes) /\ Len(ordered) \in Nat /\ Len(ordered') = Len(ordered) + 1
        BY <3>3, ListAfter
      <4>2. fromUser \subseteq 1..Len(ordered)
        OBVIOUS
      <4>3. fromUser' \subseteq 1..Len(ordered')
        <5>1. 1..Len(ordered) \subseteq 1..Len(ordered') /\ Len(ordered) + 1 \in 1..Len(ordered')
          BY <4>1
        <5> QED BY <3>3, <4>2, <5>1, Zenon
      <4> QED BY <3>1, <4>1, <4>3
    <3> QED BY <2>2, <3>2, <3>3 DEF AddUser, Appended
  <2>3. ASSUME NEW r \in Routes, AddPreset(r) PROVE TypeOK'
    <3>1. user' \in Seq(Routes) /\ preset' \in Seq(Routes) /\ step' = "preset"
          /\ mux' = mux /\ fromUser' = fromUser
      BY <2>3, AppendProperties DEF AddPreset
    <3>2. CASE \E i \in FirstOverlap(r) : ordered' = ordered \/ Replaced(r, i)
      BY <3>1, <3>2, ListAfter
    <3>3. CASE Appended(r)
      BY <3>1, <3>3, ListAfter
    <3> QED BY <2>3, <3>2, <3>3, LoopFindsOverlap DEF AddPreset, Appended, Replaced
  <2>4. CASE BuildMux
    <3>1. \A i \in 1..Len(ordered) : ordered[i] \in Routes
      BY ElementOfSeq
    <3> QED BY <2>4, <3>1 DEF BuildMux
  <2>5. CASE UNCHANGED vars
    BY <2>5 DEF vars
  <2> QED BY <2>1, <2>2, <2>3, <2>4, <2>5 DEF Next
<1> QED BY <1>1, <1>2, PTL DEF Spec

\* UserFirst is kept: an entry is added to the list of routes.d only while
\* there is no other, and a preset only after it or in place of a preset.
LEMMA UserFirstInvariant == Spec => []UserFirst
<1>1. Init => UserFirst
  BY EmptySeq DEF Init, UserFirst
<1>2. TypeOK /\ UserFirst /\ [Next]_vars => UserFirst'
  <2> SUFFICES ASSUME TypeOK, UserFirst, [Next]_vars PROVE UserFirst'
    OBVIOUS
  <2> USE DEF TypeOK, UserFirst
  <2>0. Len(ordered) \in Nat
    BY LenProperties
  <2>1. ASSUME NEW r \in Routes, Reject(r) PROVE UserFirst'
    BY <2>1 DEF Reject
  <2>2. ASSUME NEW r \in Routes, AddUser(r) PROVE UserFirst'
    <3>1. step' = "user" /\ fromUser = 1..Len(ordered)
      BY <2>2 DEF AddUser
    <3>2. fromUser' = 1..Len(ordered')
      <4>1. CASE \E i \in FirstOverlap(r) : Replaced(r, i) /\ fromUser' = fromUser \cup {i}
        BY <2>0, <3>1, <4>1, ListAfter DEF Replaced
      <4>2. CASE Appended(r) /\ fromUser' = fromUser \cup {Len(ordered) + 1}
        <5>1. Len(ordered') = Len(ordered) + 1
          BY <4>2, ListAfter
        <5> QED BY <2>0, <3>1, <4>2, <5>1
      <4> QED BY <2>2, <4>1, <4>2, LoopFindsOverlap DEF AddUser, Replaced, Appended
    <3> QED BY <3>1, <3>2
  <2>3. ASSUME NEW r \in Routes, AddPreset(r) PROVE UserFirst'
    <3>1. step' = "preset" /\ fromUser' = fromUser
      BY <2>3 DEF AddPreset
    <3>2. Len(ordered') = Len(ordered) \/ Len(ordered') = Len(ordered) + 1
      <4>1. \/ ordered' = ordered
            \/ \E i \in FirstOverlap(r) : Replaced(r, i)
            \/ Appended(r)
        BY <2>3, LoopFindsOverlap DEF AddPreset, Replaced, Appended
      <4> QED BY <4>1, ListAfter
    <3> QED BY <2>0, <3>1, <3>2
  <2>4. CASE BuildMux
    BY <2>4 DEF BuildMux
  <2>5. CASE UNCHANGED vars
    BY <2>5 DEF vars
  <2> QED BY <2>1, <2>2, <2>3, <2>4, <2>5 DEF Next
<1> QED BY <1>1, <1>2, TypeCorrect, PTL DEF Spec

\* A route of routes.d that no later one overlaps is in the table, whatever
\* else is declared (load.go, Resolve).
THEOREM UserRouteKept == Spec => []UserRouteSurvives
<1>1. Init => UserRouteSurvives
  BY EmptySeq DEF Init, UserRouteSurvives
<1>2. TypeOK /\ UserRouteSurvives /\ [Next]_vars => UserRouteSurvives'
  <2> SUFFICES ASSUME TypeOK, UserRouteSurvives, [Next]_vars PROVE UserRouteSurvives'
    OBVIOUS
  <2> USE DEF TypeOK
  <2>0. Len(ordered) \in Nat /\ Len(user) \in Nat
    BY LenProperties
  <2>1. ASSUME NEW r \in Routes, Reject(r) PROVE UserRouteSurvives'
    BY <2>1 DEF Reject, UserRouteSurvives
  <2>2. ASSUME NEW r \in Routes, AddUser(r) PROVE UserRouteSurvives'
    <3>1. /\ Len(user') = Len(user) + 1 /\ user'[Len(user) + 1] = r
          /\ \A i \in 1..Len(user) : user'[i] = user[i]
      BY <2>2, AppendProperties DEF AddUser
    <3>2. \/ \E i \in FirstOverlap(r) : Replaced(r, i) /\ fromUser' = fromUser \cup {i}
          \/ Appended(r) /\ fromUser' = fromUser \cup {Len(ordered) + 1}
      BY <2>2, LoopFindsOverlap DEF AddUser, Replaced, Appended
    <3>3. \E k \in fromUser' : ordered'[k] = r
      BY <3>2, ListAfter
    <3>4. ASSUME NEW k \in fromUser, ~overlaps(ordered[k], r)
          PROVE  k \in fromUser' /\ ordered'[k] = ordered[k]
      BY <2>0, <3>2, <3>4, ListAfter, LoopFindsOverlap
    <3>5. ASSUME NEW i \in 1..Len(user'),
                 \A j \in i + 1..Len(user') : ~overlaps(user'[j], user'[i])
          PROVE  \E k \in fromUser' : ordered'[k] = user'[i]
      <4>1. CASE i = Len(user) + 1
        BY <3>1, <3>3, <4>1
      <4>2. CASE i # Len(user) + 1
        <5>1. i \in 1..Len(user) /\ user'[i] = user[i]
          BY <2>0, <3>1, <4>2
        <5>2. ASSUME NEW j \in i + 1..Len(user) PROVE ~overlaps(user[j], user[i])
          <6>1. j \in i + 1..Len(user') /\ user'[j] = user[j]
            BY <2>0, <3>1, <5>1
          <6> QED BY <3>5, <5>1, <6>1
        <5>3. ~overlaps(user[i], r)
          <6>1. Len(user) + 1 \in i + 1..Len(user')
            BY <2>0, <3>1, <5>1
          <6> QED BY <3>1, <3>5, <5>1, <6>1, OverlapsIsSymmetric
        <5>4. PICK k \in fromUser : ordered[k] = user[i]
          BY <5>1, <5>2 DEF UserRouteSurvives
        <5> QED BY <3>4, <5>1, <5>3, <5>4
      <4> QED BY <4>1, <4>2
    <3> QED BY <3>5 DEF UserRouteSurvives
  <2>3. ASSUME NEW r \in Routes, AddPreset(r) PROVE UserRouteSurvives'
    <3>1. user' = user /\ fromUser' = fromUser
      BY <2>3 DEF AddPreset
    <3>2. \/ ordered' = ordered
          \/ \E i \in FirstOverlap(r) \ fromUser : Replaced(r, i)
          \/ Appended(r)
      BY <2>3, LoopFindsOverlap DEF AddPreset, Replaced, Appended
    <3>3. \A k \in fromUser : ordered'[k] = ordered[k]
      BY <2>0, <3>2, ListAfter
    <3> QED BY <3>1, <3>3 DEF UserRouteSurvives
  <2>4. CASE BuildMux
    BY <2>4 DEF BuildMux, UserRouteSurvives
  <2>5. CASE UNCHANGED vars
    BY <2>5 DEF vars, UserRouteSurvives
  <2> QED BY <2>1, <2>2, <2>3, <2>4, <2>5 DEF Next
<1> QED BY <1>1, <1>2, TypeCorrect, PTL DEF Spec

\* No preset entry is left on a slot that a route of routes.d holds (load.go,
\* Resolve).
THEOREM PresetsYield == Spec => []PresetYields
<1>1. Init => PresetYields
  BY EmptySeq DEF Init, PresetYields
<1>2. TypeOK /\ UserFirst /\ UserFirst' /\ PresetYields /\ [Next]_vars => PresetYields'
  <2> SUFFICES ASSUME TypeOK, UserFirst, UserFirst', PresetYields, [Next]_vars
               PROVE  PresetYields'
    OBVIOUS
  <2> USE DEF TypeOK
  <2>0. Len(ordered) \in Nat
    BY LenProperties
  <2>1. ASSUME NEW r \in Routes, Reject(r) PROVE PresetYields'
    BY <2>1 DEF Reject, PresetYields
  <2>2. ASSUME NEW r \in Routes, AddUser(r) PROVE PresetYields'
    <3>1. step' = "user"
      BY <2>2 DEF AddUser
    <3>2. fromUser' = 1..Len(ordered')
      BY <3>1 DEF UserFirst
    <3> QED BY <3>2 DEF PresetYields
  <2>3. ASSUME NEW r \in Routes, AddPreset(r) PROVE PresetYields'
    <3>1. fromUser' = fromUser
      BY <2>3 DEF AddPreset
    <3>2. CASE ordered' = ordered
      BY <3>1, <3>2 DEF PresetYields
    <3>3. CASE \E i \in FirstOverlap(r) \ fromUser : Replaced(r, i)
      <4>1. PICK i \in FirstOverlap(r) \ fromUser : Replaced(r, i)
        BY <3>3
      <4>2. \A j \in fromUser : ~overlaps(ordered[j], r) /\ ordered'[j] = ordered[j]
        BY <2>0, <4>1, ListAfter, LoopFindsOverlap DEF UserFirst
      <4>3. /\ Len(ordered') = Len(ordered) /\ ordered'[i] = r
            /\ \A j \in 1..Len(ordered) \ {i} : ordered'[j] = ordered[j]
        BY <4>1, ListAfter
      <4> QED BY <3>1, <4>2, <4>3 DEF PresetYields
    <3>4. CASE Appended(r) /\ FirstOverlap(r) = {}
      <4>1. \A j \in 1..Len(ordered) : ~overlaps(ordered[j], r) /\ ordered'[j] = ordered[j]
        BY <3>4, ListAfter, LoopFindsOverlap
      <4>2. Len(ordered') = Len(ordered) + 1 /\ ordered'[Len(ordered) + 1] = r
        BY <3>4, ListAfter
      <4>3. ASSUME NEW i \in fromUser, NEW k \in 1..Len(ordered') \ fromUser
            PROVE  ~overlaps(ordered'[i], ordered'[k])
        <5>1. CASE k = Len(ordered) + 1
          BY <4>1, <4>2, <5>1
        <5>2. CASE k # Len(ordered) + 1
          <6>1. k \in 1..Len(ordered)
            BY <2>0, <4>2, <5>2
          <6> QED BY <4>1, <6>1 DEF PresetYields
        <5> QED BY <5>1, <5>2
      <4> QED BY <3>1, <4>3 DEF PresetYields
    <3> QED BY <2>3, <3>2, <3>3, <3>4, LoopFindsOverlap
            DEF AddPreset, Replaced, Appended
  <2>4. CASE BuildMux
    BY <2>4 DEF BuildMux, PresetYields
  <2>5. CASE UNCHANGED vars
    BY <2>5 DEF vars, PresetYields
  <2> QED BY <2>1, <2>2, <2>3, <2>4, <2>5 DEF Next
<1> QED BY <1>1, <1>2, TypeCorrect, UserFirstInvariant, PTL DEF Spec

\* What a step adds to the declared routes.
LEMMA DeclaredAfter ==
    ASSUME TypeOK, NEW r \in Routes, AddUser(r) \/ AddPreset(r)
    PROVE  r \in declared' /\ declared \subseteq declared'
<1> USE DEF TypeOK
<1>1. Len(user) \in Nat /\ Len(preset) \in Nat
  BY LenProperties
<1>2. CASE AddUser(r)
  <2>1. preset' = preset /\ user' = Append(user, r)
    BY <1>2 DEF AddUser
  <2>2. /\ Len(user') = Len(user) + 1 /\ user'[Len(user) + 1] = r
        /\ \A i \in 1..Len(user) : user'[i] = user[i] /\ i \in 1..Len(user')
    BY <1>1, <2>1, AppendProperties
  <2>3. Len(user) + 1 \in 1..Len(user')
    BY <1>1, <2>2
  <2> QED BY <2>1, <2>2, <2>3 DEF declared
<1>3. CASE AddPreset(r)
  <2>1. user' = user /\ preset' = Append(preset, r)
    BY <1>3 DEF AddPreset
  <2>2. /\ Len(preset') = Len(preset) + 1 /\ preset'[Len(preset) + 1] = r
        /\ \A i \in 1..Len(preset) : preset'[i] = preset[i] /\ i \in 1..Len(preset')
    BY <1>1, <2>1, AppendProperties
  <2>3. Len(preset) + 1 \in 1..Len(preset')
    BY <1>1, <2>2
  <2> QED BY <2>1, <2>2, <2>3 DEF declared
<1> QED BY <1>2, <1>3

\* What a step does to the list.
LEMMA ListStep ==
    ASSUME ordered \in Seq(Routes), NEW r \in Routes, AddUser(r) \/ AddPreset(r)
    PROVE  \/ ordered' = ordered
           \/ \E i \in FirstOverlap(r) : Replaced(r, i)
           \/ Appended(r) /\ FirstOverlap(r) = {}
<1>1. CASE AddUser(r)
  BY <1>1, LoopFindsOverlap DEF AddUser, Replaced, Appended
<1>2. CASE AddPreset(r)
  BY <1>2, LoopFindsOverlap DEF AddPreset, Replaced, Appended
<1> QED BY <1>1, <1>2

\* Every entry of the list was declared.
LEMMA DeclaredInvariant == Spec => []AllDeclared
<1>1. Init => AllDeclared
  BY EmptySeq DEF Init, AllDeclared
<1>2. TypeOK /\ AllDeclared /\ [Next]_vars => AllDeclared'
  <2> SUFFICES ASSUME TypeOK, AllDeclared, [Next]_vars PROVE AllDeclared'
    OBVIOUS
  <2>0. ordered \in Seq(Routes) /\ Len(ordered) \in Nat
    BY LenProperties DEF TypeOK
  <2>1. ASSUME NEW r \in Routes, AddUser(r) \/ AddPreset(r) PROVE AllDeclared'
    <3>1. r \in declared' /\ declared \subseteq declared'
      BY <2>1, DeclaredAfter
    <3>2. CASE ordered' = ordered
      BY <3>1, <3>2 DEF AllDeclared
    <3>3. CASE \E i \in FirstOverlap(r) : Replaced(r, i)
      BY <2>0, <3>1, <3>3, ListAfter DEF AllDeclared
    <3>4. CASE Appended(r)
      <4>1. /\ Len(ordered') = Len(ordered) + 1 /\ ordered'[Len(ordered) + 1] = r
            /\ \A j \in 1..Len(ordered) : ordered'[j] = ordered[j]
        BY <2>0, <3>4, ListAfter
      <4>2. ASSUME NEW k \in 1..Len(ordered') PROVE ordered'[k] \in declared'
        <5>1. k \in 1..Len(ordered) \/ k = Len(ordered) + 1
          BY <2>0, <4>1
        <5> QED BY <3>1, <4>1, <5>1 DEF AllDeclared
      <4> QED BY <4>2 DEF AllDeclared
    <3> QED BY <2>0, <2>1, <3>2, <3>3, <3>4, ListStep
  <2>2. CASE (\E r \in Routes : Reject(r)) \/ BuildMux \/ UNCHANGED vars
    BY <2>2 DEF Reject, BuildMux, vars, AllDeclared, declared
  <2> QED BY <2>1, <2>2 DEF Next
<1> QED BY <1>1, <1>2, TypeCorrect, PTL DEF Spec

\* If each path is declared with a method everywhere or nowhere, the table has
\* one entry for each slot (load.go, Resolve).
THEOREM SlotsAreUnique == Spec => []OneRoutePerSlot
<1>1. Init => OneRoutePerSlot
  BY EmptySeq DEF Init, OneRoutePerSlot
<1>2. TypeOK /\ AllDeclared /\ OneRoutePerSlot /\ [Next]_vars => OneRoutePerSlot'
  <2> SUFFICES ASSUME TypeOK, AllDeclared, OneRoutePerSlot, [Next]_vars, Unmixed'
               PROVE  \A i, j \in 1..Len(ordered') : i # j => ~overlaps(ordered'[i], ordered'[j])
    BY DEF OneRoutePerSlot
  <2> DEFINE Alone == \A i, j \in 1..Len(ordered) : i # j => ~overlaps(ordered[i], ordered[j])
  <2>0. ordered \in Seq(Routes) /\ Len(ordered) \in Nat
    BY LenProperties DEF TypeOK
  <2>1. ASSUME NEW r \in Routes, AddUser(r) \/ AddPreset(r)
        PROVE  \A i, j \in 1..Len(ordered') : i # j => ~overlaps(ordered'[i], ordered'[j])
    <3>1. r \in declared' /\ declared \subseteq declared'
      BY <2>1, DeclaredAfter
    <3>2. Unmixed
      BY <3>1 DEF Unmixed
    <3>3. Alone
      BY <3>2 DEF OneRoutePerSlot
    <3>4. CASE ordered' = ordered
      BY <3>3, <3>4
    <3>5. CASE \E m \in FirstOverlap(r) : Replaced(r, m)
      <4>1. PICK m \in FirstOverlap(r) : Replaced(r, m)
        BY <3>5
      <4>2. m \in 1..Len(ordered) /\ overlaps(ordered[m], r)
        BY <2>0, LoopFindsOverlap
      <4>3. /\ Len(ordered') = Len(ordered) /\ ordered'[m] = r
            /\ \A j \in 1..Len(ordered) \ {m} : ordered'[j] = ordered[j]
        BY <2>0, <4>1, ListAfter
      <4>4. ASSUME NEW j \in 1..Len(ordered) \ {m} PROVE ~overlaps(ordered[j], r)
        <5>1. ordered[j] \in declared' /\ ordered[m] \in declared'
          BY <3>1, <4>2 DEF AllDeclared
        <5>2. ~overlaps(ordered[j], ordered[m])
          BY <3>3, <4>2
        <5> QED BY <3>1, <4>2, <5>1, <5>2 DEF Unmixed, overlaps
      <4> QED BY <3>3, <4>3, <4>4, OverlapsIsSymmetric
    <3>6. CASE Appended(r) /\ FirstOverlap(r) = {}
      <4>1. \A j \in 1..Len(ordered) : ~overlaps(ordered[j], r)
        BY <2>0, <3>6, LoopFindsOverlap
      <4>2. /\ Len(ordered') = Len(ordered) + 1 /\ ordered'[Len(ordered) + 1] = r
            /\ \A j \in 1..Len(ordered) : ordered'[j] = ordered[j]
        BY <2>0, <3>6, ListAfter
      <4>3. ASSUME NEW i \in 1..Len(ordered'), NEW j \in 1..Len(ordered'), i # j
            PROVE  ~overlaps(ordered'[i], ordered'[j])
        <5>1. /\ i \in 1..Len(ordered) \/ i = Len(ordered) + 1
              /\ j \in 1..Len(ordered) \/ j = Len(ordered) + 1
          BY <2>0, <4>2
        <5> QED BY <3>3, <4>1, <4>2, <4>3, <5>1, OverlapsIsSymmetric
      <4> QED BY <4>3
    <3> QED BY <2>0, <2>1, <3>4, <3>5, <3>6, ListStep
  <2>2. CASE (\E r \in Routes : Reject(r)) \/ BuildMux \/ UNCHANGED vars
    BY <2>2 DEF Reject, BuildMux, vars, OneRoutePerSlot, Unmixed, declared
  <2> QED BY <2>1, <2>2 DEF Next
<1> QED BY <1>1, <1>2, TypeCorrect, DeclaredInvariant, PTL DEF Spec
====
