--------------------- MODULE DefinitionRepositoryProofs ---------------------
(***************************************************************************)
(* The definition repository under any number of sessions and agents, and  *)
(* what merges and diffs say of any documents.                             *)
(***************************************************************************)
EXTENDS DefinitionRepository, FiniteSetTheorems, WellFoundedInduction, TLAPS

-----------------------------------------------------------------------------
(* The highest version number *)

High(a) == Max(Rows(a) \cup {0})

\* A non-empty set of numbers with an upper bound has a maximum.
LEMMA BoundedSetHasMax ==
  ASSUME NEW n \in Nat, NEW S \in SUBSET (0..n), S # {}
  PROVE  Max(S) \in S /\ \A y \in S : y <= Max(S)
<1> DEFINE T == {n - y : y \in S}
<1>1. T \subseteq Nat /\ T # {}
  <2>1. \A y \in S : y \in 0..n /\ n - y \in Nat
    OBVIOUS
  <2>2. PICK y \in S : TRUE
    OBVIOUS
  <2>3. n - y \in T
    OBVIOUS
  <2> QED BY <2>1, <2>3
<1>2. PICK x \in T : \A y \in T : ~ (<<y, x>> \in OpToRel(<, Nat))
  BY <1>1, NatLessThanWellFounded, WFMin, Zenon
<1>3. PICK m \in S : x = n - m
  OBVIOUS
<1>4. \A y \in S : m >= y
  <2> SUFFICES ASSUME NEW y \in S PROVE m >= y
    OBVIOUS
  <2>1. n - y \in T
    OBVIOUS
  <2>2. ~ (n - y < x)
    BY <1>1, <1>2, <2>1 DEF OpToRel
  <2> QED BY <1>3, <2>2
<1> QED BY <1>3, <1>4 DEF Max

LEMMA HighestOf ==
  ASSUME NEW R \in SUBSET Numbers
  PROVE  /\ Max(R \cup {0}) \in 0..MaxVersions
         /\ Max(R \cup {0}) = 0 \/ Max(R \cup {0}) \in R
         /\ \A n \in R : n <= Max(R \cup {0})
<1>1. R \cup {0} \subseteq 0..MaxVersions
  BY BoundAssumption DEF Numbers
<1>2. Max(R \cup {0}) \in R \cup {0} /\ \A n \in R \cup {0} : n <= Max(R \cup {0})
  BY <1>1, BoundAssumption, BoundedSetHasMax
<1> QED BY <1>1, <1>2

LEMMA HighIsHighest ==
  ASSUME NEW a
  PROVE  /\ High(a) \in 0..MaxVersions
         /\ High(a) = 0 \/ High(a) \in Rows(a)
         /\ \A n \in Rows(a) : n <= High(a)
BY HighestOf DEF High, Rows

-----------------------------------------------------------------------------
(* Paths, and the dicts they lead into *)

LEMMA InsideMeans ==
  ASSUME NEW p \in Paths, NEW q \in Paths
  PROVE  Inside(q, p) <=> Len(p) <= Len(q) /\ \A i \in 1..Len(p) : p[i] = q[i]
<1>1. Len(p) \in Nat /\ Len(q) \in Nat
  BY DEF Paths
<1>2. Len(p) <= Len(q) => /\ SubSeq(p, 1, Len(p)) = [i \in 1..Len(p) |-> p[i]]
                          /\ SubSeq(q, 1, Len(p)) = [i \in 1..Len(p) |-> q[i]]
  BY <1>1 DEF Paths
<1> QED BY <1>1, <1>2 DEF Inside, IsPrefix

LEMMA InsideItself == \A p \in Paths : Inside(p, p)
<1> SUFFICES ASSUME NEW p \in Paths PROVE Inside(p, p)
  OBVIOUS
<1>1. Len(p) \in Nat
  BY DEF Paths
<1> QED BY <1>1, InsideMeans

LEMMA InsideIsTransitive ==
  ASSUME NEW p \in Paths, NEW q \in Paths, NEW r \in Paths, Inside(r, q), Inside(q, p)
  PROVE  Inside(r, p)
<1>1. Len(p) \in Nat /\ Len(q) \in Nat /\ Len(r) \in Nat
  BY DEF Paths
<1>2. /\ Len(q) <= Len(r) /\ \A i \in 1..Len(q) : q[i] = r[i]
      /\ Len(p) <= Len(q) /\ \A i \in 1..Len(p) : p[i] = q[i]
  BY InsideMeans
<1>3. Len(p) <= Len(r) /\ \A i \in 1..Len(p) : p[i] = r[i]
  BY <1>1, <1>2
<1> QED BY <1>3, InsideMeans

\* Two dicts around the same leaf: one is inside the other.
LEMMA AroundTheSame ==
  ASSUME NEW p \in Paths, NEW q \in Paths, NEW r \in Paths, Inside(r, p), Inside(r, q)
  PROVE  Inside(p, q) \/ Inside(q, p)
<1>1. Len(p) \in Nat /\ Len(q) \in Nat /\ Len(r) \in Nat
  BY DEF Paths
<1>2. /\ Len(p) <= Len(r) /\ \A i \in 1..Len(p) : p[i] = r[i]
      /\ Len(q) <= Len(r) /\ \A i \in 1..Len(q) : q[i] = r[i]
  BY InsideMeans
<1>3. CASE Len(q) <= Len(p)
  <2>1. \A i \in 1..Len(q) : q[i] = p[i]
    BY <1>1, <1>2, <1>3
  <2> QED BY <1>3, <2>1, InsideMeans
<1>4. CASE Len(p) <= Len(q)
  <2>1. \A i \in 1..Len(p) : p[i] = q[i]
    BY <1>1, <1>2, <1>4
  <2> QED BY <1>4, <2>1, InsideMeans
<1> QED BY <1>1, <1>3, <1>4

\* A path inside another and no longer than it is the same path.
LEMMA SameLengthSamePath ==
  ASSUME NEW p \in Paths, NEW q \in Paths, Inside(q, p), Len(q) <= Len(p)
  PROVE  q = p
<1>1. Len(p) \in Nat /\ Len(q) \in Nat
  BY DEF Paths
<1>2. Len(q) = Len(p) /\ \A i \in 1..Len(p) : p[i] = q[i]
  BY <1>1, InsideMeans
<1> QED BY <1>2 DEF Paths

-----------------------------------------------------------------------------
(* What validation makes of a document *)

\* A submodel stands around the fields it has, never inside another field.
LEMMA SubmodelsAreOutside ==
  ASSUME NEW q \in Paths, IsSubmodel(q), NEW f \in Fields
  PROVE  ~Inside(q, f)
<1> SUFFICES ASSUME Inside(q, f) PROVE FALSE
  OBVIOUS
<1>1. PICK g \in Fields : Inside(g, q)
  BY DEF IsSubmodel
<1>2. f \in Paths /\ g \in Paths /\ q # f /\ q # g
  BY SchemaAssumption DEF IsSubmodel
<1>3. Len(f) \in Nat /\ Len(g) \in Nat /\ Len(q) \in Nat
  BY <1>2 DEF Paths
<1>4. Len(f) < Len(q)
  BY <1>2, <1>3, SameLengthSamePath
<1>5. Len(q) < Len(g)
  BY <1>1, <1>2, <1>3, SameLengthSamePath
<1>6. Inside(g, f)
  BY <1>1, <1>2, InsideIsTransitive
<1>7. g = f \/ Len(g) = Len(f) + 1
  BY <1>6, SchemaAssumption
<1> QED BY <1>3, <1>4, <1>5, <1>7

Typable == Fields \ FreeForm

\* Reading a value twice is reading it once, and never gives an empty dict.
LEMMA ReadingIsSettled ==
  ASSUME NEW q, NEW v \in Values
  PROVE  /\ Read(q, v) \in Values /\ Read(q, Read(q, v)) = Read(q, v)
         /\ q \in Typable /\ Parse[q][v] # BadValue => Read(q, v) # EmptyDict
<1>1. q \in Typable => Parse[q][v] \in Values /\ Parse[q][Parse[q][v]] = Parse[q][v] /\ Parse[q][EmptyDict] = BadValue
  BY ParseAssumption DEF Typable
<1> QED BY <1>1 DEF Read, Typable

\* Where the defaults are, and what they are worth.
LEMMA DefaultLeaves ==
  ASSUME NEW f \in Fields, NEW q \in DefaultsOf(f)
  PROVE  /\ q \in Paths /\ Inside(q, f) /\ q \in DOMAIN Defaults /\ Defaults[q] \in Values
         /\ q \in Fields => q = f
         /\ Read(q, Defaults[q]) = Defaults[q]
         /\ q \in Fields => IF q \in FreeForm THEN Defaults[q] = EmptyDict
                                              ELSE Defaults[q] # EmptyDict /\ Parse[q][Defaults[q]] # BadValue
<1>1. q \in DOMAIN Defaults /\ (q = f \/ (f \in FreeForm /\ Inside(q, f)))
  BY DEF DefaultsOf
<1>2. q \in Paths /\ Defaults[q] \in Values
  BY <1>1, DefaultsAssumption DEF IsDocument
<1>3. Inside(q, f)
  BY <1>1, <1>2, InsideItself
<1>4. q \in Fields => q = f
  BY <1>1, <1>3, SchemaAssumption
<1>5. q \in Typable => Parse[q][Defaults[q]] = Defaults[q] /\ Defaults[q] # BadValue
  BY <1>1, DefaultsAssumption DEF Typable
<1>6. q \in Typable => Defaults[q] # EmptyDict
  BY <1>5, ParseAssumption DEF Typable
<1>7. q \in FreeForm => Defaults[q] = EmptyDict
  BY <1>1, SchemaAssumption, DefaultsAssumption
<1> QED BY <1>1, <1>2, <1>3, <1>4, <1>5, <1>6, <1>7 DEF Read, Typable

\* The leaves of a document that validation keeps, and those it fills in.
Given(d) == {q \in DOMAIN d : ~IsSubmodel(q)}
Left(d) == {f \in Fields : Due(d, f) /\ ~Mentions(d, f)}

LEMMA CanonicalLeaves ==
  ASSUME NEW d, Valid(d), NEW c, c = Canonical(d)
  PROVE  /\ \A q \in DOMAIN d : q \in Paths /\ d[q] \in Values /\ (IsSubmodel(q) => d[q] = EmptyDict)
         /\ \A q \in Given(d) : q \in DOMAIN c /\ c[q] = Read(q, d[q])
         /\ \A q \in DOMAIN c \ Given(d) : c[q] = Defaults[q] /\ \E f \in Left(d) : q \in DefaultsOf(f)
         /\ \A f \in Left(d) : \A q \in DefaultsOf(f) : q \in DOMAIN c
<1> DEFINE filled == UNION {DefaultsOf(f) : f \in Left(d)}
<1>1. c = [q \in Given(d) \cup filled |-> IF q \in Given(d) THEN Read(q, d[q]) ELSE Defaults[q]]
  BY DEF Canonical, Given, Left
<1>2. ASSUME NEW q \in DOMAIN d PROVE q \in Paths /\ d[q] \in Values /\ (IsSubmodel(q) => d[q] = EmptyDict)
  <2>1. q \in Paths /\ d[q] \in Values
    BY DEF Valid, IsDocument
  <2>2. q \in Fields \/ (\E f \in FreeForm : Inside(q, f)) \/ (IsSubmodel(q) /\ d[q] = EmptyDict)
    BY DEF Valid
  <2>3. IsSubmodel(q) => q \notin Fields /\ \A f \in FreeForm : ~Inside(q, f)
    BY <2>1, SubmodelsAreOutside, SchemaAssumption DEF IsSubmodel
  <2> QED BY <2>1, <2>2, <2>3
<1> QED BY <1>1, <1>2

\* Rows: no trace of submodels given as empty dicts, values as their types
\* read them, every field that counts there.
Settled(d) ==
  /\ IsDocument(d)
  /\ \A q \in DOMAIN d : ~IsSubmodel(q) /\ Read(q, d[q]) = d[q]
  /\ \A f \in Fields : Due(d, f) => Mentions(d, f)

\* Filling in the defaults makes no submodel of what was none.
LEMMA DueBefore ==
  ASSUME NEW d, Valid(d), NEW f \in Fields, Due(Canonical(d), f)
  PROVE  Due(d, f)
<1> DEFINE c == Canonical(d)
<1>1. /\ \A q \in DOMAIN d : q \in Paths /\ d[q] \in Values
      /\ \A q \in Given(d) : q \in DOMAIN c /\ c[q] = Read(q, d[q])
      /\ \A q \in DOMAIN c \ Given(d) : c[q] = Defaults[q] /\ \E g \in Left(d) : q \in DefaultsOf(g)
  BY CanonicalLeaves
<1> SUFFICES ASSUME NEW o \in Optional \ {f}, Inside(f, o) PROVE IsDict(d, o)
  BY DEF Due
<1>2. PICK q \in DOMAIN c : Inside(q, o) /\ (q # o \/ c[q] = EmptyDict)
  BY DEF Due, IsDict
<1> HIDE DEF c
<1>3. o \in Typable /\ o \in Paths
  BY SchemaAssumption DEF Typable
<1>4. CASE q \in Given(d)
  <2>1. q \in DOMAIN d /\ (q = o => Parse[q][d[q]] # BadValue)
    BY <1>3, <1>4 DEF Given, Valid, Typable
  <2>2. q = o => c[q] # EmptyDict
    BY <1>1, <1>3, <1>4, <2>1, ReadingIsSettled
  <2> QED BY <1>2, <2>1, <2>2 DEF IsDict
<1>5. CASE q \notin Given(d)
  <2>1. PICK g \in Left(d) : q \in DefaultsOf(g)
    BY <1>1, <1>5
  <2>2. g \in Fields /\ g \in Paths /\ Due(d, g)
    BY SchemaAssumption DEF Left
  <2>3. /\ q \in Paths /\ Inside(q, g) /\ (q \in Fields => q = g)
        /\ q \in Typable => Defaults[q] # EmptyDict
    BY <2>1, <2>2, DefaultLeaves DEF Typable
  <2>4. q # o
    BY <1>1, <1>2, <1>3, <1>5, <2>3
  <2>5. Inside(g, o) \/ Inside(o, g)
    BY <1>2, <1>3, <2>2, <2>3, AroundTheSame
  <2>6. g # o
    <3>1. q = g \/ g \in FreeForm
      BY <2>1 DEF DefaultsOf
    <3> QED BY <2>4, <3>1, SchemaAssumption
  <2>7. Inside(o, g) => g = o
    BY <2>2, SchemaAssumption
  <2>8. Inside(g, o)
    BY <2>5, <2>6, <2>7
  <2> QED BY <2>2, <2>6, <2>8 DEF Due
<1> QED BY <1>4, <1>5

LEMMA CanonicalIsSettled ==
  ASSUME NEW d, Valid(d)
  PROVE  Settled(Canonical(d))
<1> DEFINE c == Canonical(d)
<1>1. /\ \A q \in DOMAIN d : q \in Paths /\ d[q] \in Values
      /\ \A q \in Given(d) : q \in DOMAIN c /\ c[q] = Read(q, d[q])
      /\ \A q \in DOMAIN c \ Given(d) : c[q] = Defaults[q] /\ \E f \in Left(d) : q \in DefaultsOf(f)
      /\ \A f \in Left(d) : \A q \in DefaultsOf(f) : q \in DOMAIN c
  BY CanonicalLeaves
<1>2. \A f \in Fields : Due(c, f) => Due(d, f)
  BY DueBefore
<1> HIDE DEF c
<1>3. ASSUME NEW q \in DOMAIN c
      PROVE  q \in Paths /\ c[q] \in Values /\ ~IsSubmodel(q) /\ Read(q, c[q]) = c[q]
  <2>1. CASE q \in Given(d)
    BY <1>1, <2>1, ReadingIsSettled DEF Given
  <2>2. CASE q \notin Given(d)
    <3>1. PICK f \in Fields : q \in DefaultsOf(f)
      BY <1>1, <2>2 DEF Left
    <3>2. q \in Paths /\ Inside(q, f) /\ Defaults[q] \in Values /\ Read(q, Defaults[q]) = Defaults[q]
      BY <3>1, DefaultLeaves
    <3> QED BY <1>1, <2>2, <3>2, SubmodelsAreOutside
  <2> QED BY <2>1, <2>2
<1>4. ASSUME NEW f \in Fields, Due(c, f) PROVE Mentions(c, f)
  <2>1. CASE Mentions(d, f)
    <3>1. PICK q \in DOMAIN d : Inside(q, f)
      BY <2>1 DEF Mentions
    <3>2. q \in Given(d)
      BY <1>1, <3>1, SubmodelsAreOutside DEF Given
    <3> QED BY <1>1, <3>1, <3>2 DEF Mentions
  <2>2. CASE ~Mentions(d, f)
    <3>1. f \in Left(d)
      BY <1>2, <1>4, <2>2 DEF Left
    <3>2. DefaultsOf(f) # {}
      BY <1>2, <1>4, <2>2 DEF Valid, Required
    <3>3. PICK q \in DefaultsOf(f) : Inside(q, f)
      BY <3>2, DefaultLeaves
    <3> QED BY <1>1, <3>1, <3>3 DEF Mentions
  <2> QED BY <2>1, <2>2
<1> QED BY <1>3, <1>4 DEF Settled, IsDocument, c

\* What validation returns validates.
LEMMA CanonicalIsValid ==
  ASSUME NEW d, Valid(d)
  PROVE  Valid(Canonical(d))
<1> DEFINE c == Canonical(d)
<1>1. /\ \A q \in DOMAIN d : d[q] \in Values
      /\ \A q \in Given(d) : q \in DOMAIN c /\ c[q] = Read(q, d[q])
      /\ \A q \in DOMAIN c \ Given(d) : c[q] = Defaults[q] /\ \E f \in Left(d) : q \in DefaultsOf(f)
  BY CanonicalLeaves
<1>2. Settled(c)
  BY CanonicalIsSettled
<1> HIDE DEF c
<1>3. ASSUME NEW q \in DOMAIN c
      PROVE  /\ q \in Fields \/ \E f \in FreeForm : Inside(q, f)
             /\ q \in Fields => IF q \in FreeForm THEN c[q] = EmptyDict ELSE Parse[q][c[q]] # BadValue
  <2>1. CASE q \in Given(d)
    <3>1. q \in DOMAIN d /\ ~IsSubmodel(q) /\ c[q] = Read(q, d[q]) /\ d[q] \in Values
      BY <1>1, <2>1 DEF Given
    <3>2. q \in Fields \/ \E f \in FreeForm : Inside(q, f)
      BY <3>1 DEF Valid
    <3>3. q \in Fields => IF q \in FreeForm THEN d[q] = EmptyDict ELSE Parse[q][d[q]] # BadValue
      BY <3>1 DEF Valid
    <3>4. q \in Typable => c[q] = Parse[q][d[q]] /\ Parse[q][c[q]] = c[q]
      BY <3>1, ReadingIsSettled DEF Read, Typable
    <3>5. q \in FreeForm => c[q] = d[q]
      BY <3>1 DEF Read
    <3> QED BY <3>2, <3>3, <3>4, <3>5 DEF Typable
  <2>2. CASE q \notin Given(d)
    <3>1. PICK f \in Fields : q \in DefaultsOf(f)
      BY <1>1, <2>2 DEF Left
    <3>2. q = f \/ (f \in FreeForm /\ Inside(q, f))
      BY <3>1 DEF DefaultsOf
    <3>3. q \in Fields => IF q \in FreeForm THEN Defaults[q] = EmptyDict ELSE Parse[q][Defaults[q]] # BadValue
      BY <3>1, DefaultLeaves
    <3> QED BY <1>1, <2>2, <3>2, <3>3
  <2> QED BY <2>1, <2>2
<1>4. IsDocument(c) /\ \A f \in Required : Due(c, f) => Mentions(c, f)
  BY <1>2 DEF Settled, Required
<1> QED BY <1>3, <1>4 DEF Valid, c

Renamed(d, id) == [d EXCEPT ![<<"id">>] = id]

\* Nor does another agent's id make a valid definition invalid.
LEMMA RenamedIsValid ==
  ASSUME NEW d, Valid(d), NEW a \in Agents
  PROVE  Valid(Renamed(d, a))
<1> DEFINE e == Renamed(d, a)
<1>1. DOMAIN e = DOMAIN d /\ \A q \in DOMAIN d : e[q] = IF q = <<"id">> THEN a ELSE d[q]
  BY DEF Renamed
<1> HIDE DEF e
<1>2. a \in Values /\ a # EmptyDict /\ Parse[<<"id">>][a] # BadValue
  BY AgentsAssumption
<1>3. /\ <<"id">> \in Fields \ FreeForm /\ <<"id">> \notin Optional /\ ~IsSubmodel(<<"id">>)
  BY SchemaAssumption DEF IsSubmodel
<1>4. IsDocument(e)
  BY <1>1, <1>2 DEF Valid, IsDocument
<1>5. \A f : Mentions(e, f) <=> Mentions(d, f)
  BY <1>1 DEF Mentions
<1>6. \A o \in Optional : IsDict(e, o) => IsDict(d, o)
  BY <1>1, <1>3 DEF IsDict
<1>7. \A f \in Required : Due(e, f) => Mentions(e, f)
  BY <1>5, <1>6 DEF Valid, Due
<1>8. \A q \in DOMAIN e : \/ q \in Fields \/ \E f \in FreeForm : Inside(q, f)
                          \/ IsSubmodel(q) /\ e[q] = EmptyDict
  BY <1>1, <1>3 DEF Valid
<1>9. \A q \in DOMAIN e \cap Fields : IF q \in FreeForm THEN e[q] = EmptyDict ELSE Parse[q][e[q]] # BadValue
  BY <1>1, <1>2, <1>3 DEF Valid
<1> QED BY <1>4, <1>7, <1>8, <1>9 DEF Valid, e

-----------------------------------------------------------------------------
(* Copies of documents *)

\* What the merge leaves of a path: the overrides' value if they name it;
\* otherwise, unless they name something around it or inside it, what the base
\* had there.  Nothing else comes in, and what goes makes way for a leaf.
LEMMA MergeLeaves ==
  ASSUME NEW d, NEW o, IsDocument(d), IsDocument(o), NEW m, m = DeepMerge(d, o)
  PROVE  /\ \A p \in DOMAIN o : o[p] # EmptyDict => p \in DOMAIN m /\ m[p] = o[p]
         /\ \A q : ~Named(q, o) => /\ q \in DOMAIN m <=> q \in DOMAIN d
                                   /\ q \in DOMAIN d => m[q] = d[q]
         /\ \A q \in DOMAIN m : q \in DOMAIN o \/ (q \in DOMAIN d /\ m[q] = d[q])
         /\ \A q \in DOMAIN d : \/ q \in DOMAIN m
                                \/ \E p \in DOMAIN o \cap DOMAIN m : Inside(q, p) \/ Inside(p, q)
<1> DEFINE put == {p \in DOMAIN o : o[p] # EmptyDict \/ ~IsDict(d, p)}
           kept == {q \in DOMAIN d : \A p \in put : ~Inside(q, p) /\ ~Inside(p, q)}
<1>1. DOMAIN m = kept \cup put /\ \A q \in kept \cup put : m[q] = IF q \in kept THEN d[q] ELSE o[q]
  BY DEF DeepMerge
<1>2. \A p \in put : p \notin kept
  BY InsideItself DEF IsDocument
<1>3. \A p \in DOMAIN o : o[p] # EmptyDict => p \in DOMAIN m /\ m[p] = o[p]
  BY <1>1, <1>2
<1>4. ASSUME NEW q, ~Named(q, o)
      PROVE  (q \in DOMAIN m <=> q \in DOMAIN d) /\ (q \in DOMAIN d => m[q] = d[q])
  <2>1. q \notin put
    BY <1>4, InsideItself DEF Named, IsDocument
  <2>2. q \in kept <=> q \in DOMAIN d
    BY <1>4 DEF Named
  <2> QED BY <1>1, <2>1, <2>2
<1>5. \A q \in DOMAIN d : \/ q \in DOMAIN m
                          \/ \E p \in DOMAIN o \cap DOMAIN m : Inside(q, p) \/ Inside(p, q)
  BY <1>1
<1>6. \A q \in DOMAIN m : q \in DOMAIN o \/ (q \in DOMAIN d /\ m[q] = d[q])
  BY <1>1
<1> QED BY <1>3, <1>4, <1>5, <1>6

\* A default that validation fills into the merge, though the overrides do not
\* name it, belongs to an optional submodel that they have put there.
LEMMA DefaultsBrought ==
  ASSUME NEW d, Settled(d), NEW e, IsDocument(e), DOMAIN e = DOMAIN d,
         \A q \in DOMAIN d : q \notin Optional \/ e[q] = d[q],
         NEW o, IsDocument(o), NEW m, m = DeepMerge(e, o), Valid(m),
         NEW f \in Left(m), NEW q \in DefaultsOf(f), ~Named(q, o)
  PROVE  Brought(q, d, o)
<1>1. f \in Fields /\ f \in Paths /\ Due(m, f) /\ ~Mentions(m, f)
  BY SchemaAssumption DEF Left
<1>2. q \in Paths /\ Inside(q, f)
  BY <1>1, DefaultLeaves
<1>3. /\ \A x \in DOMAIN m : x \in DOMAIN o \/ (x \in DOMAIN e /\ m[x] = e[x])
      /\ \A x \in DOMAIN e : \/ x \in DOMAIN m
                             \/ \E p \in DOMAIN o \cap DOMAIN m : Inside(x, p) \/ Inside(p, x)
  BY MergeLeaves
<1>4. DOMAIN d \subseteq Paths /\ DOMAIN o \subseteq Paths
  BY DEF Settled, IsDocument
<1>5. ~Due(d, f)
  <2> SUFFICES ASSUME Due(d, f) PROVE FALSE
    OBVIOUS
  <2>1. PICK r \in DOMAIN d : Inside(r, f)
    BY <1>1 DEF Settled, Mentions
  <2>2. PICK p \in DOMAIN o \cap DOMAIN m : Inside(r, p) \/ Inside(p, r)
    BY <1>1, <1>3, <2>1 DEF Mentions
  <2>3. ~Inside(p, f)
    BY <1>1, <2>2 DEF Mentions
  <2>4. ~Inside(p, r)
    BY <1>1, <1>4, <2>1, <2>2, <2>3, InsideIsTransitive
  <2>5. Inside(f, p)
    BY <1>1, <1>4, <2>1, <2>2, <2>3, <2>4, AroundTheSame
  <2>6. Inside(q, p)
    BY <1>1, <1>2, <1>4, <2>2, <2>5, InsideIsTransitive
  <2> QED BY <2>2, <2>6 DEF Named
<1>6. PICK x \in Optional : x # f /\ Inside(f, x) /\ ~IsDict(d, x)
  BY <1>5 DEF Due
<1>7. PICK y \in DOMAIN m : Inside(y, x) /\ (y # x \/ m[y] = EmptyDict)
  BY <1>1, <1>6 DEF Due, IsDict
<1>8. y \in DOMAIN o
  <2> SUFFICES ASSUME y \notin DOMAIN o PROVE FALSE
    OBVIOUS
  <2>1. y \in DOMAIN d /\ m[y] = e[y]
    BY <1>3
  <2>2. y = x => d[y] = EmptyDict
    BY <1>6, <1>7, <2>1
  <2> QED BY <1>6, <1>7, <2>1, <2>2 DEF IsDict
<1>9. x \in Paths
  BY SchemaAssumption
<1>10. Inside(q, x)
  BY <1>1, <1>2, <1>6, <1>9, InsideIsTransitive
<1> QED BY <1>6, <1>7, <1>8, <1>10 DEF Brought, Mentions

\* The copy of a definition, as duplicate_agent writes it, differs from it in
\* what was asked and what that brings, and is what was asked there.
LEMMA CopySaysWhatWasAsked ==
  ASSUME NEW d, Settled(d), NEW id \in Values, NEW o, IsDocument(o),
         NEW m, m = DeepMerge(Renamed(d, id), o), Valid(m),
         NEW copy, copy = Canonical(m)
  PROVE  SaysWhatWasAsked(copy, d, o)
<1> DEFINE e == Renamed(d, id)
<1>1. DOMAIN e = DOMAIN d /\ \A q \in DOMAIN d : q # <<"id">> => e[q] = d[q]
  BY DEF Renamed
<1>2. IsDocument(e)
  BY DEF Renamed, Settled, IsDocument
<1>3. m = DeepMerge(e, o)
  OBVIOUS
<1> HIDE DEF e
<1>4. /\ \A p \in DOMAIN o : o[p] # EmptyDict => p \in DOMAIN m /\ m[p] = o[p]
      /\ \A q : ~Named(q, o) => /\ q \in DOMAIN m <=> q \in DOMAIN e
                                /\ q \in DOMAIN e => m[q] = e[q]
  BY <1>2, <1>3, MergeLeaves
<1>5. /\ \A q \in DOMAIN m : IsSubmodel(q) => m[q] = EmptyDict
      /\ \A q \in Given(m) : q \in DOMAIN copy /\ copy[q] = Read(q, m[q])
      /\ \A q \in DOMAIN copy \ Given(m) : copy[q] = Defaults[q] /\ \E f \in Left(m) : q \in DefaultsOf(f)
  BY CanonicalLeaves
<1>6. \A p \in DOMAIN o : o[p] # EmptyDict => copy[p] = Read(p, o[p])
  BY <1>4, <1>5 DEF Given
<1>7. ASSUME NEW q, q # <<"id">>, ~Named(q, o), q \in DOMAIN d
      PROVE  q \in DOMAIN copy /\ copy[q] = d[q]
  <2>1. ~IsSubmodel(q) /\ Read(q, d[q]) = d[q]
    BY <1>7 DEF Settled
  <2>2. q \in DOMAIN m /\ m[q] = d[q]
    BY <1>1, <1>4, <1>7
  <2> QED BY <1>5, <2>1, <2>2 DEF Given
<1>8. ASSUME NEW q \in DOMAIN copy, ~Named(q, o), q \notin DOMAIN d
      PROVE  copy[q] = Defaults[q] /\ Brought(q, d, o)
  <2>1. q \notin Given(m)
    BY <1>1, <1>4, <1>8 DEF Given
  <2>2. PICK f \in Left(m) : q \in DefaultsOf(f)
    BY <1>5, <2>1
  <2>3. \A x \in DOMAIN d : x \notin Optional \/ e[x] = d[x]
    BY <1>1, SchemaAssumption
  <2>4. Brought(q, d, o)
    BY <1>1, <1>2, <1>3, <1>8, <2>2, <2>3, DefaultsBrought
  <2> QED BY <1>5, <2>1, <2>4
<1>9. ASSUME NEW q, q \in Touched(DeepDiff(d, copy)), q # <<"id">>, ~Named(q, o)
      PROVE  q \in DeepDiff(d, copy).added /\ copy[q] = Defaults[q] /\ Brought(q, d, o)
  <2> DEFINE from == Flatten(d)
             to == Flatten(copy)
  <2>1. /\ DOMAIN from = {p \in DOMAIN d : d[p] # EmptyDict} /\ \A p \in DOMAIN from : from[p] = d[p]
        /\ DOMAIN to = {p \in DOMAIN copy : copy[p] # EmptyDict} /\ \A p \in DOMAIN to : to[p] = copy[p]
    BY DEF Flatten
  <2>2. /\ \/ q \in DOMAIN to \ DOMAIN from
           \/ q \in DOMAIN to \cap DOMAIN from /\ from[q] # to[q]
           \/ q \in DOMAIN from \ DOMAIN to
        /\ q \in DOMAIN to \ DOMAIN from => q \in DeepDiff(d, copy).added
    BY <1>9 DEF Touched, DeepDiff
  <2> HIDE DEF from, to
  <2>3. q \notin DOMAIN d
    BY <1>7, <1>9, <2>1, <2>2
  <2> QED BY <1>8, <1>9, <2>1, <2>2, <2>3
<1> QED BY <1>6, <1>9 DEF SaysWhatWasAsked

-----------------------------------------------------------------------------
(* Types, and where an operation is *)

\* Those that have not begun to work on an agent: their `agent` is Nobody.
Away == {"idle", "readSource", "findAgent", "queueRun"}

Sources == [agent : Agents \cup {Nobody}, version : 0..MaxVersions]
Requests == [target : Agents, overrides : OverrideSet] \cup {NoCopy}

TypedTables ==
  /\ exists \in SUBSET Agents /\ born \in SUBSET exists
  /\ active \in [Agents -> 0..MaxVersions]
  /\ status \in [Agents -> [Numbers -> {"none", "draft", "active", "archived"}]]
  /\ DOMAIN definition = Agents /\ \A a \in Agents : DOMAIN definition[a] = Numbers
  /\ DOMAIN copied = Agents /\ \A a \in Agents : DOMAIN copied[a] = Numbers
TypedPlaces ==
  /\ pc \in [Sessions -> PC]
  /\ agent \in [Sessions -> Agents \cup {Nobody}]
  /\ \A s \in Sessions : agent[s] = Nobody <=> pc[s] \in Away
TypedLocals ==
  /\ version \in [Sessions -> 0..MaxVersions]
  /\ sawActive \in [Sessions -> 0..MaxVersions]
  /\ DOMAIN doc = Sessions
  /\ source \in [Sessions -> Sources]
TypedRequests ==
  /\ copying \in [Sessions -> Requests]
  /\ \A s \in Sessions : pc[s] \in {"readSource", "findAgent"} => copying[s] # NoCopy
TypedHistory == alone \in SUBSET Sessions /\ tainted \in SUBSET Agents
Typed == TypedTables /\ TypedPlaces /\ TypedLocals /\ TypedRequests /\ TypedHistory

\* Numbers do not run out: whoever is creating a version finds one, above all
\* those that were taken when it looked; and only agents that exist have any.
Numbered ==
  /\ \A a \in Agents : High(a) + Cardinality(Creating(a)) <= MaxVersions
  /\ \A s \in Sessions : pc[s] \in {"insertDraft", "insertActive"} =>
       version[s] \in 1..(High(agent[s]) + 1)
  /\ \A a \in Agents \ exists : Rows(a) = {} /\ Creating(a) = {}

LEMMA InitTyped == Init => Typed /\ Numbered
<1> SUFFICES ASSUME Init PROVE Typed /\ Numbered
  OBVIOUS
<1>1. Typed
  <2>1. NoSource \in Sources /\ "idle" \in PC \cap Away /\ 0 \in 0..MaxVersions
    BY BoundAssumption DEF NoSource, Sources, PC, Away
  <2>2. /\ source \in [Sessions -> Sources]
        /\ copying \in [Sessions -> Requests]
    BY <2>1 DEF Init, Requests
  <2>3. /\ pc \in [Sessions -> PC] /\ agent \in [Sessions -> Agents \cup {Nobody}]
        /\ \A s \in Sessions : agent[s] = Nobody <=> pc[s] \in Away
        /\ \A s \in Sessions : pc[s] \notin {"readSource", "findAgent"}
    BY <2>1 DEF Init
  <2>4. status \in [Agents -> [Numbers -> {"none", "draft", "active", "archived"}]]
    BY DEF Init
  <2>5. /\ DOMAIN definition = Agents /\ \A a \in Agents : DOMAIN definition[a] = Numbers
        /\ DOMAIN copied = Agents /\ \A a \in Agents : DOMAIN copied[a] = Numbers
        /\ DOMAIN doc = Sessions
    BY DEF Init
  <2>6. /\ exists \in SUBSET Agents /\ born \in SUBSET exists /\ alone \in SUBSET Sessions /\ tainted \in SUBSET Agents
    BY DEF Init
  <2>7. /\ active \in [Agents -> 0..MaxVersions]
        /\ version \in [Sessions -> 0..MaxVersions] /\ sawActive \in [Sessions -> 0..MaxVersions]
    BY <2>1 DEF Init
  <2> QED BY <2>1, <2>2, <2>3, <2>4, <2>5, <2>6, <2>7 DEF Typed, TypedTables, TypedPlaces, TypedLocals, TypedRequests, TypedHistory
<1>2. \A a \in Agents : Rows(a) = {} /\ Creating(a) = {}
  BY NobodyAssumption DEF Init, Rows, Creating, InFlight
<1>3. \A a \in Agents : High(a) = 0
  BY <1>2, HighIsHighest
<1>4. \A a \in Agents : Cardinality(Creating(a)) = 0
  BY <1>2, FS_EmptySet
<1>5. \A s \in Sessions : pc[s] = "idle"
  BY DEF Init
<1> QED BY <1>1, <1>2, <1>3, <1>4, <1>5, BoundAssumption DEF Numbered

\* Whoever is creating a version has room for it.
LEMMA RoomForOne ==
  ASSUME Typed, Numbered, NEW s \in Sessions, pc[s] \in CreatingPC
  PROVE  High(agent[s]) + 1 \in Numbers /\ agent[s] \in exists
<1>1. agent[s] \in Agents
  BY DEF Typed, TypedPlaces, Away, CreatingPC
<1>2. s \in Creating(agent[s]) /\ Creating(agent[s]) \in SUBSET Sessions
  BY DEF Creating, InFlight, CreatingPC
<1>3. Cardinality(Creating(agent[s])) \in Nat /\ Cardinality(Creating(agent[s])) # 0
  BY <1>2, SessionsAssumption, FS_Subset, FS_CardinalityType, FS_EmptySet
<1>4. High(agent[s]) + Cardinality(Creating(agent[s])) <= MaxVersions
  BY <1>1 DEF Numbered
<1> QED BY <1>1, <1>2, <1>3, <1>4, HighIsHighest, BoundAssumption DEF Numbered, Numbers

LEMMA EndKeepsTypes ==
  ASSUME Typed, NEW s \in Sessions, End(s)
  PROVE  /\ TypedPlaces' /\ TypedLocals' /\ TypedRequests'
         /\ alone' \in SUBSET Sessions
<1>1. NoSource \in Sources /\ NoCopy \in Requests /\ "idle" \in PC \cap Away /\ 0 \in 0..MaxVersions
  BY BoundAssumption DEF NoSource, Sources, Requests, PC, Away
<1>2. TypedPlaces'
  BY <1>1 DEF End, Typed, TypedPlaces
<1>3. TypedLocals'
  <2>1. version' \in [Sessions -> 0..MaxVersions] /\ sawActive' \in [Sessions -> 0..MaxVersions]
    BY <1>1 DEF End, Typed, TypedLocals
  <2>2. source' \in [Sessions -> Sources]
    BY <1>1 DEF End, Typed, TypedLocals
  <2> QED BY <2>1, <2>2 DEF End, Typed, TypedLocals
<1>4. TypedRequests'
  BY <1>1 DEF End, Typed, TypedPlaces, TypedRequests
<1> QED BY <1>2, <1>3, <1>4 DEF End, Typed, TypedHistory

LEMMA NewSource ==
  ASSUME Typed, NEW s \in Sessions, NEW a \in Agents
  PROVE  [source EXCEPT ![s] = [agent |-> a, version |-> active[a]]] \in [Sessions -> Sources]
<1>1. [agent |-> a, version |-> active[a]] \in Sources
  BY DEF Typed, TypedTables, Sources
<1> QED BY <1>1 DEF Typed, TypedLocals

LEMMA TargetIsAgent ==
  ASSUME Typed, NEW s \in Sessions, copying[s] # NoCopy
  PROVE  copying[s].target \in Agents
BY DEF Typed, TypedRequests, Requests

LEMMA HalfwayAgent ==
  ASSUME Typed, NEW s \in Sessions, pc[s] \in Halfway
  PROVE  agent[s] \in Agents
BY DEF Typed, TypedPlaces, Halfway, Away

LEMMA WriteKeepsTables ==
  ASSUME Typed, NEW s \in Sessions, NEW st \in {"draft", "active"}, Write(s, st), UNCHANGED agentVars
  PROVE  TypedTables'
<1>1. status' \in [Agents -> [Numbers -> {"none", "draft", "active", "archived"}]]
  BY DEF Write, Typed, TypedTables
<1>2. DOMAIN definition' = Agents /\ \A a \in Agents : DOMAIN definition'[a] = Numbers
  BY DEF Write, Typed, TypedTables
<1>3. DOMAIN copied' = Agents /\ \A a \in Agents : DOMAIN copied'[a] = Numbers
  BY DEF Write, Typed, TypedTables
<1> QED BY <1>1, <1>2, <1>3 DEF agentVars, Typed, TypedTables

LEMMA TypedStep ==
  ASSUME Typed, Numbered, [Next]_vars
  PROVE  Typed'
<1> USE BoundAssumption, NobodyAssumption DEF Enter, Begin, Goto, agentVars, rowVars, clientVars, localVars
<1>1. ASSUME NEW s \in Sessions, NEW a \in Agents, CreateAgent(s, a) PROVE Typed'
  <2> USE <1>1 DEF CreateAgent
  <2>1. TypedTables' BY DEF Typed, TypedTables, TypedPlaces, Away, Write, SetStatus
  <2>2. TypedPlaces' BY DEF Typed, TypedPlaces, Away, PC, TypedRequests, Requests
  <2>3. TypedLocals' BY DEF Typed, TypedLocals
  <2>4. TypedRequests' BY DEF Typed, TypedPlaces, TypedRequests
  <2>5. TypedHistory' BY DEF Typed, TypedPlaces, TypedHistory
  <2> QED BY <2>1, <2>2, <2>3, <2>4, <2>5 DEF Typed
<1>2. ASSUME NEW s \in Sessions, NEW a \in Agents, CreateVersion(s, a) PROVE Typed'
  <2> USE <1>2 DEF CreateVersion
  <2>1. TypedTables' BY DEF Typed, TypedTables, TypedPlaces, Away, Write, SetStatus
  <2>2. TypedPlaces' BY DEF Typed, TypedPlaces, Away, PC, TypedRequests, Requests
  <2>3. TypedLocals' BY DEF Typed, TypedLocals
  <2>4. TypedRequests' BY DEF Typed, TypedPlaces, TypedRequests
  <2>5. TypedHistory' BY DEF Typed, TypedPlaces, TypedHistory
  <2> QED BY <2>1, <2>2, <2>3, <2>4, <2>5 DEF Typed
<1>3. ASSUME NEW s \in Sessions, NEW a \in Agents, Promote(s, a) PROVE Typed'
  <2> USE <1>3 DEF Promote
  <2>1. TypedTables' BY DEF Typed, TypedTables, TypedPlaces, Away, Write, SetStatus
  <2>2. TypedPlaces' BY DEF Typed, TypedPlaces, Away, PC, TypedRequests, Requests
  <2>3. TypedLocals' BY DEF Typed, TypedLocals, Rows, Numbers
  <2>4. TypedRequests' BY DEF Typed, TypedPlaces, TypedRequests
  <2>5. TypedHistory' BY DEF Typed, TypedPlaces, TypedHistory
  <2> QED BY <2>1, <2>2, <2>3, <2>4, <2>5 DEF Typed
<1>4. ASSUME NEW s \in Sessions, NEW a \in Agents, Archive(s, a) PROVE Typed'
  <2> USE <1>4 DEF Archive
  <2>1. TypedTables' BY DEF Typed, TypedTables, TypedPlaces, Away, Write, SetStatus
  <2>2. TypedPlaces' BY DEF Typed, TypedPlaces, Away, PC, TypedRequests, Requests
  <2>3. TypedLocals' BY DEF Typed, TypedLocals, Rows, Numbers
  <2>4. TypedRequests' BY DEF Typed, TypedPlaces, TypedRequests
  <2>5. TypedHistory' BY DEF Typed, TypedPlaces, TypedHistory
  <2> QED BY <2>1, <2>2, <2>3, <2>4, <2>5 DEF Typed
<1>5. ASSUME NEW s \in Sessions, NEW a \in Agents, ChooseVersion(s, a) PROVE Typed'
  <2> USE <1>5 DEF ChooseVersion, ReadPointer
  <2>1. TypedTables' BY DEF Typed, TypedTables, TypedPlaces, Away, Write, SetStatus
  <2>2. TypedPlaces' BY DEF Typed, TypedPlaces, Away, PC, TypedRequests, Requests
  <2>3. TypedLocals' BY NewSource DEF Typed, TypedLocals
  <2>4. TypedRequests' BY DEF Typed, TypedPlaces, TypedRequests
  <2>5. TypedHistory' BY DEF Typed, TypedPlaces, TypedHistory
  <2> QED BY <2>1, <2>2, <2>3, <2>4, <2>5 DEF Typed
<1>6. ASSUME NEW s \in Sessions, NEW a \in Agents, Duplicate(s, a) PROVE Typed'
  <2> USE <1>6 DEF Duplicate, ReadPointer
  <2>1. TypedTables' BY DEF Typed, TypedTables, TypedPlaces, Away, Write, SetStatus
  <2>2. TypedPlaces' BY DEF Typed, TypedPlaces, Away, PC, TypedRequests, Requests
  <2>3. TypedLocals' BY NewSource DEF Typed, TypedLocals
  <2>4. TypedRequests' BY DEF Typed, TypedRequests, Requests, NoCopy
  <2>5. TypedHistory' BY DEF Typed, TypedPlaces, TypedHistory
  <2> QED BY <2>1, <2>2, <2>3, <2>4, <2>5 DEF Typed
<1>7. ASSUME NEW s \in Sessions, InsertAgent(s) PROVE Typed'
  <2> USE <1>7 DEF InsertAgent
  <2>1. TypedTables' BY DEF Typed, TypedTables, TypedPlaces, Away, Write, SetStatus
  <2>2. TypedPlaces' BY EndKeepsTypes DEF Typed, TypedPlaces, Away, PC, TypedRequests, Requests
  <2>3. TypedLocals' BY EndKeepsTypes DEF Typed, TypedLocals
  <2>4. TypedRequests' BY EndKeepsTypes DEF Typed, TypedPlaces, TypedRequests
  <2>5. TypedHistory' BY EndKeepsTypes DEF Typed, TypedHistory
  <2> QED BY <2>1, <2>2, <2>3, <2>4, <2>5 DEF Typed
<1>8. ASSUME NEW s \in Sessions, SelectMax(s) PROVE Typed'
  <2> USE <1>8 DEF SelectMax
  <2>1. TypedTables' BY DEF Typed, TypedTables, TypedPlaces, Away, Write, SetStatus
  <2>2. TypedPlaces' BY DEF Typed, TypedPlaces, Away, PC, TypedRequests, Requests
  <2>3. TypedLocals' BY RoomForOne DEF Typed, TypedLocals, High, CreatingPC, Numbers
  <2>4. TypedRequests' BY DEF Typed, TypedPlaces, TypedRequests
  <2>5. TypedHistory' BY DEF Typed, TypedPlaces, TypedHistory
  <2> QED BY <2>1, <2>2, <2>3, <2>4, <2>5 DEF Typed
<1>9. ASSUME NEW s \in Sessions, InsertDraft(s) PROVE Typed'
  <2> USE <1>9 DEF InsertDraft
  <2>1. TypedTables' BY WriteKeepsTables DEF Typed, TypedTables
  <2>2. TypedPlaces' BY EndKeepsTypes DEF Typed, TypedPlaces, Away, PC, TypedRequests, Requests
  <2>3. TypedLocals' BY EndKeepsTypes DEF Typed, TypedLocals
  <2>4. TypedRequests' BY EndKeepsTypes DEF Typed, TypedPlaces, TypedRequests
  <2>5. TypedHistory' BY EndKeepsTypes DEF Typed, TypedHistory
  <2> QED BY <2>1, <2>2, <2>3, <2>4, <2>5 DEF Typed
<1>10. ASSUME NEW s \in Sessions, InsertActive(s) PROVE Typed'
  <2> USE <1>10 DEF InsertActive
  <2>1. TypedTables' BY WriteKeepsTables DEF Typed, TypedTables
  <2>2. TypedPlaces' BY EndKeepsTypes DEF Typed, TypedPlaces, Away, PC, TypedRequests, Requests
  <2>3. TypedLocals' BY EndKeepsTypes DEF Typed, TypedLocals
  <2>4. TypedRequests' BY EndKeepsTypes DEF Typed, TypedPlaces, TypedRequests
  <2>5. TypedHistory' BY EndKeepsTypes DEF Typed, TypedHistory
  <2> QED BY <2>1, <2>2, <2>3, <2>4, <2>5 DEF Typed
<1>11. ASSUME NEW s \in Sessions, ArchiveOthers(s) PROVE Typed'
  <2> USE <1>11 DEF ArchiveOthers
  <2>1. TypedTables' BY DEF Typed, TypedTables, TypedPlaces, Away, Write, SetStatus
  <2>2. TypedPlaces' BY DEF Typed, TypedPlaces, Away, PC, TypedRequests, Requests
  <2>3. TypedLocals' BY DEF Typed, TypedLocals
  <2>4. TypedRequests' BY DEF Typed, TypedPlaces, TypedRequests
  <2>5. TypedHistory' BY DEF Typed, TypedPlaces, TypedHistory
  <2> QED BY <2>1, <2>2, <2>3, <2>4, <2>5 DEF Typed
<1>12. ASSUME NEW s \in Sessions, SetActive(s) PROVE Typed'
  <2> USE <1>12 DEF SetActive
  <2>1. TypedTables' BY DEF Typed, TypedTables, TypedPlaces, Away, Write, SetStatus
  <2>2. TypedPlaces' BY DEF Typed, TypedPlaces, Away, PC, TypedRequests, Requests
  <2>3. TypedLocals' BY DEF Typed, TypedLocals
  <2>4. TypedRequests' BY DEF Typed, TypedPlaces, TypedRequests
  <2>5. TypedHistory' BY DEF Typed, TypedPlaces, TypedHistory
  <2> QED BY <2>1, <2>2, <2>3, <2>4, <2>5 DEF Typed
<1>13. ASSUME NEW s \in Sessions, SetPointer(s) PROVE Typed'
  <2> USE <1>13 DEF SetPointer
  <2>1. TypedTables' BY DEF Typed, TypedTables, TypedLocals
  <2>2. TypedPlaces' BY EndKeepsTypes DEF Typed, TypedPlaces, Away, PC, TypedRequests, Requests
  <2>3. TypedLocals' BY EndKeepsTypes DEF Typed, TypedLocals
  <2>4. TypedRequests' BY EndKeepsTypes DEF Typed, TypedPlaces, TypedRequests
  <2>5. TypedHistory' BY EndKeepsTypes DEF Typed, TypedHistory
  <2> QED BY <2>1, <2>2, <2>3, <2>4, <2>5 DEF Typed
<1>14. ASSUME NEW s \in Sessions, ReadAgent(s) PROVE Typed'
  <2> USE <1>14 DEF ReadAgent
  <2>1. TypedTables' BY DEF Typed, TypedTables, TypedPlaces, Away, Write, SetStatus
  <2>2. TypedPlaces' BY DEF Typed, TypedPlaces, Away, PC, TypedRequests, Requests
  <2>3. TypedLocals' BY DEF Typed, TypedLocals, TypedTables, TypedPlaces, Away
  <2>4. TypedRequests' BY DEF Typed, TypedPlaces, TypedRequests
  <2>5. TypedHistory' BY DEF Typed, TypedPlaces, TypedHistory
  <2> QED BY <2>1, <2>2, <2>3, <2>4, <2>5 DEF Typed
<1>15. ASSUME NEW s \in Sessions, SetArchived(s) PROVE Typed'
  <2> USE <1>15 DEF SetArchived
  <2>1. TypedTables' BY DEF Typed, TypedTables, TypedPlaces, Away, Write, SetStatus
  <2>2. TypedPlaces' BY EndKeepsTypes DEF Typed, TypedPlaces, Away, PC, TypedRequests, Requests
  <2>3. TypedLocals' BY EndKeepsTypes DEF Typed, TypedLocals
  <2>4. TypedRequests' BY EndKeepsTypes DEF Typed, TypedPlaces, TypedRequests
  <2>5. TypedHistory' BY EndKeepsTypes DEF Typed, TypedHistory
  <2> QED BY <2>1, <2>2, <2>3, <2>4, <2>5 DEF Typed
<1>16. ASSUME NEW s \in Sessions, ClearPointer(s) PROVE Typed'
  <2> USE <1>16 DEF ClearPointer
  <2>1. TypedTables' BY DEF Typed, TypedTables, TypedPlaces, Away, Write, SetStatus
  <2>2. TypedPlaces' BY EndKeepsTypes DEF Typed, TypedPlaces, Away, PC, TypedRequests, Requests
  <2>3. TypedLocals' BY EndKeepsTypes DEF Typed, TypedLocals
  <2>4. TypedRequests' BY EndKeepsTypes DEF Typed, TypedPlaces, TypedRequests
  <2>5. TypedHistory' BY EndKeepsTypes DEF Typed, TypedHistory
  <2> QED BY <2>1, <2>2, <2>3, <2>4, <2>5 DEF Typed
<1>17. ASSUME NEW s \in Sessions, QueueRun(s) PROVE Typed'
  <2> USE <1>17 DEF QueueRun
  <2>1. TypedTables' BY DEF Typed, TypedTables, TypedPlaces, Away, Write, SetStatus
  <2>2. TypedPlaces' BY EndKeepsTypes DEF Typed, TypedPlaces, Away, PC, TypedRequests, Requests
  <2>3. TypedLocals' BY EndKeepsTypes DEF Typed, TypedLocals
  <2>4. TypedRequests' BY EndKeepsTypes DEF Typed, TypedPlaces, TypedRequests
  <2>5. TypedHistory' BY EndKeepsTypes DEF Typed, TypedHistory
  <2> QED BY <2>1, <2>2, <2>3, <2>4, <2>5 DEF Typed
<1>18. ASSUME NEW s \in Sessions, ReadSource(s) PROVE Typed'
  <2> USE <1>18 DEF ReadSource
  <2>1. TypedTables' BY DEF Typed, TypedTables, TypedPlaces, Away, Write, SetStatus
  <2>2. TypedPlaces' BY DEF Typed, TypedPlaces, Away, PC, TypedRequests, Requests
  <2>3. TypedLocals' BY DEF Typed, TypedLocals
  <2>4. TypedRequests' BY DEF Typed, TypedPlaces, TypedRequests
  <2>5. TypedHistory' BY DEF Typed, TypedPlaces, TypedHistory
  <2> QED BY <2>1, <2>2, <2>3, <2>4, <2>5 DEF Typed
<1>19. ASSUME NEW s \in Sessions, FindAgent(s) PROVE Typed'
  <2> USE <1>19 DEF FindAgent
  <2>1. TypedTables' BY DEF Typed, TypedTables, TypedPlaces, Away, Write, SetStatus
  <2>2. TypedPlaces' BY EndKeepsTypes DEF Typed, TypedPlaces, Away, PC, TypedRequests, Requests
  <2>3. TypedLocals' BY EndKeepsTypes DEF Typed, TypedLocals
  <2>4. TypedRequests' BY EndKeepsTypes DEF Typed, TypedPlaces, TypedRequests
  <2>5. TypedHistory' BY EndKeepsTypes, TargetIsAgent DEF Typed, TypedHistory, TypedRequests
  <2> QED BY <2>1, <2>2, <2>3, <2>4, <2>5 DEF Typed
<1>20. ASSUME NEW s \in Sessions, Die(s) PROVE Typed'
  <2> USE <1>20 DEF Die
  <2>1. TypedTables' BY DEF Typed, TypedTables, TypedPlaces, Away, Write, SetStatus
  <2>2. TypedPlaces' BY EndKeepsTypes DEF Typed, TypedPlaces, Away, PC, TypedRequests, Requests
  <2>3. TypedLocals' BY EndKeepsTypes DEF Typed, TypedLocals
  <2>4. TypedRequests' BY EndKeepsTypes DEF Typed, TypedPlaces, TypedRequests
  <2>5. TypedHistory' BY EndKeepsTypes, HalfwayAgent DEF Typed, TypedHistory
  <2> QED BY <2>1, <2>2, <2>3, <2>4, <2>5 DEF Typed
<1>21. CASE UNCHANGED vars
  BY <1>21 DEF vars, Typed, TypedTables, TypedPlaces, TypedLocals, TypedRequests, TypedHistory
<1> QED BY <1>1, <1>2, <1>3, <1>4, <1>5, <1>6, <1>7, <1>8, <1>9, <1>10, <1>11, <1>12, <1>13, <1>14, <1>15, <1>16, <1>17, <1>18, <1>19, <1>20, <1>21 DEF Next, Step

-----------------------------------------------------------------------------
(* What a step leaves alone *)

\* A session's step changes nobody else's operation.
Still(s) ==
  \A x \in Sessions \ {s} :
    /\ pc'[x] = pc[x] /\ agent'[x] = agent[x] /\ version'[x] = version[x] /\ sawActive'[x] = sawActive[x]
    /\ doc'[x] = doc[x] /\ source'[x] = source[x] /\ copying'[x] = copying[x]

LEMMA OthersStay ==
  ASSUME Typed, NEW s \in Sessions, Step(s)
  PROVE  Still(s)
<1> USE DEF Enter, Begin, Goto, End, ReadPointer, clientVars, localVars, Still, Typed, TypedPlaces, TypedLocals, TypedRequests
<1>1. ASSUME NEW a \in Agents, CreateAgent(s, a) PROVE Still(s)
  BY <1>1 DEF CreateAgent
<1>2. ASSUME NEW a \in Agents, CreateVersion(s, a) PROVE Still(s)
  BY <1>2 DEF CreateVersion
<1>3. ASSUME NEW a \in Agents, Promote(s, a) PROVE Still(s)
  BY <1>3 DEF Promote
<1>4. ASSUME NEW a \in Agents, Archive(s, a) PROVE Still(s)
  BY <1>4 DEF Archive
<1>5. ASSUME NEW a \in Agents, ChooseVersion(s, a) PROVE Still(s)
  BY <1>5 DEF ChooseVersion
<1>6. ASSUME NEW a \in Agents, Duplicate(s, a) PROVE Still(s)
  BY <1>6 DEF Duplicate
<1>7. CASE InsertAgent(s)
  BY <1>7 DEF InsertAgent
<1>8. CASE SelectMax(s)
  BY <1>8 DEF SelectMax
<1>9. CASE InsertDraft(s)
  BY <1>9 DEF InsertDraft
<1>10. CASE InsertActive(s)
  BY <1>10 DEF InsertActive
<1>11. CASE ArchiveOthers(s)
  BY <1>11 DEF ArchiveOthers
<1>12. CASE SetActive(s)
  BY <1>12 DEF SetActive
<1>13. CASE SetPointer(s)
  BY <1>13 DEF SetPointer
<1>14. CASE ReadAgent(s)
  BY <1>14 DEF ReadAgent
<1>15. CASE SetArchived(s)
  BY <1>15 DEF SetArchived
<1>16. CASE ClearPointer(s)
  BY <1>16 DEF ClearPointer
<1>17. CASE QueueRun(s)
  BY <1>17 DEF QueueRun
<1>18. CASE ReadSource(s)
  BY <1>18 DEF ReadSource
<1>19. CASE FindAgent(s)
  BY <1>19 DEF FindAgent
<1>20. CASE Die(s)
  BY <1>20 DEF Die
<1> QED BY <1>1, <1>2, <1>3, <1>4, <1>5, <1>6, <1>7, <1>8, <1>9, <1>10, <1>11, <1>12, <1>13, <1>14, <1>15, <1>16, <1>17, <1>18, <1>19, <1>20 DEF Step

\* Rows are added at a number that was free, and stay.
RowsGrow(s) ==
  \A a \in Agents :
    \/ Rows(a)' = Rows(a)
    \/ /\ a = agent[s] /\ pc[s] \in {"insertDraft", "insertActive"}
       /\ version[s] \notin Rows(a) /\ Rows(a)' = Rows(a) \cup {version[s]}

\* Whoever updates the status of a version has found its row.
RowsFound ==
  \A s \in Sessions : 
    pc[s] \in {"archiveOthers", "setActive", "readAgent", "setArchived", "clearPointer"} =>
      version[s] \in Rows(agent[s])

LEMMA NumberIsFree ==
  ASSUME Typed, Numbered, NEW s \in Sessions, pc[s] \in {"insertDraft", "insertActive"}
  PROVE  version[s] \in Numbers /\ version[s] <= High(agent[s]) + 1 /\ agent[s] \in exists
<1>1. version[s] \in 1..(High(agent[s]) + 1)
  BY DEF Numbered
<1> QED BY <1>1, RoomForOne, HighIsHighest, BoundAssumption DEF CreatingPC, Numbers

LEMMA RowsOnlyGrow ==
  ASSUME Typed, Numbered, RowsFound, NEW s \in Sessions, Step(s)
  PROVE  RowsGrow(s) /\ exists \subseteq exists'
<1> DEFINE Goal == RowsGrow(s) /\ exists \subseteq exists'
<1> USE DEF Enter, Begin, Goto, ReadPointer, rowVars, agentVars, RowsGrow, Rows
<1>1. ASSUME NEW a \in Agents, CreateAgent(s, a) PROVE Goal
  BY <1>1 DEF CreateAgent
<1>2. ASSUME NEW a \in Agents, CreateVersion(s, a) PROVE Goal
  BY <1>2 DEF CreateVersion
<1>3. ASSUME NEW a \in Agents, Promote(s, a) PROVE Goal
  BY <1>3 DEF Promote
<1>4. ASSUME NEW a \in Agents, Archive(s, a) PROVE Goal
  BY <1>4 DEF Archive
<1>5. ASSUME NEW a \in Agents, ChooseVersion(s, a) PROVE Goal
  BY <1>5 DEF ChooseVersion
<1>6. ASSUME NEW a \in Agents, Duplicate(s, a) PROVE Goal
  BY <1>6 DEF Duplicate
<1>7. CASE InsertAgent(s)
  BY <1>7 DEF InsertAgent
<1>8. CASE SelectMax(s)
  BY <1>8 DEF SelectMax
<1>9. CASE InsertDraft(s)
  BY <1>9, NumberIsFree DEF InsertDraft, Write, Typed, TypedTables, TypedPlaces
<1>10. CASE InsertActive(s)
  BY <1>10, NumberIsFree DEF InsertActive, Write, Typed, TypedTables, TypedPlaces
<1>11. CASE ArchiveOthers(s)
  BY <1>11 DEF ArchiveOthers, Others, Active, Typed, TypedTables, TypedPlaces
<1>12. CASE SetActive(s)
  BY <1>12 DEF SetActive, SetStatus, RowsFound, Typed, TypedTables, TypedPlaces, Away
<1>13. CASE SetPointer(s)
  BY <1>13 DEF SetPointer
<1>14. CASE ReadAgent(s)
  BY <1>14 DEF ReadAgent
<1>15. CASE SetArchived(s)
  BY <1>15 DEF SetArchived, SetStatus, RowsFound, Typed, TypedTables, TypedPlaces, Away
<1>16. CASE ClearPointer(s)
  BY <1>16 DEF ClearPointer
<1>17. CASE QueueRun(s)
  BY <1>17 DEF QueueRun
<1>18. CASE ReadSource(s)
  BY <1>18 DEF ReadSource
<1>19. CASE FindAgent(s)
  BY <1>19 DEF FindAgent
<1>20. CASE Die(s)
  BY <1>20 DEF Die
<1> QED BY <1>1, <1>2, <1>3, <1>4, <1>5, <1>6, <1>7, <1>8, <1>9, <1>10, <1>11, <1>12, <1>13, <1>14, <1>15, <1>16, <1>17, <1>18, <1>19, <1>20 DEF Step

-----------------------------------------------------------------------------
(* Numbers do not run out *)

LEMMA HighGrows ==
  ASSUME Typed, Numbered, NEW s \in Sessions, RowsGrow(s), NEW a \in Agents
  PROVE  /\ High(a)' \in High(a) .. (High(a) + 1)
         /\ High(a)' # High(a) => a = agent[s] /\ pc[s] \in {"insertDraft", "insertActive"}
<1>1. CASE Rows(a)' = Rows(a)
  <2>1. High(a)' = High(a)
    BY <1>1 DEF High
  <2> QED BY <2>1, HighIsHighest, BoundAssumption
<1>2. CASE Rows(a)' # Rows(a)
  <2>1. /\ a = agent[s] /\ pc[s] \in {"insertDraft", "insertActive"}
        /\ Rows(a)' = Rows(a) \cup {version[s]}
    BY <1>2 DEF RowsGrow
  <2>2. version[s] \in Numbers /\ version[s] <= High(a) + 1
    BY <2>1, NumberIsFree
  <2>3. Rows(a) \in SUBSET Numbers /\ Rows(a)' \in SUBSET Numbers
    BY <2>1, <2>2 DEF Rows
  <2>4. /\ High(a) \in 0..MaxVersions /\ High(a)' \in 0..MaxVersions
        /\ High(a) = 0 \/ High(a) \in Rows(a)
        /\ High(a)' = 0 \/ High(a)' \in Rows(a)'
        /\ \A n \in Rows(a) : n <= High(a)
        /\ \A n \in Rows(a)' : n <= High(a)'
    BY <2>3, HighestOf DEF High
  <2> QED BY <2>1, <2>2, <2>4, BoundAssumption DEF Numbers
<1> QED BY <1>1, <1>2

\* One begins to create a version at selectMax, on an agent that exists and
\* has room for one more; and gets a number from the rows there are.
BeginsToCreate(s) ==
  pc'[s] \in CreatingPC =>
    /\ agent'[s] \in exists'
    /\ status' = status
    /\ \/ pc[s] = "selectMax" /\ agent'[s] = agent[s] /\ version'[s] = High(agent[s]) + 1
       \/ /\ pc'[s] = "selectMax" /\ pc[s] \notin CreatingPC
          /\ agent'[s] \notin exists \/ Taken(agent'[s]) < MaxVersions

LEMMA CreationsBegin ==
  ASSUME Typed, Numbered, NEW s \in Sessions, Step(s)
  PROVE  BeginsToCreate(s)
<1> USE DEF Enter, Begin, Goto, End, ReadPointer, rowVars, agentVars, BeginsToCreate, CreatingPC, Typed, TypedPlaces
<1>1. ASSUME NEW a \in Agents, CreateAgent(s, a) PROVE BeginsToCreate(s)
  BY <1>1 DEF CreateAgent
<1>2. ASSUME NEW a \in Agents, CreateVersion(s, a) PROVE BeginsToCreate(s)
  BY <1>2 DEF CreateVersion
<1>3. ASSUME NEW a \in Agents, Promote(s, a) PROVE BeginsToCreate(s)
  BY <1>3 DEF Promote
<1>4. ASSUME NEW a \in Agents, Archive(s, a) PROVE BeginsToCreate(s)
  BY <1>4 DEF Archive
<1>5. ASSUME NEW a \in Agents, ChooseVersion(s, a) PROVE BeginsToCreate(s)
  BY <1>5 DEF ChooseVersion
<1>6. ASSUME NEW a \in Agents, Duplicate(s, a) PROVE BeginsToCreate(s)
  BY <1>6 DEF Duplicate
<1>7. CASE InsertAgent(s)
  BY <1>7 DEF InsertAgent, TypedTables, clientVars, localVars, Away
<1>8. CASE SelectMax(s)
  BY <1>8, RoomForOne DEF SelectMax, High, TypedLocals
<1>9. CASE InsertDraft(s)
  BY <1>9 DEF InsertDraft
<1>10. CASE InsertActive(s)
  BY <1>10 DEF InsertActive
<1>11. CASE ArchiveOthers(s)
  BY <1>11 DEF ArchiveOthers
<1>12. CASE SetActive(s)
  BY <1>12 DEF SetActive
<1>13. CASE SetPointer(s)
  BY <1>13 DEF SetPointer
<1>14. CASE ReadAgent(s)
  BY <1>14 DEF ReadAgent
<1>15. CASE SetArchived(s)
  BY <1>15 DEF SetArchived
<1>16. CASE ClearPointer(s)
  BY <1>16 DEF ClearPointer
<1>17. CASE QueueRun(s)
  BY <1>17 DEF QueueRun
<1>18. CASE ReadSource(s)
  BY <1>18 DEF ReadSource
<1>19. CASE FindAgent(s)
  BY <1>19 DEF FindAgent
<1>20. CASE Die(s)
  BY <1>20 DEF Die
<1> QED BY <1>1, <1>2, <1>3, <1>4, <1>5, <1>6, <1>7, <1>8, <1>9, <1>10, <1>11, <1>12, <1>13, <1>14, <1>15, <1>16, <1>17, <1>18, <1>19, <1>20 DEF Step

LEMMA NumberedStep ==
  ASSUME Typed, Typed', Numbered, RowsFound, NEW s \in Sessions, Step(s)
  PROVE  Numbered'
<1>1. RowsGrow(s) /\ exists \subseteq exists' /\ Still(s) /\ BeginsToCreate(s)
  BY RowsOnlyGrow, OthersStay, CreationsBegin
<1>2. \A a \in Agents : 
        /\ Creating(a)' = IF pc'[s] \in CreatingPC /\ agent'[s] = a
                            THEN Creating(a) \cup {s} ELSE Creating(a) \ {s}
        /\ s \in Creating(a) <=> pc[s] \in CreatingPC /\ agent[s] = a
        /\ IsFiniteSet(Creating(a))
        /\ Creating(a) \in SUBSET Sessions
  BY <1>1, SessionsAssumption, FS_Subset DEF Still, Creating, InFlight, CreatingPC
<1>3. \A a \in Agents : High(a)' \in High(a) .. (High(a) + 1) /\ High(a) \in 0..MaxVersions
        /\ (High(a)' # High(a) => a = agent[s] /\ pc[s] \in {"insertDraft", "insertActive"})
  BY <1>1, HighGrows, HighIsHighest
<1>4. ASSUME NEW a \in Agents PROVE (High(a) + Cardinality(Creating(a)) <= MaxVersions)'
  <2> DEFINE c == Cardinality(Creating(a))
  <2>1. /\ c \in Nat
        /\ Cardinality(Creating(a) \cup {s}) = IF s \in Creating(a) THEN c ELSE c + 1
        /\ Cardinality(Creating(a) \ {s}) = IF s \in Creating(a) THEN c - 1 ELSE c
    BY <1>2, FS_CardinalityType, FS_AddElement, FS_RemoveElement
  <2>2. High(a) + c <= MaxVersions
    BY DEF Numbered
  <2>3. CASE pc'[s] \in CreatingPC /\ agent'[s] = a
    <3>1. High(a)' = High(a)
      BY <1>1, <2>3 DEF BeginsToCreate, High, Rows
    <3>2. CASE pc[s] = "selectMax" /\ agent'[s] = agent[s]
      BY <1>2, <2>1, <2>2, <2>3, <3>1, <3>2 DEF CreatingPC
    <3>3. CASE pc[s] \notin CreatingPC /\ Taken(a) < MaxVersions
      <4>1. High(a) + c < MaxVersions
        BY <3>3 DEF Taken, High
      <4>2. Cardinality(Creating(a))' = c + 1
        BY <1>2, <2>1, <2>3, <3>3
      <4> QED BY <1>3, <2>1, <3>1, <4>1, <4>2, BoundAssumption
    <3>4. CASE pc[s] \notin CreatingPC /\ a \notin exists
      <4>1. Rows(a) = {} /\ c = 0
        BY <3>4, FS_EmptySet DEF Numbered
      <4>2. High(a) = 0
        BY <4>1, HighIsHighest
      <4> QED BY <1>2, <2>1, <2>3, <3>1, <4>1, <4>2, BoundAssumption
    <3> QED BY <1>1, <2>3, <3>2, <3>3, <3>4 DEF BeginsToCreate
  <2>4. CASE ~(pc'[s] \in CreatingPC /\ agent'[s] = a)
    <3>1. Cardinality(Creating(a))' = IF s \in Creating(a) THEN c - 1 ELSE c
      BY <1>2, <2>1, <2>4
    <3>2. High(a)' # High(a) => s \in Creating(a)
      BY <1>2, <1>3 DEF CreatingPC
    <3> QED BY <1>3, <2>1, <2>2, <3>1, <3>2, BoundAssumption
  <2> QED BY <2>3, <2>4
<1>5. ASSUME NEW x \in Sessions, pc'[x] \in {"insertDraft", "insertActive"}
      PROVE  (version[x] \in 1..(High(agent[x]) + 1))'
  <2>1. agent'[x] \in Agents
    BY <1>5 DEF Typed, TypedPlaces, Away
  <2>2. CASE x = s
    <3>1. agent'[s] = agent[s] /\ version'[s] = High(agent[s]) + 1 /\ status' = status
      BY <1>1, <1>5, <2>2 DEF BeginsToCreate, CreatingPC
    <3>2. High(agent[s])' = High(agent[s])
      BY <3>1 DEF High, Rows
    <3> QED BY <1>3, <2>1, <2>2, <3>1, <3>2
  <2>3. CASE x # s
    <3>1. agent'[x] = agent[x] /\ version[x] \in 1..(High(agent[x]) + 1) /\ version'[x] = version[x]
      BY <1>1, <1>5, <2>3 DEF Still, Numbered
    <3> QED BY <1>3, <2>1, <3>1
  <2> QED BY <2>2, <2>3
<1>6. ASSUME NEW a \in Agents \ exists' PROVE Rows(a)' = {} /\ Creating(a)' = {}
  <2>1. a \notin exists /\ Rows(a) = {} /\ Creating(a) = {}
    BY <1>1, <1>6 DEF Numbered
  <2>2. Rows(a)' = {}
    BY <1>1, <2>1, NumberIsFree DEF RowsGrow
  <2> QED BY <1>1, <1>2, <1>6, <2>1, <2>2 DEF BeginsToCreate
<1> QED BY <1>4, <1>5, <1>6 DEF Numbered

-----------------------------------------------------------------------------
(* Rows, pointers and documents *)

LEMMA RowsFoundStep ==
  ASSUME Typed, Typed', Numbered, RowsFound, NEW s \in Sessions, Step(s)
  PROVE  RowsFound'
<1> DEFINE Updating == {"archiveOthers", "setActive", "readAgent", "setArchived", "clearPointer"}
<1> DEFINE Here == pc'[s] \in Updating => version'[s] \in Rows(agent'[s])
<1>a. Here
  <2> USE DEF Enter, Begin, Goto, End, ReadPointer, localVars, clientVars, RowsFound, Typed, TypedPlaces, TypedLocals
  <2>1. ASSUME NEW a \in Agents, CreateAgent(s, a) PROVE Here
    BY <2>1 DEF CreateAgent
  <2>2. ASSUME NEW a \in Agents, CreateVersion(s, a) PROVE Here
    BY <2>2 DEF CreateVersion
  <2>3. ASSUME NEW a \in Agents, Promote(s, a) PROVE Here
    BY <2>3 DEF Promote
  <2>4. ASSUME NEW a \in Agents, Archive(s, a) PROVE Here
    BY <2>4 DEF Archive
  <2>5. ASSUME NEW a \in Agents, ChooseVersion(s, a) PROVE Here
    BY <2>5 DEF ChooseVersion
  <2>6. ASSUME NEW a \in Agents, Duplicate(s, a) PROVE Here
    BY <2>6 DEF Duplicate
  <2>7. CASE InsertAgent(s)
    BY <2>7 DEF InsertAgent
  <2>8. CASE SelectMax(s)
    BY <2>8 DEF SelectMax
  <2>9. CASE InsertDraft(s)
    BY <2>9 DEF InsertDraft
  <2>10. CASE InsertActive(s)
    BY <2>10 DEF InsertActive
  <2>11. CASE ArchiveOthers(s)
    BY <2>11 DEF ArchiveOthers
  <2>12. CASE SetActive(s)
    BY <2>12 DEF SetActive
  <2>13. CASE SetPointer(s)
    BY <2>13 DEF SetPointer
  <2>14. CASE ReadAgent(s)
    BY <2>14 DEF ReadAgent
  <2>15. CASE SetArchived(s)
    BY <2>15 DEF SetArchived
  <2>16. CASE ClearPointer(s)
    BY <2>16 DEF ClearPointer
  <2>17. CASE QueueRun(s)
    BY <2>17 DEF QueueRun
  <2>18. CASE ReadSource(s)
    BY <2>18 DEF ReadSource
  <2>19. CASE FindAgent(s)
    BY <2>19 DEF FindAgent
  <2>20. CASE Die(s)
    BY <2>20 DEF Die
  <2> QED BY <2>1, <2>2, <2>3, <2>4, <2>5, <2>6, <2>7, <2>8, <2>9, <2>10, <2>11, <2>12, <2>13, <2>14, <2>15, <2>16, <2>17, <2>18, <2>19, <2>20 DEF Step
<1>b. RowsGrow(s) /\ Still(s)
  BY RowsOnlyGrow, OthersStay
<1> SUFFICES ASSUME NEW x \in Sessions, pc'[x] \in Updating
             PROVE  (version[x] \in Rows(agent[x]))'
  BY DEF RowsFound
<1>c. agent'[x] \in Agents
  BY DEF Typed, TypedPlaces, Away
<1>d. version'[x] \in Rows(agent'[x])
  BY <1>a, <1>b DEF Still, RowsFound
<1>e. Rows(agent'[x]) \subseteq Rows(agent[x])'
  BY <1>b, <1>c DEF RowsGrow
<1> QED BY <1>d, <1>e

\* What has been released stays so.
LEMMA ReleasedStays ==
  ASSUME Typed, Numbered, NEW s \in Sessions, Step(s),
         NEW b \in Agents, NEW n, Released(b, n)
  PROVE  Released(b, n)'
<1> USE DEF Enter, Begin, Goto, ReadPointer, rowVars, Released, Rows
<1>1. ASSUME NEW a \in Agents, CreateAgent(s, a) PROVE Released(b, n)'
  BY <1>1 DEF CreateAgent
<1>2. ASSUME NEW a \in Agents, CreateVersion(s, a) PROVE Released(b, n)'
  BY <1>2 DEF CreateVersion
<1>3. ASSUME NEW a \in Agents, Promote(s, a) PROVE Released(b, n)'
  BY <1>3 DEF Promote
<1>4. ASSUME NEW a \in Agents, Archive(s, a) PROVE Released(b, n)'
  BY <1>4 DEF Archive
<1>5. ASSUME NEW a \in Agents, ChooseVersion(s, a) PROVE Released(b, n)'
  BY <1>5 DEF ChooseVersion
<1>6. ASSUME NEW a \in Agents, Duplicate(s, a) PROVE Released(b, n)'
  BY <1>6 DEF Duplicate
<1>7. CASE InsertAgent(s)
  BY <1>7 DEF InsertAgent
<1>8. CASE SelectMax(s)
  BY <1>8 DEF SelectMax
<1>9. CASE InsertDraft(s)
  BY <1>9, NumberIsFree DEF InsertDraft, Write, Typed, TypedTables, TypedPlaces
<1>10. CASE InsertActive(s)
  BY <1>10, NumberIsFree DEF InsertActive, Write, Typed, TypedTables, TypedPlaces
<1>11. CASE ArchiveOthers(s)
  BY <1>11 DEF ArchiveOthers, Others, Active, Typed, TypedTables, TypedPlaces
<1>12. CASE SetActive(s)
  BY <1>12 DEF SetActive, SetStatus, Typed, TypedTables, TypedPlaces, Away
<1>13. CASE SetPointer(s)
  BY <1>13 DEF SetPointer
<1>14. CASE ReadAgent(s)
  BY <1>14 DEF ReadAgent
<1>15. CASE SetArchived(s)
  BY <1>15 DEF SetArchived, SetStatus, Typed, TypedTables, TypedPlaces, Away
<1>16. CASE ClearPointer(s)
  BY <1>16 DEF ClearPointer
<1>17. CASE QueueRun(s)
  BY <1>17 DEF QueueRun
<1>18. CASE ReadSource(s)
  BY <1>18 DEF ReadSource
<1>19. CASE FindAgent(s)
  BY <1>19 DEF FindAgent
<1>20. CASE Die(s)
  BY <1>20 DEF Die
<1> QED BY <1>1, <1>2, <1>3, <1>4, <1>5, <1>6, <1>7, <1>8, <1>9, <1>10, <1>11, <1>12, <1>13, <1>14, <1>15, <1>16, <1>17, <1>18, <1>19, <1>20 DEF Step

\* Where a pointer may be moved to, and what clients have read.
Pointed ==
  /\ \A a \in Agents : active[a] = 0 \/ Released(a, active[a])
  /\ \A s \in Sessions : source[s] = NoSource \/ (source[s].agent \in Agents /\ Released(source[s].agent, source[s].version))
  /\ \A s \in Sessions : pc[s] \in {"archiveOthersNew", "setPointer"} => Released(agent[s], version[s])

\* The same of what session s has just moved, read or activated.
PointedBy(s) ==
  /\ \A b \in Agents : active'[b] = active[b] \/ active'[b] = 0 \/ Released(b, active'[b])
  /\ \/ source'[s] \in {source[s], NoSource}
     \/ source'[s].agent \in Agents /\ Released(source'[s].agent, source'[s].version)
  /\ pc'[s] \in {"archiveOthersNew", "setPointer"} =>
       /\ agent'[s] = agent[s] /\ version'[s] = version[s]
       /\ \/ pc[s] \in {"archiveOthersNew", "setPointer"}
          \/ version[s] \in Numbers /\ status'[agent[s]][version[s]] = "active"

LEMMA PointsAtReleased ==
  ASSUME Typed, Numbered, RowsFound, Pointed, NEW s \in Sessions, Step(s)
  PROVE  PointedBy(s)
<1> USE DEF Enter, Begin, Goto, End, ReadPointer, agentVars, clientVars, localVars, PointedBy, Typed, TypedPlaces, TypedLocals
<1>1. ASSUME NEW a \in Agents, CreateAgent(s, a) PROVE PointedBy(s)
  BY <1>1 DEF CreateAgent
<1>2. ASSUME NEW a \in Agents, CreateVersion(s, a) PROVE PointedBy(s)
  BY <1>2 DEF CreateVersion
<1>3. ASSUME NEW a \in Agents, Promote(s, a) PROVE PointedBy(s)
  BY <1>3 DEF Promote
<1>4. ASSUME NEW a \in Agents, Archive(s, a) PROVE PointedBy(s)
  BY <1>4 DEF Archive
<1>5. ASSUME NEW a \in Agents, ChooseVersion(s, a) PROVE PointedBy(s)
  BY <1>5 DEF ChooseVersion, Pointed
<1>6. ASSUME NEW a \in Agents, Duplicate(s, a) PROVE PointedBy(s)
  BY <1>6 DEF Duplicate, Pointed
<1>7. CASE InsertAgent(s)
  BY <1>7 DEF InsertAgent
<1>8. CASE SelectMax(s)
  BY <1>8 DEF SelectMax
<1>9. CASE InsertDraft(s)
  BY <1>9 DEF InsertDraft
<1>10. CASE InsertActive(s)
  BY <1>10, NumberIsFree DEF InsertActive, Write, TypedTables, Away
<1>11. CASE ArchiveOthers(s)
  BY <1>11 DEF ArchiveOthers, TypedTables
<1>12. CASE SetActive(s)
  BY <1>12 DEF SetActive, SetStatus, TypedTables, Away, RowsFound, Rows
<1>13. CASE SetPointer(s)
  BY <1>13 DEF SetPointer, Pointed, TypedTables, Away
<1>14. CASE ReadAgent(s)
  BY <1>14 DEF ReadAgent
<1>15. CASE SetArchived(s)
  BY <1>15 DEF SetArchived
<1>16. CASE ClearPointer(s)
  BY <1>16 DEF ClearPointer, TypedTables, Away
<1>17. CASE QueueRun(s)
  BY <1>17 DEF QueueRun
<1>18. CASE ReadSource(s)
  BY <1>18 DEF ReadSource
<1>19. CASE FindAgent(s)
  BY <1>19 DEF FindAgent
<1>20. CASE Die(s)
  BY <1>20 DEF Die
<1> QED BY <1>1, <1>2, <1>3, <1>4, <1>5, <1>6, <1>7, <1>8, <1>9, <1>10, <1>11, <1>12, <1>13, <1>14, <1>15, <1>16, <1>17, <1>18, <1>19, <1>20 DEF Step

LEMMA PointedStep ==
  ASSUME Typed, Typed', Numbered, RowsFound, Pointed, NEW s \in Sessions, Step(s)
  PROVE  Pointed'
<1>1. PointedBy(s) /\ Still(s)
  BY PointsAtReleased, OthersStay
<1>2. \A b \in Agents : \A n : Released(b, n) => Released(b, n)'
  BY ReleasedStays
<1>3. ASSUME NEW b \in Agents PROVE (active[b] = 0 \/ Released(b, active[b]))'
  BY <1>1, <1>2 DEF PointedBy, Pointed
<1>4. ASSUME NEW x \in Sessions
      PROVE  (source[x] = NoSource \/ (source[x].agent \in Agents /\ Released(source[x].agent, source[x].version)))'
  <2>1. CASE source'[x] \in {source[x], NoSource}
    BY <1>2, <2>1 DEF Pointed
  <2>2. CASE source'[x].agent \in Agents /\ Released(source'[x].agent, source'[x].version)
    BY <1>2, <2>2
  <2> QED BY <1>1, <2>1, <2>2 DEF PointedBy, Still
<1>5. ASSUME NEW x \in Sessions, pc'[x] \in {"archiveOthersNew", "setPointer"}
      PROVE  Released(agent[x], version[x])'
  <2>1. agent'[x] \in Agents /\ agent'[x] = agent[x] /\ version'[x] = version[x]
    BY <1>1, <1>5 DEF PointedBy, Still, Typed, TypedPlaces, Away
  <2>2. CASE pc[x] \in {"archiveOthersNew", "setPointer"}
    BY <1>2, <2>1, <2>2 DEF Pointed
  <2>3. CASE version[x] \in Numbers /\ status'[agent[x]][version[x]] = "active"
    BY <2>1, <2>3 DEF Released
  <2> QED BY <1>1, <1>5, <2>2, <2>3 DEF PointedBy, Still
<1> QED BY <1>3, <1>4, <1>5 DEF Pointed

-----------------------------------------------------------------------------
(* What a row may become *)

\* What session s does to the rows: one that was there keeps its definition
\* and its origin, and is no draft unless it was one; one that was not there
\* holds the document in hand.
RowsKept(s) ==
  \A b \in Agents : \A n \in Rows(b)' :
    \/ /\ n \in Rows(b)
       /\ definition'[b][n] = definition[b][n] /\ copied'[b][n] = copied[b][n]
       /\ status'[b][n] = "draft" => status[b][n] = "draft"
    \/ /\ n \notin Rows(b) /\ pc[s] \in {"insertDraft", "insertActive"} /\ b = agent[s] /\ n = version[s]
       /\ definition'[b][n] = doc[s]
       /\ copied'[b][n] = [source |-> source[s], overrides |-> copying[s].overrides]

LEMMA RowsAreKept ==
  ASSUME Typed, Numbered, RowsFound, NEW s \in Sessions, Step(s)
  PROVE  RowsKept(s)
<1> USE DEF Enter, Begin, Goto, ReadPointer, rowVars, RowsKept, Rows
<1>1. ASSUME NEW a \in Agents, CreateAgent(s, a) PROVE RowsKept(s)
  BY <1>1 DEF CreateAgent
<1>2. ASSUME NEW a \in Agents, CreateVersion(s, a) PROVE RowsKept(s)
  BY <1>2 DEF CreateVersion
<1>3. ASSUME NEW a \in Agents, Promote(s, a) PROVE RowsKept(s)
  BY <1>3 DEF Promote
<1>4. ASSUME NEW a \in Agents, Archive(s, a) PROVE RowsKept(s)
  BY <1>4 DEF Archive
<1>5. ASSUME NEW a \in Agents, ChooseVersion(s, a) PROVE RowsKept(s)
  BY <1>5 DEF ChooseVersion
<1>6. ASSUME NEW a \in Agents, Duplicate(s, a) PROVE RowsKept(s)
  BY <1>6 DEF Duplicate
<1>7. CASE InsertAgent(s)
  BY <1>7 DEF InsertAgent
<1>8. CASE SelectMax(s)
  BY <1>8 DEF SelectMax
<1>9. CASE InsertDraft(s)
  BY <1>9, NumberIsFree DEF InsertDraft, Write, Typed, TypedTables, TypedPlaces
<1>10. CASE InsertActive(s)
  BY <1>10, NumberIsFree DEF InsertActive, Write, Typed, TypedTables, TypedPlaces
<1>11. CASE ArchiveOthers(s)
  BY <1>11 DEF ArchiveOthers, Others, Active, Typed, TypedTables, TypedPlaces
<1>12. CASE SetActive(s)
  BY <1>12 DEF SetActive, SetStatus, RowsFound, Typed, TypedTables, TypedPlaces, Away
<1>13. CASE SetPointer(s)
  BY <1>13 DEF SetPointer
<1>14. CASE ReadAgent(s)
  BY <1>14 DEF ReadAgent
<1>15. CASE SetArchived(s)
  BY <1>15 DEF SetArchived, SetStatus, RowsFound, Typed, TypedTables, TypedPlaces, Away
<1>16. CASE ClearPointer(s)
  BY <1>16 DEF ClearPointer
<1>17. CASE QueueRun(s)
  BY <1>17 DEF QueueRun
<1>18. CASE ReadSource(s)
  BY <1>18 DEF ReadSource
<1>19. CASE FindAgent(s)
  BY <1>19 DEF FindAgent
<1>20. CASE Die(s)
  BY <1>20 DEF Die
<1> QED BY <1>1, <1>2, <1>3, <1>4, <1>5, <1>6, <1>7, <1>8, <1>9, <1>10, <1>11, <1>12, <1>13, <1>14, <1>15, <1>16, <1>17, <1>18, <1>19, <1>20 DEF Step

\* Whatever is in a row, or on its way into one, has been validated.
Validated ==
  /\ \A s \in Sessions : pc[s] \in CreatingPC => Valid(doc[s])
  /\ \A b \in Agents : \A n \in Rows(b) : Valid(definition[b][n])

\* How a duplication gets to write: it has found the agent missing, and made it.
CopiesBegin(s) ==
  /\ pc'[s] \in CreatingPC =>
       /\ (pc[s] \in CreatingPC /\ doc'[s] = doc[s]) \/ Valid(doc'[s])
       /\ copying'[s] = copying[s]
       /\ copying[s] # NoCopy =>
            /\ agent'[s] = agent[s]
            /\ pc[s] \in CreatingPC \/ (agent[s] \notin exists /\ agent[s] \in born')
  /\ pc[s] \in {"insertDraft", "insertActive"} => pc'[s] \notin CreatingPC
  /\ born \subseteq born'
  /\ pc'[s] = "idle" => copying'[s] = NoCopy
  /\ pc'[s] # "queueRun" /\ copying'[s] = NoCopy => source'[s] = NoSource

\* Requests and what has been read for them come and go together.
CopiesApart ==
  \A s \in Sessions : /\ pc[s] = "idle" => copying[s] = NoCopy
                      /\ pc[s] # "queueRun" /\ copying[s] = NoCopy => source[s] = NoSource

LEMMA CopiesBeginFresh ==
  ASSUME Typed, Validated, CopiesApart, NEW s \in Sessions, Step(s)
  PROVE  CopiesBegin(s)
<1> USE DEF Enter, Begin, Goto, End, ReadPointer, agentVars, clientVars, localVars, CopiesBegin, CreatingPC, CopiesApart, Typed, TypedPlaces, TypedLocals, TypedRequests
<1>1. ASSUME NEW a \in Agents, CreateAgent(s, a) PROVE CopiesBegin(s)
  BY <1>1 DEF CreateAgent
<1>2. ASSUME NEW a \in Agents, CreateVersion(s, a) PROVE CopiesBegin(s)
  BY <1>2, DocsAssumption, CanonicalIsValid, RenamedIsValid DEF CreateVersion, Renamed
<1>3. ASSUME NEW a \in Agents, Promote(s, a) PROVE CopiesBegin(s)
  BY <1>3 DEF Promote
<1>4. ASSUME NEW a \in Agents, Archive(s, a) PROVE CopiesBegin(s)
  BY <1>4 DEF Archive
<1>5. ASSUME NEW a \in Agents, ChooseVersion(s, a) PROVE CopiesBegin(s)
  BY <1>5 DEF ChooseVersion
<1>6. ASSUME NEW a \in Agents, Duplicate(s, a) PROVE CopiesBegin(s)
  BY <1>6, NobodyAssumption DEF Duplicate, NoCopy
<1>7. CASE InsertAgent(s)
  BY <1>7, CanonicalIsValid DEF InsertAgent, TypedTables, Away
<1>8. CASE SelectMax(s)
  BY <1>8 DEF SelectMax
<1>9. CASE InsertDraft(s)
  BY <1>9 DEF InsertDraft
<1>10. CASE InsertActive(s)
  BY <1>10 DEF InsertActive
<1>11. CASE ArchiveOthers(s)
  BY <1>11 DEF ArchiveOthers
<1>12. CASE SetActive(s)
  BY <1>12 DEF SetActive
<1>13. CASE SetPointer(s)
  BY <1>13 DEF SetPointer
<1>14. CASE ReadAgent(s)
  BY <1>14 DEF ReadAgent
<1>15. CASE SetArchived(s)
  BY <1>15 DEF SetArchived
<1>16. CASE ClearPointer(s)
  BY <1>16 DEF ClearPointer
<1>17. CASE QueueRun(s)
  BY <1>17 DEF QueueRun
<1>18. CASE ReadSource(s)
  BY <1>18 DEF ReadSource
<1>19. CASE FindAgent(s)
  BY <1>19 DEF FindAgent
<1>20. CASE Die(s)
  BY <1>20 DEF Die
<1> QED BY <1>1, <1>2, <1>3, <1>4, <1>5, <1>6, <1>7, <1>8, <1>9, <1>10, <1>11, <1>12, <1>13, <1>14, <1>15, <1>16, <1>17, <1>18, <1>19, <1>20 DEF Step

LEMMA ValidatedStep ==
  ASSUME Typed, Typed', Numbered, RowsFound, Validated, CopiesApart, NEW s \in Sessions, Step(s)
  PROVE  Validated' /\ CopiesApart'
<1>1. CopiesBegin(s) /\ RowsKept(s) /\ Still(s)
  BY CopiesBeginFresh, RowsAreKept, OthersStay
<1>2. ASSUME NEW x \in Sessions, pc'[x] \in CreatingPC PROVE Valid(doc'[x])
  BY <1>1, <1>2 DEF CopiesBegin, Still, Validated
<1>3. ASSUME NEW b \in Agents, NEW n \in Rows(b)' PROVE Valid(definition'[b][n])
  BY <1>1, <1>3 DEF RowsKept, Validated, CreatingPC
<1>4. CopiesApart'
  BY <1>1 DEF CopiesBegin, Still, CopiesApart
<1> QED BY <1>2, <1>3, <1>4 DEF Validated

-----------------------------------------------------------------------------
(* Duplications keep to themselves *)

Copies(b) == {n \in Rows(b) : copied[b][n] # NotCopied}
CopyWriter(s, b) == agent[s] = b /\ pc[s] \in CreatingPC /\ copying[s] # NoCopy

\* Whoever is about to write a copy into an agent created it, and is alone in
\* that; and once the copy is there, nobody is.
FreshCopies ==
  \A b \in Agents :
    /\ Copies(b) # {} => b \in born
    /\ \A m, n \in Copies(b) : m = n
    /\ \A s \in Sessions : CopyWriter(s, b) => b \in born /\ Copies(b) = {}
    /\ \A s, x \in Sessions : CopyWriter(s, b) /\ CopyWriter(x, b) => s = x

LEMMA FreshCopiesStep ==
  ASSUME Typed, Typed', Numbered, RowsFound, Validated, CopiesApart, FreshCopies, NEW s \in Sessions, Step(s)
  PROVE  FreshCopies'
<1>1. CopiesBegin(s) /\ RowsKept(s) /\ RowsGrow(s) /\ Still(s)
  BY CopiesBeginFresh, RowsAreKept, RowsOnlyGrow, OthersStay
<1> SUFFICES ASSUME NEW b \in Agents
             PROVE  /\ Copies(b)' # {} => b \in born'
                    /\ \A m, n \in Copies(b)' : m = n
                    /\ \A x \in Sessions : CopyWriter(x, b)' => b \in born' /\ Copies(b)' = {}
                    /\ \A x, y \in Sessions : CopyWriter(x, b)' /\ CopyWriter(y, b)' => x = y
  BY DEF FreshCopies
<1>2. born \subseteq born' /\ born \subseteq exists
  BY <1>1 DEF CopiesBegin, Typed, TypedTables
<1>3. \A x \in Sessions \ {s} : CopyWriter(x, b)' <=> CopyWriter(x, b)
  BY <1>1 DEF Still, CopyWriter
<1>4. CopyWriter(s, b)' => CopyWriter(s, b) \/ (b \notin exists /\ b \in born')
  BY <1>1 DEF CopiesBegin, CopyWriter
<1>5. b \notin exists => Rows(b) = {} /\ Copies(b) = {} /\ \A x \in Sessions : ~CopyWriter(x, b)
  BY <1>2 DEF Numbered, Copies, FreshCopies
<1>6. CASE Copies(b)' \subseteq Copies(b)
  BY <1>2, <1>3, <1>4, <1>5, <1>6 DEF FreshCopies
<1>7. CASE ~(Copies(b)' \subseteq Copies(b))
  <2>1. PICK n \in Copies(b)' : n \notin Copies(b)
    BY <1>7
  <2>2. /\ n \notin Rows(b) /\ pc[s] \in {"insertDraft", "insertActive"} /\ b = agent[s] /\ n = version[s]
        /\ [source |-> source[s], overrides |-> copying[s].overrides] # NotCopied
    BY <1>1, <2>1 DEF RowsKept, Copies
  <2>3. CopyWriter(s, b)
    BY <2>2 DEF CopiesApart, CopyWriter, CreatingPC, NotCopied, NoCopy
  <2>4. Copies(b) = {} /\ b \in born /\ \A x \in Sessions \ {s} : ~CopyWriter(x, b)
    BY <2>3 DEF FreshCopies
  <2>5. ~CopyWriter(s, b)'
    BY <1>1, <2>2 DEF CopiesBegin, CopyWriter
  <2>6. \A m \in Copies(b)' : m = n
    BY <1>1, <2>2, <2>4 DEF RowsKept, Copies
  <2> QED BY <1>2, <1>3, <2>4, <2>5, <2>6
<1> QED BY <1>6, <1>7

-----------------------------------------------------------------------------
(* What duplications write *)

CopyOf(from, target, asked) == DeepMerge(Renamed(definition[from.agent][from.version], target), asked)
IsRow(from) == from.agent \in Agents /\ from.version \in Rows(from.agent)

\* Row version n of `from`, duplicated for agent t with these overrides: the
\* merge validates, and def is what validation makes of it.
IsCopy(def, from, asked) ==
  \E t \in Agents : LET merged == CopyOf(from, t, asked) IN Valid(merged) /\ def = Canonical(merged)

\* Rows are settled.  Whoever duplicates has read a row, which stays as it was;
\* what it has in hand is made of that row and of its request, and so is the
\* copy it writes.
Faithful ==
  /\ \A b \in Agents : \A n \in Rows(b) : Settled(definition[b][n])
  /\ \A s \in Sessions : pc[s] \in CreatingPC => Settled(doc[s])
  /\ \A s \in Sessions : copying[s] # NoCopy =>
       /\ IsRow(source[s]) /\ IsDocument(copying[s].overrides)
       /\ pc[s] \in {"findAgent", "insertAgent"} =>
            \E t \in Agents : doc[s] = CopyOf(source[s], t, copying[s].overrides)
       /\ pc[s] \in CreatingPC => IsCopy(doc[s], source[s], copying[s].overrides)
  /\ \A b \in Agents : \A n \in Rows(b) : copied[b][n] # NotCopied =>
       /\ IsRow(copied[b][n].source) /\ IsDocument(copied[b][n].overrides)
       /\ IsCopy(definition[b][n], copied[b][n].source, copied[b][n].overrides)

\* What session s has in hand after its step, and what it made it of.
InHand(s) ==
  /\ pc'[s] \in CreatingPC =>
       \/ pc[s] \in CreatingPC /\ doc'[s] = doc[s] /\ copying'[s] = copying[s] /\ source'[s] = source[s]
       \/ copying'[s] = NoCopy /\ Settled(doc'[s])
       \/ /\ pc[s] = "insertAgent" /\ Valid(doc[s]) /\ doc'[s] = Canonical(doc[s])
          /\ copying[s] # NoCopy /\ copying'[s] = copying[s] /\ source'[s] = source[s]
  /\ copying'[s] # NoCopy =>
       \/ copying'[s] = copying[s] /\ source'[s] = source[s]
       \/ /\ pc'[s] = "readSource" /\ copying'[s].overrides \in OverrideSet
          /\ source'[s].agent \in Agents /\ active[source'[s].agent] # 0
          /\ source'[s].version = active[source'[s].agent]
  /\ pc'[s] \in {"findAgent", "insertAgent"} /\ copying'[s] # NoCopy =>
       /\ copying'[s] = copying[s] /\ source'[s] = source[s]
       /\ \/ pc[s] = "findAgent" /\ doc'[s] = doc[s]
          \/ pc[s] = "readSource" /\ doc'[s] = CopyOf(source[s], copying[s].target, copying[s].overrides)

LEMMA StepInHand ==
  ASSUME Typed, CopiesApart, NEW s \in Sessions, Step(s)
  PROVE  InHand(s)
<1> USE DEF Enter, Begin, Goto, End, ReadPointer, agentVars, clientVars, localVars, InHand, CreatingPC, CopiesApart, Typed, TypedPlaces, TypedLocals, TypedRequests
<1>1. ASSUME NEW a \in Agents, CreateAgent(s, a) PROVE InHand(s)
  BY <1>1 DEF CreateAgent
<1>2. ASSUME NEW a \in Agents, CreateVersion(s, a) PROVE InHand(s)
  BY <1>2, DocsAssumption, CanonicalIsSettled, RenamedIsValid DEF CreateVersion, Renamed
<1>3. ASSUME NEW a \in Agents, Promote(s, a) PROVE InHand(s)
  BY <1>3 DEF Promote
<1>4. ASSUME NEW a \in Agents, Archive(s, a) PROVE InHand(s)
  BY <1>4 DEF Archive
<1>5. ASSUME NEW a \in Agents, ChooseVersion(s, a) PROVE InHand(s)
  BY <1>5 DEF ChooseVersion
<1>6. ASSUME NEW a \in Agents, Duplicate(s, a) PROVE InHand(s)
  BY <1>6 DEF Duplicate
<1>7. CASE InsertAgent(s)
  BY <1>7 DEF InsertAgent
<1>8. CASE SelectMax(s)
  BY <1>8 DEF SelectMax
<1>9. CASE InsertDraft(s)
  BY <1>9 DEF InsertDraft
<1>10. CASE InsertActive(s)
  BY <1>10 DEF InsertActive
<1>11. CASE ArchiveOthers(s)
  BY <1>11 DEF ArchiveOthers
<1>12. CASE SetActive(s)
  BY <1>12 DEF SetActive
<1>13. CASE SetPointer(s)
  BY <1>13 DEF SetPointer
<1>14. CASE ReadAgent(s)
  BY <1>14 DEF ReadAgent
<1>15. CASE SetArchived(s)
  BY <1>15 DEF SetArchived
<1>16. CASE ClearPointer(s)
  BY <1>16 DEF ClearPointer
<1>17. CASE QueueRun(s)
  BY <1>17 DEF QueueRun
<1>18. CASE ReadSource(s)
  BY <1>18 DEF ReadSource, CopyOf, Renamed
<1>19. CASE FindAgent(s)
  BY <1>19 DEF FindAgent
<1>20. CASE Die(s)
  BY <1>20 DEF Die
<1> QED BY <1>1, <1>2, <1>3, <1>4, <1>5, <1>6, <1>7, <1>8, <1>9, <1>10, <1>11, <1>12, <1>13, <1>14, <1>15, <1>16, <1>17, <1>18, <1>19, <1>20 DEF Step

LEMMA FaithfulStep ==
  ASSUME Typed, Typed', Numbered, RowsFound, Pointed, Validated, CopiesApart, Faithful,
         NEW s \in Sessions, Step(s)
  PROVE  Faithful'
<1>1. InHand(s) /\ RowsKept(s) /\ RowsGrow(s) /\ Still(s)
  BY StepInHand, RowsAreKept, RowsOnlyGrow, OthersStay
<1>2. ASSUME NEW from, IsRow(from)
      PROVE  /\ IsRow(from)' /\ \A t, o : CopyOf(from, t, o)' = CopyOf(from, t, o)
             /\ \A def, o : IsCopy(def, from, o)' <=> IsCopy(def, from, o)
  <2>1. from.version \in Rows(from.agent)'
    BY <1>1, <1>2 DEF IsRow, RowsGrow
  <2>2. definition'[from.agent][from.version] = definition[from.agent][from.version]
    BY <1>1, <1>2, <2>1 DEF IsRow, RowsKept
  <2> QED BY <1>2, <2>1, <2>2 DEF IsRow, IsCopy, CopyOf
<1>3. ASSUME NEW b \in Agents, NEW n \in Rows(b)' PROVE Settled(definition'[b][n])
  BY <1>1, <1>3 DEF RowsKept, Faithful, CreatingPC
<1>4. ASSUME NEW x \in Sessions, pc'[x] \in CreatingPC PROVE Settled(doc'[x])
  <2>1. CASE x # s
    BY <1>1, <1>4, <2>1 DEF Still, Faithful
  <2>2. CASE x = s
    BY <1>1, <1>4, <2>2, CanonicalIsSettled DEF InHand, Faithful
  <2> QED BY <2>1, <2>2
<1>5. ASSUME NEW x \in Sessions, copying'[x] # NoCopy
      PROVE  /\ IsRow(source[x])' /\ IsDocument(copying'[x].overrides)
             /\ \/ copying'[x] = copying[x] /\ source'[x] = source[x]
                \/ x = s /\ pc'[x] = "readSource"
  <2>1. CASE copying'[x] = copying[x] /\ source'[x] = source[x]
    <3>1. IsRow(source[x]) /\ IsDocument(copying[x].overrides)
      BY <1>5, <2>1 DEF Faithful
    <3>2. IsRow(source[x])'
      BY <1>2, <2>1, <3>1
    <3> QED BY <2>1, <3>1, <3>2
  <2>2. CASE ~(copying'[x] = copying[x] /\ source'[x] = source[x])
    <3>1. /\ x = s /\ pc'[s] = "readSource" /\ copying'[s].overrides \in OverrideSet
          /\ source'[s].agent \in Agents /\ active[source'[s].agent] # 0
          /\ source'[s].version = active[source'[s].agent]
      BY <1>1, <1>5, <2>2 DEF InHand, Still
    <3>2. IsRow(source'[s])
      BY <3>1 DEF Pointed, Released, IsRow, Rows
    <3>3. IsRow(source[s])'
      BY <1>2, <3>2
    <3>4. IsDocument(copying'[s].overrides)
      BY <3>1, DocsAssumption
    <3> QED BY <3>1, <3>3, <3>4
  <2> QED BY <2>1, <2>2
<1>6. ASSUME NEW x \in Sessions, copying'[x] # NoCopy, pc'[x] \in {"findAgent", "insertAgent"}
      PROVE  \E t \in Agents : doc'[x] = CopyOf(source[x], t, copying[x].overrides)'
  <2>1. copying'[x] = copying[x] /\ source'[x] = source[x] /\ IsRow(source[x])
    BY <1>5, <1>6 DEF Faithful
  <2>2. copying[x].target \in Agents
    BY <1>6, <2>1 DEF Typed, TypedRequests, Requests
  <2>3. \E t \in Agents : doc'[x] = CopyOf(source[x], t, copying[x].overrides)
    BY <1>1, <1>6, <2>1, <2>2 DEF InHand, Still, Faithful
  <2> QED BY <1>2, <2>1, <2>3
<1>7. ASSUME NEW x \in Sessions, copying'[x] # NoCopy, pc'[x] \in CreatingPC
      PROVE  IsCopy(doc[x], source[x], copying[x].overrides)'
  <2>1. copying'[x] = copying[x] /\ source'[x] = source[x] /\ IsRow(source[x])
    BY <1>5, <1>7 DEF Faithful, CreatingPC
  <2>2. IsCopy(doc'[x], source[x], copying[x].overrides)
    BY <1>1, <1>7, <2>1 DEF InHand, Still, Faithful, IsCopy
  <2> QED BY <1>2, <2>1, <2>2
<1>8. ASSUME NEW b \in Agents, NEW n \in Rows(b)', copied'[b][n] # NotCopied
      PROVE  /\ IsRow(copied[b][n].source)' /\ IsDocument(copied'[b][n].overrides)
             /\ IsCopy(definition[b][n], copied[b][n].source, copied[b][n].overrides)'
  <2> DEFINE Made(def, c) == /\ IsRow(c.source) /\ IsDocument(c.overrides)
                             /\ IsCopy(def, c.source, c.overrides)
  <2>1. Made(definition'[b][n], copied'[b][n])
    <3>1. CASE n \in Rows(b) /\ definition'[b][n] = definition[b][n] /\ copied'[b][n] = copied[b][n]
      BY <1>8, <3>1 DEF Faithful
    <3>2. CASE /\ pc[s] \in {"insertDraft", "insertActive"} /\ definition'[b][n] = doc[s]
               /\ copied'[b][n] = [source |-> source[s], overrides |-> copying[s].overrides]
      <4>1. copying[s] # NoCopy
        BY <1>8, <3>2 DEF CopiesApart, NotCopied, NoCopy
      <4> QED BY <3>2, <4>1 DEF Faithful, CreatingPC
    <3> QED BY <1>1, <1>8, <3>1, <3>2 DEF RowsKept
  <2>2. IsRow(copied'[b][n].source)
    BY <2>1
  <2> QED BY <1>2, <2>1, <2>2
<1> QED BY <1>3, <1>4, <1>5, <1>6, <1>7, <1>8 DEF Faithful

-----------------------------------------------------------------------------
(* Agents on which operations did not overlap *)

\* Where session s stands, on an agent where no other operation runs: what it
\* leaves if it dies here is undone by the statements it has still to execute.
PhaseAlone(s) ==
  /\ pc[s] = "archiveOthersNew" => version[s] \in Active(agent[s])
  /\ pc[s] = "setActive" => Active(agent[s]) \subseteq {version[s]}
  /\ pc[s] = "setPointer" => Active(agent[s]) = {version[s]}
Unbroken == {"insertAgent", "selectMax", "insertDraft", "insertActive", "archiveOthers", "readAgent", "setArchived"}
PhaseUntainted(s) ==
  /\ pc[s] \in Unbroken => Consistent(agent[s])
  /\ pc[s] = "setArchived" => sawActive[s] = active[agent[s]]
  /\ pc[s] = "clearPointer" => Active(agent[s]) = {}

\* A session that is alone is the only one on its agent; on an untainted agent
\* a session is alone; and an untainted agent that nobody is at is consistent.
SessionSound(s) ==
  /\ s \in alone => agent[s] \in Agents /\ InFlight(agent[s]) = {s} /\ PhaseAlone(s)
  /\ agent[s] \in Agents \ tainted => s \in alone /\ PhaseUntainted(s)
Sound == /\ \A s \in Sessions : SessionSound(s)
         /\ UntaintedAgentsAreConsistent

\* Session s begins, goes on with, or ends an operation on agent b, or is at none.
Starts(s, b) ==
  /\ agent[s] = Nobody /\ agent'[s] = b
  /\ pc'[s] \in Unbroken \ {"setArchived"}
  /\ alone' = (alone \ InFlight(b)) \cup {x \in {s} : InFlight(b) = {}}
  /\ tainted' = tainted \cup {c \in {b} : InFlight(c) # {}}
GoesOn(s, b) == agent[s] = b /\ agent' = agent /\ alone' = alone /\ tainted' = tainted
Ends(s, b) == agent[s] = b /\ agent'[s] = Nobody /\ alone' = alone \ {s}
              /\ tainted \ {b} \subseteq tainted' /\ (s \notin alone => tainted \subseteq tainted')
IsAway(s) == agent[s] = Nobody /\ agent'[s] = Nobody /\ alone' \subseteq alone /\ alone \subseteq alone' \cup {s} /\ tainted' = tainted
Shape(s) ==
  /\ \/ IsAway(s)
     \/ \E b \in Agents : Starts(s, b) \/ GoesOn(s, b) \/ Ends(s, b)
  /\ \A b \in Agents \ {agent[s]} : status'[b] = status[b] /\ active'[b] = active[b]

LEMMA StepShape ==
  ASSUME Typed, NEW s \in Sessions, Step(s)
  PROVE  Shape(s)
<1>a. agent[s] = Nobody <=> pc[s] \in Away
  BY DEF Typed, TypedPlaces
<1>b. agent[s] \in Agents \/ agent[s] = Nobody
  BY DEF Typed, TypedPlaces
<1>c. Nobody \notin Agents /\ agent \in [Sessions -> Agents \cup {Nobody}] /\ DOMAIN pc = Sessions
      /\ DOMAIN active = Agents /\ DOMAIN status = Agents /\ tainted \in SUBSET Agents
  BY NobodyAssumption DEF Typed, TypedPlaces, TypedTables, TypedHistory
<1> USE <1>a, <1>b, <1>c DEF Enter, Begin, Goto, End, ReadPointer, rowVars, agentVars, clientVars, localVars, Shape, IsAway, Starts, GoesOn, Ends, Away, Unbroken
<1>1. ASSUME NEW a \in Agents, CreateAgent(s, a) PROVE Shape(s)
  BY <1>1 DEF CreateAgent
<1>2. ASSUME NEW a \in Agents, CreateVersion(s, a) PROVE Shape(s)
  BY <1>2 DEF CreateVersion
<1>3. ASSUME NEW a \in Agents, Promote(s, a) PROVE Shape(s)
  BY <1>3 DEF Promote
<1>4. ASSUME NEW a \in Agents, Archive(s, a) PROVE Shape(s)
  BY <1>4 DEF Archive
<1>5. ASSUME NEW a \in Agents, ChooseVersion(s, a) PROVE Shape(s)
  BY <1>5 DEF ChooseVersion
<1>6. ASSUME NEW a \in Agents, Duplicate(s, a) PROVE Shape(s)
  BY <1>6 DEF Duplicate
<1>7. CASE InsertAgent(s)
  BY <1>7 DEF InsertAgent
<1>8. CASE SelectMax(s)
  BY <1>8 DEF SelectMax
<1>9. CASE InsertDraft(s)
  BY <1>9 DEF InsertDraft, Write
<1>10. CASE InsertActive(s)
  BY <1>10 DEF InsertActive, Write
<1>11. CASE ArchiveOthers(s)
  BY <1>11 DEF ArchiveOthers
<1>12. CASE SetActive(s)
  BY <1>12 DEF SetActive, SetStatus
<1>13. CASE SetPointer(s)
  BY <1>13 DEF SetPointer
<1>14. CASE ReadAgent(s)
  BY <1>14 DEF ReadAgent
<1>15. CASE SetArchived(s)
  BY <1>15 DEF SetArchived, SetStatus
<1>16. CASE ClearPointer(s)
  BY <1>16 DEF ClearPointer
<1>17. CASE QueueRun(s)
  BY <1>17 DEF QueueRun
<1>18. CASE ReadSource(s)
  BY <1>18 DEF ReadSource
<1>19. CASE FindAgent(s)
  BY <1>19, TargetIsAgent DEF FindAgent, Typed, TypedRequests
<1>20. CASE Die(s)
  BY <1>20 DEF Die, Halfway
<1> QED BY <1>1, <1>2, <1>3, <1>4, <1>5, <1>6, <1>7, <1>8, <1>9, <1>10, <1>11, <1>12, <1>13, <1>14, <1>15, <1>16, <1>17, <1>18, <1>19, <1>20 DEF Step

LEMMA PhasesFollow ==
  ASSUME Typed, Numbered, RowsFound, NEW s \in Sessions, Step(s), SessionSound(s),
         NEW b \in Agents, agent[s] = b
  PROVE  /\ agent'[s] = b => (s \in alone => PhaseAlone(s)') /\ (b \notin tainted => PhaseUntainted(s)')
         /\ agent'[s] = Nobody => (b \notin tainted' => Consistent(b)')
<1> DEFINE Follow == /\ agent'[s] = b => (s \in alone => PhaseAlone(s)') /\ (b \notin tainted => PhaseUntainted(s)')
                     /\ agent'[s] = Nobody => (b \notin tainted' => Consistent(b)')
<1>a. /\ pc[s] \notin Away /\ b # Nobody /\ pc[s] \in PC
      /\ s \in alone => PhaseAlone(s)
      /\ b \notin tainted => s \in alone /\ PhaseUntainted(s)
  BY NobodyAssumption DEF SessionSound, Typed, TypedPlaces
<1>b. DOMAIN pc = Sessions /\ DOMAIN agent = Sessions /\ DOMAIN active = Agents /\ DOMAIN version = Sessions
      /\ DOMAIN sawActive = Sessions
  BY DEF Typed, TypedPlaces, TypedTables, TypedLocals
<1> USE <1>a, <1>b DEF Enter, Begin, Goto, End, ReadPointer, rowVars, agentVars, clientVars, localVars, Away, Unbroken, PhaseAlone, PhaseUntainted, Consistent
<1>1. ASSUME NEW a \in Agents, CreateAgent(s, a) PROVE Follow
  BY <1>1 DEF CreateAgent
<1>2. ASSUME NEW a \in Agents, CreateVersion(s, a) PROVE Follow
  BY <1>2 DEF CreateVersion
<1>3. ASSUME NEW a \in Agents, Promote(s, a) PROVE Follow
  BY <1>3 DEF Promote
<1>4. ASSUME NEW a \in Agents, Archive(s, a) PROVE Follow
  BY <1>4 DEF Archive
<1>5. ASSUME NEW a \in Agents, ChooseVersion(s, a) PROVE Follow
  BY <1>5 DEF ChooseVersion
<1>6. ASSUME NEW a \in Agents, Duplicate(s, a) PROVE Follow
  BY <1>6 DEF Duplicate
<1>7. CASE InsertAgent(s)
  <2>1. Active(b)' = Active(b) /\ active' = active
    BY <1>7 DEF InsertAgent, Active
  <2> QED BY <1>7, <2>1 DEF InsertAgent
<1>8. CASE SelectMax(s)
  <2>1. Active(b)' = Active(b) /\ active' = active
    BY <1>8 DEF SelectMax, Active
  <2> QED BY <1>8, <2>1 DEF SelectMax
<1>9. CASE InsertDraft(s)
  <2>1. Active(b)' = Active(b) /\ active' = active
    BY <1>9, NumberIsFree DEF InsertDraft, Active, Typed, TypedTables, TypedPlaces, Write, Rows
  <2> QED BY <1>9, <2>1 DEF InsertDraft, Typed, TypedTables, TypedPlaces
<1>10. CASE InsertActive(s)
  <2>1. /\ version[s] \in Rows(b) => Active(b)' = Active(b)
        /\ version[s] \notin Rows(b) => version[s] \in Active(b)'
        /\ active' = active
    BY <1>10, NumberIsFree DEF InsertActive, Active, Typed, TypedTables, TypedPlaces, Write, Rows
  <2> QED BY <1>10, <2>1 DEF InsertActive, Typed, TypedTables, TypedPlaces
<1>11. CASE ArchiveOthers(s)
  <2>1. Active(b)' = Active(b) \cap {version[s]}
    BY <1>11 DEF ArchiveOthers, Active, Typed, TypedTables, TypedPlaces, Others
  <2> QED BY <1>11, <2>1 DEF ArchiveOthers, Typed, TypedTables, TypedPlaces
<1>12. CASE SetActive(s)
  <2>1. Active(b)' = Active(b) \cup {version[s]}
    BY <1>12 DEF SetActive, Active, Typed, TypedTables, TypedPlaces, SetStatus, RowsFound, Rows
  <2> QED BY <1>12, <2>1 DEF SetActive, Typed, TypedTables, TypedPlaces
<1>13. CASE SetPointer(s)
  <2>1. Active(b)' = Active(b) /\ active'[b] = version[s] /\ (Active(b) = {version[s]} => version[s] # 0)
    BY <1>13, BoundAssumption DEF SetPointer, Active, Typed, TypedTables, TypedPlaces, Numbers
  <2> QED BY <1>13, <2>1 DEF SetPointer, Typed, TypedTables, TypedPlaces
<1>14. CASE ReadAgent(s)
  <2>1. Active(b)' = Active(b) /\ active' = active
    BY <1>14 DEF ReadAgent, Active
  <2> QED BY <1>14, <2>1 DEF ReadAgent
<1>15. CASE SetArchived(s)
  <2>1. Active(b)' = Active(b) \ {version[s]} /\ active' = active /\ version[s] # 0
    BY <1>15, BoundAssumption DEF SetArchived, Active, Typed, TypedTables, TypedPlaces, SetStatus, RowsFound, Rows, Numbers
  <2> QED BY <1>15, <2>1 DEF SetArchived, Typed, TypedTables, TypedPlaces
<1>16. CASE ClearPointer(s)
  <2>1. Active(b)' = Active(b) /\ active'[b] = 0
    BY <1>16 DEF ClearPointer, Active, Typed, TypedTables, TypedPlaces
  <2> QED BY <1>16, <2>1 DEF ClearPointer, Typed, TypedTables, TypedPlaces
<1>17. CASE QueueRun(s)
  BY <1>17 DEF QueueRun
<1>18. CASE ReadSource(s)
  BY <1>18 DEF ReadSource
<1>19. CASE FindAgent(s)
  BY <1>19 DEF FindAgent
<1>20. CASE Die(s)
  <2>1. Active(b)' = Active(b) /\ active' = active
    BY <1>20 DEF Die, Active
  <2> QED BY <1>20, <2>1 DEF Die, Halfway, PC
<1> QED BY <1>1, <1>2, <1>3, <1>4, <1>5, <1>6, <1>7, <1>8, <1>9, <1>10, <1>11, <1>12, <1>13, <1>14, <1>15, <1>16, <1>17, <1>18, <1>19, <1>20 DEF Step

LEMMA SoundStep ==
  ASSUME Typed, Typed', Numbered, RowsFound, Sound, NEW s \in Sessions, Step(s)
  PROVE  Sound'
<1>1. Shape(s) /\ Still(s)
  BY StepShape, OthersStay
<1>2. \A x \in Sessions : SessionSound(x)
  BY DEF Sound
<1>3. \A b \in Agents \ {agent[s]} : Active(b)' = Active(b) /\ active'[b] = active[b] /\ (Consistent(b)' <=> Consistent(b))
  BY <1>1 DEF Shape, Active, Consistent
<1>4. \A b \in Agents : InFlight(b)' = IF agent'[s] = b THEN InFlight(b) \cup {s} ELSE InFlight(b) \ {s}
  BY <1>1 DEF Still, InFlight
<1>5. Nobody \notin Agents
  BY NobodyAssumption
<1>6. ASSUME NEW x \in Sessions \ {s}, agent[x] \in Agents \ {agent[s]}
      PROVE  (PhaseAlone(x)' <=> PhaseAlone(x)) /\ (PhaseUntainted(x)' <=> PhaseUntainted(x))
  BY <1>1, <1>3, <1>6 DEF Still, PhaseAlone, PhaseUntainted
<1>7. \A x \in Sessions \ {s} : x \in alone => agent[x] # agent[s]
  BY <1>2 DEF SessionSound, InFlight
<1>8. CASE IsAway(s)
  <2>1. ASSUME NEW x \in Sessions PROVE SessionSound(x)'
    BY <1>1, <1>2, <1>4, <1>5, <1>6, <1>8 DEF SessionSound, Still, IsAway
  <2>2. UntaintedAgentsAreConsistent'
    BY <1>3, <1>4, <1>5, <1>8 DEF IsAway, Sound, UntaintedAgentsAreConsistent, InFlight
  <2> QED BY <2>1, <2>2 DEF Sound
<1>9. ASSUME NEW b \in Agents, Starts(s, b) PROVE Sound'
  <2>1. UntaintedAgentsAreConsistent'
    BY <1>3, <1>4, <1>5, <1>9 DEF Starts, Sound, UntaintedAgentsAreConsistent, InFlight
  <2>2. SessionSound(s)'
    <3>1. InFlight(b) = {} => Consistent(b)' \/ b \in tainted
      BY <1>3, <1>5, <1>9 DEF Starts, Sound, UntaintedAgentsAreConsistent
    <3>2. InFlight(b) = {} <=> s \in alone'
      BY <1>9, <1>2, <1>5 DEF Starts, SessionSound
    <3>3. InFlight(b) = {} => InFlight(b)' = {s}
      BY <1>4, <1>9 DEF Starts
    <3>4. PhaseAlone(s)' /\ (Consistent(b)' => PhaseUntainted(s)')
      BY <1>9 DEF Starts, PhaseAlone, PhaseUntainted, Unbroken
    <3> QED BY <1>9, <3>1, <3>2, <3>3, <3>4 DEF SessionSound, Starts
  <2>3. ASSUME NEW x \in Sessions \ {s} PROVE SessionSound(x)'
    <3>1. SessionSound(x) /\ agent'[x] = agent[x] /\ (agent[x] = b <=> x \in InFlight(b))
      BY <1>1, <1>2 DEF Still, InFlight
    <3>2. CASE agent[x] = b
      BY <1>9, <3>1, <3>2 DEF SessionSound, Starts
    <3>3. CASE agent[x] # b
      <4>1. x \in alone' <=> x \in alone
        BY <1>9, <3>1, <3>3 DEF Starts
      <4>2. agent[x] \in Agents => agent[x] \in Agents \ {agent[s]} /\ InFlight(agent[x])' = InFlight(agent[x])
        BY <1>4, <1>5, <1>9, <3>3 DEF Starts, InFlight
      <4>3. tainted \subseteq tainted'
        BY <1>9 DEF Starts
      <4> QED BY <1>6, <3>1, <4>1, <4>2, <4>3 DEF SessionSound
    <3> QED BY <3>2, <3>3
  <2> QED BY <2>1, <2>2, <2>3 DEF Sound
<1>10. ASSUME NEW b \in Agents, GoesOn(s, b) PROVE Sound'
  <2>1. UntaintedAgentsAreConsistent'
    BY <1>3, <1>4, <1>10 DEF GoesOn, Sound, UntaintedAgentsAreConsistent, InFlight
  <2>2. SessionSound(s)'
    BY <1>2, <1>4, <1>10, PhasesFollow DEF GoesOn, SessionSound, InFlight
  <2>3. ASSUME NEW x \in Sessions \ {s} PROVE SessionSound(x)'
    BY <1>2, <1>4, <1>6, <1>7, <1>10 DEF GoesOn, SessionSound, InFlight
  <2> QED BY <2>1, <2>2, <2>3 DEF Sound
<1>11. ASSUME NEW b \in Agents, Ends(s, b) PROVE Sound'
  <2>1. b \notin tainted' => Consistent(b)'
    BY <1>2, <1>11, PhasesFollow DEF Ends
  <2>2. UntaintedAgentsAreConsistent'
    BY <1>3, <1>4, <1>5, <1>11, <2>1 DEF Ends, Sound, UntaintedAgentsAreConsistent, InFlight
  <2>3. SessionSound(s)'
    BY <1>5, <1>11 DEF Ends, SessionSound
  <2>4. ASSUME NEW x \in Sessions \ {s} PROVE SessionSound(x)'
    <3>1. SessionSound(x) /\ agent'[x] = agent[x] /\ (x \in alone' <=> x \in alone)
      BY <1>1, <1>2, <1>11 DEF Still, Ends
    <3>2. CASE agent[x] = b
      <4>1. x \notin alone
        BY <1>7, <1>11, <3>2 DEF Ends
      <4>2. b \in tainted
        BY <3>1, <3>2, <4>1 DEF SessionSound
      <4>3. s \notin alone
        BY <1>2, <1>11, <3>2 DEF Ends, SessionSound, InFlight
      <4> QED BY <1>5, <1>11, <3>1, <3>2, <4>1, <4>2, <4>3 DEF Ends, SessionSound
    <3>3. CASE agent[x] # b
      <4>1. agent[x] \in Agents => agent[x] \in Agents \ {agent[s]} /\ InFlight(agent[x])' = InFlight(agent[x])
        BY <1>4, <1>5, <1>11, <3>3 DEF Ends, InFlight
      <4> QED BY <1>6, <1>11, <3>1, <3>3, <4>1 DEF SessionSound, Ends
    <3> QED BY <3>2, <3>3
  <2> QED BY <2>2, <2>3, <2>4 DEF Sound
<1> QED BY <1>1, <1>8, <1>9, <1>10, <1>11 DEF Shape

-----------------------------------------------------------------------------
(* The theorems *)

IInv == Typed /\ Numbered /\ RowsFound /\ Pointed /\ Validated /\ CopiesApart
        /\ FreshCopies /\ Faithful /\ Sound

LEMMA InitInv == Init => IInv
<1> SUFFICES ASSUME Init PROVE IInv
  OBVIOUS
<1>1. Typed /\ Numbered
  BY InitTyped
<1>2. /\ \A s \in Sessions : pc[s] = "idle" /\ agent[s] = Nobody /\ source[s] = NoSource /\ copying[s] = NoCopy
      /\ \A b \in Agents : active[b] = 0 /\ Rows(b) = {} /\ Active(b) = {}
      /\ alone = {} /\ tainted = {}
  BY DEF Init, Rows, Active
<1>3. RowsFound /\ Pointed /\ Validated /\ CopiesApart
  BY <1>2 DEF RowsFound, Pointed, Validated, CopiesApart, CreatingPC
<1>4. FreshCopies
  BY <1>2 DEF FreshCopies, Copies, CopyWriter, CreatingPC
<1>5. Sound
  BY <1>2, NobodyAssumption DEF Sound, SessionSound, UntaintedAgentsAreConsistent, Consistent
<1>6. Faithful
  BY <1>2 DEF Faithful, CreatingPC
<1> QED BY <1>1, <1>3, <1>4, <1>5, <1>6 DEF IInv

LEMMA NextInv == IInv /\ [Next]_vars => IInv'
<1> SUFFICES ASSUME IInv, [Next]_vars PROVE IInv'
  OBVIOUS
<1>1. Typed'
  BY TypedStep DEF IInv
<1>2. ASSUME NEW s \in Sessions, Step(s) PROVE IInv'
  <2>1. Numbered' /\ RowsFound' /\ Pointed' /\ FreshCopies' /\ Sound'
    BY <1>1, <1>2, NumberedStep, RowsFoundStep, PointedStep, FreshCopiesStep, SoundStep DEF IInv
  <2>2. Validated' /\ CopiesApart'
    BY <1>1, <1>2, ValidatedStep DEF IInv
  <2>3. Faithful'
    BY <1>1, <1>2, FaithfulStep DEF IInv
  <2> QED BY <1>1, <2>1, <2>2, <2>3 DEF IInv
<1>3. CASE UNCHANGED vars
  <2> USE <1>3 DEF vars, rowVars, agentVars, localVars, clientVars, Rows, InFlight, Active
  <2>1. Numbered' /\ RowsFound'
    BY DEF IInv, Numbered, RowsFound, High, Creating
  <2>2. Pointed' /\ Validated' /\ CopiesApart'
    BY DEF IInv, Pointed, Released, Validated, CopiesApart
  <2>3. FreshCopies'
    BY DEF IInv, FreshCopies, Copies, CopyWriter
  <2>4. Sound'
    BY DEF IInv, Sound, SessionSound, PhaseAlone, PhaseUntainted, UntaintedAgentsAreConsistent, Consistent
  <2>5. Faithful'
    BY DEF IInv, Faithful, IsRow, IsCopy, CopyOf
  <2> QED BY <1>1, <2>1, <2>2, <2>3, <2>4, <2>5 DEF IInv
<1> QED BY <1>2, <1>3 DEF Next

LEMMA InvAlways == Spec => []IInv
BY InitInv, NextInv, PTL DEF Spec

\* The types of the tables and of what a session holds; above all, version
\* numbers never run past the bound, whoever is creating versions at once, and
\* every definition in a row is one that validates: not only those posted to
\* create_version (repository.py:91), also what duplicate_agent makes of a
\* valid definition and of overrides that nobody has looked at (clone.py:52).
THEOREM RepositoryTyped == Spec => []TypeOK
<1>1. IInv => TypeOK
  BY DEF IInv, Typed, TypedTables, TypedPlaces, TypedLocals, TypedHistory, Validated, TypeOK
<1> QED BY <1>1, InvAlways, PTL

\* An activation moves the pointer only to a version that has been activated,
\* an archived version keeps its row, and a client's copy of the pointer was the
\* pointer when it was read: so neither ever names a draft, or no row at all.
THEOREM PointersNeverDangle == Spec => []PointerNeverDangles
<1>1. IInv => PointerNeverDangles
  BY DEF IInv, Pointed, PointerNeverDangles
<1> QED BY <1>1, InvAlways, PTL

\* Two sessions that compute the same MAX(version) + 1 cannot both insert it
\* (UNIQUE, repository.py:66), and no other statement writes a definition.
THEOREM RowsAreImmutable == Spec => VersionsAreImmutable
<1>1. ASSUME IInv, [Next]_vars
      PROVE  [\A a \in Agents : \A n \in Rows(a) :
                /\ definition'[a][n] = definition[a][n]
                /\ status'[a][n] # "none"
                /\ status'[a][n] = "draft" => status[a][n] = "draft"]_vars
  <2>1. ASSUME NEW s \in Sessions, Step(s), NEW a \in Agents, NEW n \in Rows(a)
        PROVE  /\ definition'[a][n] = definition[a][n]
               /\ status'[a][n] # "none"
               /\ status'[a][n] = "draft" => status[a][n] = "draft"
    <3>1. RowsGrow(s) /\ RowsKept(s)
      BY <1>1, <2>1, RowsOnlyGrow, RowsAreKept DEF IInv
    <3>2. n \in Rows(a)'
      BY <3>1 DEF RowsGrow
    <3> QED BY <3>1, <3>2 DEF RowsKept, Rows
  <2> QED BY <1>1, <2>1 DEF Next
<1> QED BY <1>1, InvAlways, PTL DEF Spec, VersionsAreImmutable

\* The primary key of agents decides which of two duplications with the same id
\* goes on to write its copy, and nobody else's copy lands in that agent.
THEOREM CopiesAreAlone == Spec => []OneCopyPerFreshAgent
<1>1. IInv => OneCopyPerFreshAgent
  <2> SUFFICES ASSUME IInv, NEW a \in Agents, Copies(a) # {}
               PROVE  a \in born /\ Cardinality(Copies(a)) = 1
    BY DEF OneCopyPerFreshAgent, Copies
  <2>1. PICK n \in Copies(a) : Copies(a) = {n}
    BY DEF IInv, FreshCopies
  <2>2. Cardinality({n}) = 1
    BY FS_Singleton
  <2> QED BY <2>1, <2>2 DEF IInv, FreshCopies
<1> QED BY <1>1, InvAlways, PTL

\* What the Factory's diff shows of a copy is the request and what it brings,
\* and nothing else, for every schema, definition and overrides: the version
\* that was read is still what it was, however long ago; the merge touches only
\* what it is told to; what validation makes of the values of the source it had
\* made of them before; and the only defaults it fills in anew, beside what the
\* overrides name, are those of a submodel that they put there.
THEOREM CopiesAlwaysSayWhatWasAsked == Spec => []CopiesSayWhatWasAsked
<1>1. ASSUME IInv PROVE CopiesSayWhatWasAsked
  <2> SUFFICES ASSUME NEW a \in Agents, NEW n \in Rows(a), copied[a][n] # NotCopied,
                      NEW from, from = copied[a][n].source
               PROVE  SaysWhatWasAsked(definition[a][n], definition[from.agent][from.version],
                                       copied[a][n].overrides)
    BY DEF CopiesSayWhatWasAsked
  <2> DEFINE d == definition[from.agent][from.version]
             asked == copied[a][n].overrides
             copy == definition[a][n]
  <2>1. Settled(d) /\ IsDocument(asked) /\ IsCopy(copy, from, asked)
    BY <1>1 DEF IInv, Faithful, IsRow
  <2>2. PICK t \in Agents : LET m == DeepMerge(Renamed(d, t), asked) IN Valid(m) /\ copy = Canonical(m)
    BY <2>1 DEF IsCopy, CopyOf
  <2>3. t \in Values
    BY AgentsAssumption
  <2> HIDE DEF d, asked, copy
  <2>4. SaysWhatWasAsked(copy, d, asked)
    BY <2>1, <2>2, <2>3, CopySaysWhatWasAsked
  <2> QED BY <2>4 DEF d, asked, copy
<1> QED BY <1>1, InvAlways, PTL

\* What a human who reads an empty diff may conclude, of any two documents:
\* they differ in empty dicts at most (_flatten leaves those out), so not at
\* all where neither has one.
THEOREM DiffMissesOnlyEmptyDicts ==
  ASSUME NEW a, a = [q \in DOMAIN a |-> a[q]], NEW b, b = [q \in DOMAIN b |-> b[q]]
  PROVE  /\ Touched(DeepDiff(a, b)) = {} <=> Flatten(a) = Flatten(b)
         /\ (\A q \in DOMAIN a : a[q] # EmptyDict) /\ (\A q \in DOMAIN b : b[q] # EmptyDict)
              => (Touched(DeepDiff(a, b)) = {} <=> a = b)
<1> DEFINE from == Flatten(a)
           to == Flatten(b)
           same == {q \in DOMAIN to \cap DOMAIN from : from[q] # to[q]} = {}
<1>1. from = [q \in DOMAIN from |-> from[q]] /\ to = [q \in DOMAIN to |-> to[q]]
  BY DEF Flatten
<1>2. Touched(DeepDiff(a, b)) = {} <=> DOMAIN to \ DOMAIN from = {} /\ same /\ DOMAIN from \ DOMAIN to = {}
  BY DEF Touched, DeepDiff
<1>3. ASSUME DOMAIN to \ DOMAIN from = {}, same, DOMAIN from \ DOMAIN to = {}
      PROVE  from = to
  <2>1. DOMAIN from = DOMAIN to
    BY <1>3
  <2>2. \A q \in DOMAIN from : from[q] = to[q]
    BY <1>3, <2>1
  <2> HIDE DEF from, to
  <2> QED BY <1>1, <2>1, <2>2
<1>4. Touched(DeepDiff(a, b)) = {} <=> from = to
  <2> HIDE DEF from, to
  <2> QED BY <1>2, <1>3
<1>5. (\A q \in DOMAIN a : a[q] # EmptyDict) => from = a
  <2> SUFFICES ASSUME \A q \in DOMAIN a : a[q] # EmptyDict PROVE from = a
    OBVIOUS
  <2>1. {p \in DOMAIN a : a[p] # EmptyDict} = DOMAIN a
    OBVIOUS
  <2> QED BY <2>1 DEF Flatten
<1>6. (\A q \in DOMAIN b : b[q] # EmptyDict) => to = b
  <2> SUFFICES ASSUME \A q \in DOMAIN b : b[q] # EmptyDict PROVE to = b
    OBVIOUS
  <2>1. {p \in DOMAIN b : b[p] # EmptyDict} = DOMAIN b
    OBVIOUS
  <2> QED BY <2>1 DEF Flatten
<1> QED BY <1>4, <1>5, <1>6

\* promote_version, archive_version and create_version leave the pointer and
\* the statuses of an agent in agreement as long as no two of them overlap on
\* it and none dies half way; and an activation that runs alone repairs what
\* the others left, whatever it is.
THEOREM AgentsAreConsistent == Spec => []UntaintedAgentsAreConsistent
<1>1. IInv => UntaintedAgentsAreConsistent
  BY DEF IInv, Sound
<1> QED BY <1>1, InvAlways, PTL
=============================================================================
