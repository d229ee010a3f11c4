--------------------------- MODULE DefinitionDocs ---------------------------
(***************************************************************************)
(* Agent definitions as documents, and what the repository and the Factory *)
(* do with them: validation and what it makes of a document (models.py),   *)
(* the merge of overrides (clone.py) and the diff of versions (diff.py).   *)
(* A document is a function from the paths of its leaves, sequences of     *)
(* keys, to their values.  An empty dict is a leaf, EmptyDict, and so is a *)
(* list: nobody looks inside one but the type of the field it stands in.   *)
(***************************************************************************)
EXTENDS SequencesExt

CONSTANTS Keys,       \* the keys of the dicts
          Values,     \* the values of the leaves
          Fields,     \* the leaves the schema declares
          FreeForm,   \* those declared as a plain dict: any keys inside
          Optional,   \* those that are None or a submodel, with fields of its own
          Parse,      \* Parse[f][v]: what field f's type makes of v, or BadValue
          Defaults,   \* the document of all defaults
          EmptyDict,
          BadValue    \* what no field accepts

Paths == Seq(Keys)
IsDocument(doc) == DOMAIN doc \subseteq Paths /\ \A q \in DOMAIN doc : doc[q] \in Values

Inside(q, p) == IsPrefix(p, q)            \* q is p, or a path in the dict at p
Mentions(doc, p) == \E q \in DOMAIN doc : Inside(q, p)
IsDict(doc, p) == \E q \in DOMAIN doc : Inside(q, p) /\ (q # p \/ doc[q] = EmptyDict)

\* Of the fields, only an optional submodel has others inside, one level down.
ASSUME SchemaAssumption ==
  /\ Fields \subseteq Paths /\ FreeForm \cup Optional \subseteq Fields /\ FreeForm \cap Optional = {}
  /\ <<"id">> \in Fields \ (FreeForm \cup Optional)
  /\ \A f, g \in Fields : Inside(g, f) => g = f \/ (f \in Optional /\ g \notin Optional /\ Len(g) = Len(f) + 1)

\* What a type has made of a value it makes the same again, and no type takes
\* an empty dict: a submodel that may be None has a required field.
ASSUME ParseAssumption ==
  /\ {EmptyDict, BadValue} \subseteq Values /\ EmptyDict # BadValue
  /\ Parse \in [Fields \ FreeForm -> [Values -> Values]]
  /\ \A f \in Fields \ FreeForm : /\ Parse[f][EmptyDict] = BadValue
                                  /\ \A v \in Values : Parse[f][Parse[f][v]] = Parse[f][v]

ASSUME DefaultsAssumption ==
  /\ IsDocument(Defaults) /\ Optional \subseteq DOMAIN Defaults
  /\ \A q \in DOMAIN Defaults : \/ q \in FreeForm /\ Defaults[q] = EmptyDict
                                \/ q \notin Fields /\ \E f \in FreeForm : Inside(q, f)
                                \/ /\ q \in Fields \ FreeForm /\ Defaults[q] # BadValue
                                   /\ Parse[q][Defaults[q]] = Defaults[q]

IsSubmodel(p) == p \notin Fields /\ \E f \in Fields : Inside(f, p)
\* The fields of an optional submodel count when there is one.
Due(doc, f) == \A o \in Optional \ {f} : Inside(f, o) => IsDict(doc, o)
DefaultsOf(f) == {q \in DOMAIN Defaults : q = f \/ (f \in FreeForm /\ Inside(q, f))}
Required == {f \in Fields : DefaultsOf(f) = {}}
Read(q, v) == IF q \in Fields \ FreeForm THEN Parse[q][v] ELSE v

\* extra="forbid" everywhere, required fields present, values of their types.
Valid(doc) ==
  /\ IsDocument(doc)
  /\ \A q \in DOMAIN doc : \/ q \in Fields \/ \E f \in FreeForm : Inside(q, f)
                           \/ IsSubmodel(q) /\ doc[q] = EmptyDict
  /\ \A f \in Required : Due(doc, f) => Mentions(doc, f)
  /\ \A q \in DOMAIN doc \cap Fields : IF q \in FreeForm THEN doc[q] = EmptyDict
                                                         ELSE Parse[q][doc[q]] # BadValue

\* model_dump: every field as its type reads it, those left out with their
\* defaults; a submodel given as an empty dict is no leaf any more.
Canonical(doc) ==
  LET given == {q \in DOMAIN doc : ~IsSubmodel(q)}
      left == {f \in Fields : Due(doc, f) /\ ~Mentions(doc, f)}
      filled == UNION {DefaultsOf(f) : f \in left}
  IN  [q \in given \cup filled |-> IF q \in given THEN Read(q, doc[q]) ELSE Defaults[q]]

\* A faulty variant, for the mutants of PROJECT.json: {**base, **overrides}.
ShallowMerge(base, overrides) ==
  LET kept == {q \in DOMAIN base : \A p \in DOMAIN overrides : p[1] # q[1]}
  IN  [q \in kept \cup DOMAIN overrides |-> IF q \in kept THEN base[q] ELSE overrides[q]]

\* Dicts merge key by key, anything else replaces what was there.
DeepMerge(base, overrides) ==
  LET put == {p \in DOMAIN overrides : overrides[p] # EmptyDict \/ ~IsDict(base, p)}
      kept == {q \in DOMAIN base : \A p \in put : ~Inside(q, p) /\ ~Inside(p, q)}
  IN  [q \in kept \cup put |-> IF q \in kept THEN base[q] ELSE overrides[q]]

\* _flatten: an empty dict leaves no trace.
Flatten(doc) == [q \in {p \in DOMAIN doc : doc[p] # EmptyDict} |-> doc[q]]

\* The paths that deep_diff reports as added, changed or removed.
DeepDiff(old, new) ==
  LET from == Flatten(old) to == Flatten(new)
  IN  [added |-> DOMAIN to \ DOMAIN from,
       changed |-> {q \in DOMAIN to \cap DOMAIN from : from[q] # to[q]},
       removed |-> DOMAIN from \ DOMAIN to]
=============================================================================
