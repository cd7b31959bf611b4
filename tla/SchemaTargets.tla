--------------------------- MODULE SchemaTargets ---------------------------
(***************************************************************************)
(* validate_schema_targets: the targets of the manifest are validated one  *)
(* after another, with caches for the vectors and schemas they share.  A   *)
(* file that cannot be used fails the targets that name it and no others.  *)
(***************************************************************************)
EXTENDS Integers, Sequences

CONSTANTS
  Vector, Schema,  \* the files
  MaxTargets,      \* bound: targets of the manifest
  MaxItems         \* bound: items of an array

\* What becomes of a value: no pointer leads to it, it holds no JSON, or what
\* validation says of it.
Item == {"unreachable", "undecodable", "valid", "invalid"}

\* A target selects one value or, with each, the items of an array.
Target ==
  [vector : Vector, schema : Schema, expected : {"valid", "invalid"}, each : {FALSE},
   array : {FALSE}, items : [{1} -> Item]] \cup
  [vector : Vector, schema : Schema, expected : {"valid", "invalid"}, each : {TRUE},
   array : BOOLEAN, items : UNION {[1 .. n -> Item] : n \in 0 .. MaxItems}]

VARIABLES
  usable,    \* the files that can be read and, when they are schemas, compiled
  targets,   \* the targets that were validated
  cached,    \* the files in vector_cache and schema_cache
  declared,  \* declared_schemas
  errors,    \* reports: of an item, of a target (item 0), or of a schema in the end
  done       \* whether the schemas without a target were looked for

vars == <<usable, targets, cached, declared, errors, done>>

Init ==
  /\ usable \in SUBSET (Vector \cup Schema)
  /\ targets = <<>> /\ cached = {} /\ declared = {} /\ errors = {} /\ done = FALSE

-----------------------------------------------------------------------------
\* The schema is loaded only after the vector was.
Wanted(t) == IF t.vector \in cached \cup usable THEN {t.vector, t.schema} ELSE {t.vector}

\* Mutant of Remembered: what was wanted is in the cache, also when loading it failed.
RememberedUnloaded(t) == Wanted(t)

Remembered(t) == Wanted(t) \cap usable

Loaded(t) == {t.vector, t.schema} \subseteq cached \cup usable

\* All items are looked up before the first one is validated.
Selects(t) ==
  /\ t.each => t.array
  /\ \A k \in DOMAIN t.items : t.items[k] # "unreachable"

\* The items before the first one that cannot be decoded.
Decoded(t) == {k \in DOMAIN t.items : \A j \in 1 .. k : t.items[j] # "undecodable"}

\* The items whose validation does not end as expected, and 0 when the target
\* is given up.
Reports(t) ==
  IF ~ (Loaded(t) /\ Selects(t)) THEN {0}
  ELSE {k \in Decoded(t) : t.items[k] # t.expected}
       \cup (IF Decoded(t) = DOMAIN t.items THEN {} ELSE {0})

\* The schema of a target counts as declared whatever becomes of the target.
Validate(t) ==
  /\ ~ done /\ Len(targets) < MaxTargets
  /\ targets' = Append(targets, t)
  /\ declared' = declared \cup {t.schema}
  /\ cached' = cached \cup Remembered(t)
  /\ errors' = errors \cup {[target |-> Len(targets'), item |-> k] : k \in Reports(t)}
  /\ UNCHANGED <<usable, done>>

Missing == Schema \ declared

Finish ==
  /\ ~ done
  /\ done' = TRUE
  /\ errors' = errors \cup {[schema |-> s] : s \in Missing}
  /\ UNCHANGED <<usable, targets, cached, declared>>

Next == Finish \/ \E t \in Target : Validate(t)

Spec == Init /\ [][Next]_vars

-----------------------------------------------------------------------------
ReportsOf(i) == {e \in errors : "target" \in DOMAIN e /\ e.target = i}

\* Only files that could be used are cached, and only for targets that want them.
TypeOK ==
  /\ cached \subseteq usable /\ declared = {targets[i].schema : i \in DOMAIN targets}
  /\ cached \subseteq UNION {{targets[i].vector, targets[i].schema} : i \in DOMAIN targets}
  /\ \A e \in errors : "schema" \in DOMAIN e => done

\* A target is right by itself, whatever was validated before it.
Right(t) ==
  /\ {t.vector, t.schema} \subseteq usable
  /\ t.each => t.array
  /\ \A k \in DOMAIN t.items : t.items[k] = t.expected

\* The caches, the order of the targets and the faults of other targets make no
\* difference: a target is reported exactly when it is wrong.  An item that is
\* not as expected is named unless the target was given up.
ReportedIfWrong ==
  \A i \in DOMAIN targets :
    /\ ReportsOf(i) = {} <=> Right(targets[i])
    /\ \A k \in DOMAIN targets[i].items :
         targets[i].items[k] \in {"valid", "invalid"} \ {targets[i].expected} =>
           \E e \in ReportsOf(i) : e.item \in {0, k}

\* When nothing is reported in the end, every schema of the repository can be
\* used and everything its targets select was validated against it.
SilenceCoversSchemas ==
  done /\ errors = {} =>
    \A s \in Schema : s \in usable /\ \E i \in DOMAIN targets : targets[i].schema = s /\ Right(targets[i])
=============================================================================
